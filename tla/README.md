# TLA+ models of portage-cli

portage-cli (`em`) is a package manager for Gentoo in Rust: it resolves atoms to a
plan of packages, builds and installs them in dependency order, one at a time or
`--jobs N` at once, removes the packages that block them, and remembers what it
did so that an interrupted run can be resumed. These modules model the part of it
where order, failure and crashes matter: the merge loops, the session around them,
the state it leaves on disk, the installation of a package into a root that
other processes change too, and the libraries a removal must leave behind; and four
algorithms of the resolver that are easier to get wrong than they look: the
order the packages are built in, what is removed for a blocker, the fixpoint that
forces USE flags, and the version range a dependency becomes. TLC checks all of it on small instances; TLAPS proves the
safety properties of both loops, of the session, of qmerge, of the build order and of
the blocker verdicts, and the correction of version ranges, for every plan and dependency graph, any number of
jobs, processes and packages, and any versions.

## The system

| Part (source) | State it keeps | Operations | What is hard |
|---|---|---|---|
| parallel loop (`portage-cli/src/merge/mod.rs`, `merge_parallel`, `Scheduler`) | counters, reverse edges, ready queue, running futures, taken work directories, `stop_new` | start a merge, start an unmerge, skip, finish well or badly, stop, flush | futures end in any order; failure, signal and skips in one loop |
| sequential loop (`merge_sequential`, `splice_points`, `run_due_unmerges`) | the position in the plan, the unmerges at each position, the failures | the turn of an entry: unmerges before, skip or build, unmerges after | several owners per victim, `--keep-going`, the signal between two checks |
| session (`emerge.rs`) | atoms and flags, the plan, the job id | resolve, preview, save, merge, clear, add to world | early returns and their order, `?` on the way |
| resume state (`maint/resume.rs`) | two slots in `em-resume.json`, marker files per job | save, mark, read, promote the backup, clear, cleanresume | a crash between any two writes; jobs that supersede each other |
| signal (`interrupt.rs`) | one flag | the first signal sets it, the second ends the process | it is looked at in several places, not at the same time |
| qmerge (`ebuild/mod.rs`, `ebuild/flock.rs`) | the merge gate, the merge lock, the ownership index of the VDB | collision check, install, replace the slot's occupant, register | two locks, a cache kept across merges, other processes, failing phases half-way |
| VDB (`portage-vdb`) | one directory per package, the counter | register, unregister, find the occupant, the stamp of the index | directory swaps and a counter file that a crash can cut short |
| preserved libraries (`preserve_libs.rs`) | a registry of libraries kept for their consumers | load, reclaim, store | deferred to the end of a batch, shared by processes without a lock of its own |
| preserving in a batch (`LinkGraph`, `MergePreserveState`) | the link graph and the registry in memory, across the merges of a batch | take out the package replaced, preserve, delete, register, reclaim at the end | when the kept graph is stale; what counts as a provider |
| build order (`portage-atom-pubgrub/src/graph.rs`, `round/plan.rs`, `assemble.rs`) | the order so far, the pairs held to | walk the components, order a cycle, repair inverted pairs, move the targets, derive blockers | cycles that must be broken somewhere; greedy steps that depend on each other |
| blocker verdicts (`portage-atom-pubgrub/src/validate.rs`, `portage-resolve/src/conflicts.rs`) | the candidates still simulated away | find the hits, simulate the removals, put back, refuse or unmerge | joint removals; who owns an unmerge; which of them have a place in the plan |
| USE co-solve (`portage-resolve/src/package_use.rs`) | forced flags, demands seen, decisions | solve, force, settle, solve again | a decision changes what earlier ones were made from |
| version ranges (`portage-atom/src/version.rs`, `portage-atom-pubgrub/src/version_set.rs`) | none but the range under construction | order key, bounds of `=V*` and `~V`, correction by the known versions | zero-led components, unnumbered suffixes, carries at `u64::MAX` |
| the rest of the resolution (`portage-resolve`, `portage-atom-pubgrub`, `portage-atom-resolvo`, `query/depgraph`) | none that outlives a call | atoms to a plan, with blockers and victims | the solver itself is a library |
| repositories, metadata, atoms, distfiles, binary packages, activity, maintenance, crossdev, setup, select, queries | files they read, or write one at a time | | see `PROJECT.json`, one entry each |

How they meet: `install_order_with_stats` orders a solution, and `assemble.rs` makes
of it the plan with its blockers; beside it `classify_blockers` decides which installed
packages the plan removes, or that it cannot be had. `emerge_atoms_inner` saves a job, calls `run_merge_plan` with the
plan, the blocker lists and the positioned unmerges, and looks only at its
`Result`: `Ok` clears the job and writes the world file. The loop starts
`act_on_package` (a build, then qmerge under the merge gate) or
`unmerge_blocker_victim` for each node, and marks a package that returned `Ok`. The
signal handler runs beside all of it. Inside a merge, `run_merge` asks the link graph
what the package it replaces must leave behind, and the gate keeps graph, registry
and ownership index for the next merge if nothing else touched the VDB.

## Modules

| Module | Models | State and actions |
|---|---|---|
| `MergePlan` | what both loops are given: blockers, unmerges, owners, work directories, flags | `Extended` is `extend_blockers_with_unmerges`, `BeforeUnmerges`/`AfterUnmerges` are `splice_points` |
| `BuildOrder` | what both loops promise: every node once, after what blocks it; with `PastFailures`, `--keep-going` goes past failed entries | `done`, `running`, `failed`; `MergeScheduler` implements it with `Jobs` jobs, `MergeSequential` with one (`BAlone` is its unmerge, begun and ended in one step) |
| `MergeScheduler` | `merge_parallel` | `outstanding`, `dependents`, `ready` are the fields of `Scheduler`; one action per way through the inner and the outer loop |
| `MergeSchedulerProofs`, `MergeSequentialProofs`, `EmergeSessionProofs`, `QMergeProofs`, `PreserveLibsProofs`, `InstallOrderProofs`, `BlockerVerdictsProofs` | theorems about the module each is named after | |
| `ResolveProofs` | theorems about `Cosolve` and `VersionSet` (whose `VSSpec` and its parts are named so that one module can extend both) | |
| `MergeSequential` | `merge_sequential` | one action per stretch of the `for` body between two awaits |
| `EmergeSession` | `em`, `em -r`, `em -r -p`, `em maint cleanresume --fix`, one after another, and their death | `live`, `backup`, `markers` are the files; `pc` is where the process is between two writes |
| `QMerge` | `run_merge` and `unmerge_package` under `MergeGate` and the merge lock, by several processes and tasks on one VDB, and `em -C` without locks | `dirs`, `slotted`, `listing`, `contents` are the VDB's directories, SLOT and CONTENTS files; `index` is `MergeBatchState`; a step lies between two points where another process can be noticed, or a phase can fail |
| `PreserveLibs` | `MergePreserveState`, `LinkGraph` and `PreservedLibsRegistry` under the merge lock, in a batch that keeps them, in a worker, and in `em -C` without the lock | `registry` is the file, `state` what a process has in memory, `index` says whether its kept state may be used again |
| `InstallOrder` | `install_order_with_stats`, `order_cycle`, `repair_soft_inversions`, then `targets_last` and the edges of `assemble.rs` | `order` and `rest` are the walk, `before` is `before_succ`, `todo` the inverted pairs; one action per component begun, package placed, pair tried |
| `BlockerVerdicts` | `check_blockers_detailed`, `classify_blockers`, `removal_obstacles`, `planned_unmerges`, and the unmerges of a run | `removed` is the set of that name; one action per round of the simulation, per verdict, per package merged or failed, and for the batch after the plan |
| `Cosolve` | `cosolve_use_deps` for one flag, with the solve it repeats | `applied`, `reqs`, `seen`, `decisions` are the maps of the loop; one action per solve, per contested flag, per end of an iteration |
| `Versions` | versions as written, their order key, `glob_matches`, the bounds | pure operators |
| `VersionSet` | `from_operator_among` | `unjudged`: the known versions not looked at; `added`, `cut`: what was corrected |
| `PlanRequests`, `MC*` | the instances TLC checks | |

What the loops abstract: a package's build is one step that ends well or badly; a
work directory is a number; cpvs are plan positions, so two entries with one cpv
for two roots have separate owners, where `owner_plan_indices` finds the first.
The entries found installed are fixed per request (`skippable`): nothing in a plan
merges another entry's cpv. `key_for` is awaited inside the inner loop without
polling the running futures, which only delays their ends. An unmerge that stops
at the signal and returns `Ok` (`execute_unmerge_batch`) is in both loops
(`unremoved`).

What the session abstracts: a package of the plan is a model value and the loop is
reduced to the packages it leaves merged, marked or failed, in any order. Jobs are
those of top-level selections (`update_world`): `--oneshot`, fetch-only and
build-only runs, the overlay of flags on `-r`, and completions of the old JSON
form are left out, and one process runs at a time. A write of `em-resume.json` is
one step (it goes to a temporary file and is renamed); the directory of markers is
removed file by file, and may be left half removed.

What qmerge abstracts: a path is an object or a symlink (directories may be shared
and do not collide); a build's image is chosen when the merge begins; a scan of the
VDB is one step, the stamp it gets afterwards another; the stamp is the counter and
the names, without modification times, which the source says may be equal for two
changes in one clock tick. `next_counter`, the staging directory and the rename are
one step, but for the moment in which a displaced entry of the same name is gone.
What `pkg_preinst` adds to the image (not checked by the code either), `._cfg`
names, preserved libraries and the modes that take no lock are left out. `gnawed`
and the counts are history: nothing in the system depends on them.

What preserving abstracts: a library is its path and provides one soname, which
stands for the pair of multilib category and soname; what a package needs is what
its `NEEDED.ELF.2` lists; packages of different slots share no path (the collision
check of qmerge: `PreserveLibsAssumption`). One removal or replacement is one step, between the phases
that may fail. `overlap` and `forgotten` are history: an `em -C` without the lock that
ran beside another job, and files that left the registry on the code's own account
(`register` overwrites the entry of a slot, `store` writes the entries it changed
over what another process made of them (`Overtaken`), a failed merge or a killed process leaves
files nobody lists).

What the build order abstracts: a package is its index in key order and a name of its
own; counters of what is pending are counted anew from what is left; Tarjan's
algorithm is its result, mutual reachability. How the edges are made from a solution
(`dependency_graph_with_stats` looks through virtual packages), the trims,
`slot_operator_rebuilds` and root closures are left out.

What the blocker verdicts abstract: a package is a name and a slot, atoms have no
versions or USE flags, and a need is one `||` group (`^^`, `??` and all-of groups are
read like their members by the code); what members of the solution need is the
solver's. A run is reduced to the order `MergeScheduler` and `MergeSequential` keep
without `--keep-going`, an interrupt or a failing unmerge: what these do is the
subject there.

What the co-solve abstracts: one flag, packages that are all new, a solver that plans
what the request reaches. A solve records one of several equal demands, whichever its
hash map meets first: that is `Recorded`, a set of choices. Two demands of one parent
may want its flag both ways, and the one met last counts: that is `Flips`, another.
`SettlementHolds` and `Explained` leave out what the code does lose, since it compares
decisions, not overrides (`package_use.rs:420`): the flags that another contested flag
follows (`Yielding`), the parents flipped, and the flags whose flips need not last
(`Unsure`).

What the versions abstract: a number is one element of the key, where the code writes
its length and bytes; digits are those of base `Base`; `u64::MAX` is `MaxNum`. Zeros
before a component are kept as written, as `to_parts` gives them.

Operators named `...Slip` are wrong variants of the definition that follows them.
No specification uses them; put in its place, each breaks the property it is listed
with in `PROJECT.json`.

## Runs

| Run | Instance | Shows | Properties |
|---|---|---|---|
| `parallel` | every blocker graph on 3 entries with at most 1 unmerge of either strength and any owners, on 2 entries with 2; shared and separate work directories, `--keep-going` or not; 2 jobs; 139,715 states | queue exact, order kept, nothing runnable left, clean exits complete, termination, `BuildOrder` implemented | `OrderRespected`, `QueueExact`, `VictimOrder`, `WorkdirsExclusive`, `NothingRunnableLeft`, `CleanExit`, `Terminates`, `ImplementsBuildOrder` |
| `sequential` | the same plans in separate directories; 74,854 states | the spliced unmerges are where PMS 8.3.2 wants them, `BuildOrder` implemented (plan order stands in for the graph), clean exits | `StrongVictimGone`, `WeakVictimKept`, `ImplementsBuildOrder`, `CleanExit` |
| `session` | 2 packages, 3 jobs, 3 faults (failure, failed write, signal, death), any sequence of invocations; 737,012 states | resume state sound through every crash, superseded jobs kept, an unfinished job lost only to a signal or, from the backup, to two newer jobs, nothing built twice for one job, all jobs done in the end | `ResumeSound`, `NoRebuild`, `NoJobForgotten`, `BackupUntouched`, `EventuallyNothingPending` |
| `qmerge` | 2 versions of a package and another that collides with one of them, any VDB of them to begin with; one em with two tasks and a kept index, one without an index, an `em -C`; 2 merges or scheduled unmerges, 1 removal, failure or crash; 385,495 states | one owner per path and per slot whatever runs at once or dies, the kept index is never behind the VDB, nobody's files go but those of a package being removed, nothing is left over when nothing fails, the locks are always given back | `NoSharedPaths`, `SlotUnique`, `IndexExact`, `OwnedOnDisk`, `Settled`, `JobsEnd` |
| `preserve_libs` | two versions of a library package with different sonames, a second provider and a consumer; a batch with a kept or a flushed state, a worker that keeps none, an `em -C`; 3 merges or removals, one failure or kill; the consumer needs both sonames; 2,150,245 states | no step takes the last copy of a library an installed package needs, nor a file a package owns; no preserved file is forgotten | `TypeOK`, `OwnedLibsOnDisk`, `PreservedTracked`, `NeededLibsKept` |
| `cosolve` | 3 packages, up to 2 dependencies of any kind among them, up to 2 demands of the request, every default, one flag held or none; 673,158 states | a fixpoint explains what it leaves violated; settlements hold and nothing is forced without a reason at any time | `Explained`, `SettlementHolds`, `ForcedForAReason` |
| `install_order` | 4 packages with build-tool and runtime dependencies on up to 4 pairs of them, 3 packages with any, two cycles that share a package in every numbering, and for the plan 2 dependencies of any class, any targets, perhaps one package not merged; 382,216 states | only build-time cycles are broken, and the plan says where; the repair takes nothing back, its sort never stalls, what it leaves inverted is forced | `HardCyclesOnly`, `NothingTurnedBack`, `InversionsForced`, `NeverStalls` |
| `blockers` | 4 installed packages, two of them slots of one name; a plan of a new package, alone or with one kept, upgraded or in a new slot; up to 2 needs and 2 blockers; 748,766 states | nobody that stays loses what it needs, the rounds put back only what another package that stays claims, strong victims never meet what excludes them | `NeedsKept`, `PutBackClaimed`, `StrongNeverMeets` |
| `versions` | about 200 versions, each as candidate and as the version of `=`, `=*` and `~`; 6 known versions in every combination and order; 247,673 states | the key order is the PMS order, the ranges miss no match but those under the `_alpha` padding, each known version lands on its side, or stays in a range that says it is exact | `KnownSettled`, `KeyOrder`, `RangesHold` |

Bounds. Three entries are the fewest that have a node with two blockers, a chain,
and a free node beside them; the third is what a rotation or a lost wake-up needs.
Two unmerges are enough for a strong and a weak one with a common owner and for
two due at one point. With 2 jobs the slots are full, half full and empty. Two
packages let a job be half done, three jobs let a backup be superseded in turn, and
three faults let a resumed run fail again and be superseded (`MaxJobs` and
`MaxFaults` are named in the module). `session` may stop: when `MaxJobs` jobs were
started and none is left there is nothing to invoke, so deadlock is not checked
there, nor in `qmerge`, which is over when its jobs are. In `qmerge` two merges are
enough to find a kept index stale, since it may be warm at the beginning; of two
tasks of one process one can wait for the gate while the other holds the lock; the
two paths let the versions share one and the other package collide on the other.
In `preserve_libs` three jobs are what it takes to preserve, to own again and to
replace once more, with one job left over for another process. In `cosolve` two
dependencies and two demands make a flag contested by a parent that is contested
itself; the bound of 8 solves is never met with three packages. In
`install_order` two cycles through one package are the fewest dependencies for which the
rule of `order_cycle` about build cycles, and the order in which pairs are promoted,
make a difference. In `blockers` two needs let a put-back package anchor another, two blockers
give a victim two owners, a strong and a weak hit, or a pair that stays beside one
that does not; two slots of a name are what makes a round choose. In `versions`, base 2
with numbers up to 2 has a width change (`1` to `10`) and an overflow; three
components let a carry end in a zero-led one. `preserve_libs`, `cosolve`, `blockers` and `versions`
end, so deadlock is not checked there.

Three more runs each check one statement of the source that the code does not keep;
see the findings in `PROJECT.json`:

- `interrupted_job` (`InterruptedJobKept`): after the first Ctrl+C the loop records no failure, so the job
  saved for `-r` is cleared and the atoms go to the world file.
- `preserved_provider` (`DeferredReclaimSafe`): a preserved library that a package owns again counts as a
  provider of its own soname until the batch ends, and the next replacement of that
  package deletes the last copy.
- `orphaned_unmerge` (`VictimsGone`): an installed package that weakly blocks the plan owns its own
  unmerge, which then waits for that package to be merged: `em` ends well with both
  installed.

The type invariants of the modules proved about, the counters of the scheduler
(`Bookkeeping`), the world file (`WorldInstalled`), `ToolsFirst` and
`RefusalJustified` are theorems, and no run checks them beside.

Met while modelling and true of the models too, without a run of their own:

- With `--keep-going` the sequential loop removes a weak victim after its latest owner
  merged, also when an earlier one failed (`merge/mod.rs:1297`; the comment above it
  speaks of "its owner"). `WeakVictimKept` says what it does keep: the latest owner merged,
  and no other has its turn still to come.
- There is one backup: a third job saved while two are unfinished takes the place of the
  older one (`resume.rs:246`), whose markers then stay on disk until `cleanresume --fix`.
  `NoJobForgotten` allows that and the signal, and nothing else.
- A signal during a strong unmerge lets its owner be built over it in the sequential
  loop (`emerge.rs:1372` returns `Ok`). In the parallel loop it cannot happen: after the
  signal nothing is started (`VictimOrder` is proved with this case in).
- A settled flag may end without its setting. Let 1 need `2[flag=]` and 2 need `3[flag=]`, and
  the request ask for the flag of both: 2 is settled by flipping 1, then 3 by flipping 2. If that brings
  a package in whose plain `[-flag]` on 3 makes 3 a conflict, the flip of 2 is released, and since
  the decision on 2 is still the same (`package_use.rs:420`) it is not forced again: the
  outcome lists 2 as matched and leaves it unset. It takes four packages; proving an
  earlier `SettlementHolds`, which three packages did not refute, found it.
- Flipping a parent's flag to settle another may violate a demand on the parent, which
  is then neither forced nor reported (`package_use.rs:465`).
- Of an `||` group whose installed alternative is removed, one that is neither installed nor
  planned counts as held (`conflicts.rs:236`), so the removal robs a package that stays.
  `NeedsKept` is about groups without such an alternative.
- `em -r -p` with nothing left clears the job (the empty-plan branch, `emerge.rs:680`,
  is before the pretend return at 761).
- In the parallel loop a failure elsewhere drops an unmerge whose owners all merged
  (`merge/mod.rs:1645`; `emerge.rs:917` says otherwise of orphaned unmerges).
- A merge that dies while it unregisters the package it replaces leaves a half entry
  (`portage-vdb/src/write.rs:243`).
- A package that `em -C` removes while a merge is under way is stamped as known by the
  merge's `refresh` and stays an owner in the index (`ebuild/mod.rs:2376`): a later
  merge is refused for a file nobody owns. The other direction, an owner the index
  lacks, cannot happen: `IndexExact`.
- `em -C a b` judges both by a graph without either: if `a` then stays, what it needed
  of `b` is gone. The needs of the package being merged are not in the graph either.
- `register` (`preserve_libs.rs:142`) overwrites the entry of a slot, and two processes
  that store the same slot lose one entry: those files are never reclaimed.
- In a build cycle the repair may keep a runtime dependency and give up a second
  build-time one: with 3 before 2, 2 before 3, 1 before 2 and 3 before 1 for the build and
  1 before 3 at run time the order is 1, 3, 2, for runtime pairs the walk had right are
  locked before inverted build-time ones are tried (`graph.rs:656`).
- A package the simulation puts back need not be needed (`conflicts.rs:303` says each is
  confirmed): when `b`, and `a` or `b`, are needed and both are taken, both are put back
  and reported; `PutBackClaimed` asks for a need with all candidates gone. It changes no verdict, for one that is needed refuses the plan.
- The co-solve forces one `[flag?]` dependency of a chain per solve, so a chain longer
  than the bound of 8 is cut off (`package_use.rs:332` says the bound is a backstop).
- The range of `~V` also holds `V_p`'s pre-releases (`V_p_alpha`), which are no match
  (`version.rs:507` says it holds exactly `V` and its revisions); `glob_bounds_exact` is true
  of two overflows (`V_pMAX_p*`, `1.0.MAX*`) whose range holds other versions
  (`HiddenOverflow`).
- A range that says it is exact is not corrected by the known versions, and `glob_bounds_exact`
  does not look below the suffix of the upper bound: `1.3_alpha_pre1` stays in `=1.2*`, though
  `version_set.rs:58` says each known version lands on its side. `KnownSettled` leaves it there too.

## Fairness

`MergeScheduler`: weak fairness of the loop's own steps (one task that is always
polled) and of the end of some running future (a build ends, one way or the other).
None for the signal, for a failure in particular or for which future ends.
`MergeSequential` states none: it is checked for deadlock only. `EmergeSession`: weak fairness of a
running invocation's steps, none for faults, and strong fairness of a real
`em -r`: the user repeats it as long as there is a job; new jobs are bounded by
`MaxJobs`. Without the user's part nothing brings a stopped job to its end, and
`EventuallyNothingPending` says only that `-r` does. `QMerge`: weak fairness of each
task's next step (phases end; a waiter gets the lock when it is free, and the jobs
that compete for it are bounded by `MaxJobs`), none for beginnings, failures and
deaths.

## Proofs

**The parallel loop** (`MergeSchedulerProofs`), for every set of well-formed requests
and every `Jobs > 1` (assumptions `RequestsAssumption` and `JobsAssumption`):
`TypeCorrect`, `DependencyOrder`, `ReadyQueueExact`, `BookkeepingExact`,
`NoSharedWorkdir`, `BlockerOrder`, `RunDrains`, `CleanExitComplete`, `RunIsFinite` and `Refinement`
(the scheduler implements `BuildOrder`).

None of these is inductive alone. That a node on the queue may start needs the
queue to be exact; that needs a node to be pushed when its last blocker completes,
so the counter to equal the number of its blockers still to complete, so the
reverse edges to be those of the graph. `IInv` is `TypeOK`, `OrderRespected`,
`QueueExact`, `Bookkeeping`, `WorkdirsExclusive` and four facts that tie the
control point to the rest: `Drained` and `Quiescent` (what an awaiting or a
returned loop has left), `SkippedAreEntries`, and `UnremovedLate` (an unmerge that
returned early did so after the signal, and nothing was started since, which
`BlockerOrder` needs). `CompleteExact` is the lemma about `Scheduler::complete`
that the steps rest on: a completed node has no edge left, its dependents count one
less, and exactly those that reach zero are pushed, once each. `CleanExitComplete`
adds that the spliced unmerges close no cycle (`NoCycle`: a
non-empty set of unfinished nodes has one that none of them blocks), so a loop that
ended with nothing runnable and nothing failed has nothing left.

**The sequential loop** (`MergeSequentialProofs`), for the same requests:
`SequentialTypes`, `StrongVictimsFirst`, `WeakVictimsLast`, `PlanOrderSuffices`,
`CleanExitSequential`, `RunIsFinite`, and `SequentialRefinement`: with one job and `PastFailures`
it implements the `BuildOrder` the other loop does. The invariant says what the position means (`PositionMeaning`):
every entry before it has had its turn, and which of the unmerges at it are through.
The refinement adds `TriedOnce` (an unmerge that is due has not been tried), and its core is
`TurnComes`: when the position reaches a node, all that blocks it is done, or failed
and gone past.

`RunIsFinite` of either loop is the half of termination the prover can do: `StepsLeft`, a
natural number, goes down with every step. `Terminates` and the absence of deadlock, which
say that there always is a step until the loop returns, are TLC's.

**The session** (`EmergeSessionProofs`), for any packages, shapes, and number of jobs and
faults (`SessionAssumption`): `SessionTypes`, `SkipsOnlyBuilt`, `NothingBuiltTwice`,
`SupersededKept`, `WorldOnlyInstalled`, `JobsStayResumable`. The invariant adds to
`ResumeSound` that ids are never given out twice and the two slots never hold one job,
that an invocation works on the live job as it was saved, and `Covered`: what it was
asked for is done, under way or still to start, unless a failure or the signal was
recorded. The last is what makes clearing the job, and the world file, right. `JobsStayResumable`
adds `InOrder`: ids are given out in turn and the backup is the older of the two jobs, so
what a new one pushes out is older than both that stay.

**qmerge** (`QMergeProofs`), for any packages, images, processes with any tasks and any
bounds (`QMergeAssumption`): `QMergeTypes`, `PathsNotShared`, `OnePerSlot`,
`KeptIndexExact`, `OwnedStays`, `QuietSettled`. The first fact is `Mutex`: one task is
past the merge lock, and it holds its process's gate. From there, what a task has
looked up under the lock stays true until it writes, since nobody else publishes:
`SlotHeld` (the occupant it found is the slot's only one), `ImageFree` (no other
package owns what it is about to install), `IndexAhead` (a kept index that may be used
again owns at least what the VDB lists, so the collision check misses nobody). An
`em -C` takes no lock, but it only takes away, and every one of these facts survives
that. `DiskHeld` says whose files are there while a package is half-way in or out.
Three more parts hold only while nothing failed and nothing was removed by hand
(`QuietVdb`, `QuietDisk`, `QuietIndex`) and are what `Settled` follows from.

**The build order** (`InstallOrderProofs`), for any finite set of packages, any graph, targets
and packages to merge (`InstallOrderAssumption`): `OrderTypes`, `OnlyCyclesBroken`, `NothingLost`,
`OnlyForcedInversions`, `RepairNeverStalls`, `ToolsKeepTheirs`. `Walked` says that components
are placed whole and after what they wait for; within one, `NoCrossCycle` finds a
package that waits for none outside its build cycle (the one with the fewest packages
above it), so `order_cycle` never has to choose another. `StaysAcyclic` is the argument
for `try_add`: if the consumer does not reach the dependency, every set still has
a package that waits for none of it. `Tried` and `ToolsTried` say of each inverted pair
that it was added or is refused by what is held to, which only grows.

**The blocker verdicts** (`BlockerVerdictsProofs`), for any packages, needs and blockers
(`BlockersAssumption`): `VerdictTypes`, `RefusedForAReason`, `PutBackForAReason`,
`StrongBlocksHold`, `NobodyIsRobbed`. `AllCleared` says that an accepted plan lets go of every
candidate at once, with no obstacle left: so the victims are the candidates, and
`NothingElseGone` that the run takes nothing else. `PutBackMeansNeed` traces a refusal to the
first round, and `PutBackClaimed` each candidate put back to the need that named it in its own
round, whose package is never simulated away later. `StrongOut` is where the owners matter: an installed package that blocks a
plan strongly owns its unmerge, so it has no place in the plan and goes before it.

**Preserved libraries** (`PreserveLibsProofs`), for any packages, slots, sonames, processes
of any modes and any bounds (`PreserveLibsAssumption`): `TypeCorrect`, `OwnedOnDisk`,
`NothingLost`, and `NeededKept`, an action property. `GraphExact` says which packages each
link graph counts: those installed, short of the ones its job is about to take out. So
what `find_libs_to_preserve` finds without a provider is what the system will lack, and
`RemovalSpares` that nothing else a removal deletes is a last copy. A graph kept for the
next merge stays exact because whoever changes the VDB is alone (`Alone`), and it is used
again only if the stamp is what it was. `OrigKept` (an entry that was loaded is still there, or was replaced over)
makes the merge of `store` with the file lose nothing, and `Tracked` that what is on disk
without an owner is in the file, or in an entry its process will write (`Pending`).
Types, the one package per slot, and what each stage of a job holds (`Shaped`) are kept
always; the rest until an `em -C` without the lock meets another job.

**The co-solve** (`ResolveProofs`), for any packages, dependencies, defaults, values held,
and bound of the loop (`CosolveAssumption`): `CosolveTypes`, `FixpointExplained`,
`SettledStays`, `NothingForcedIdly`. What makes `Explained` come out is `Steady`: in an
iteration that changed nothing, the demands on record are those of the plan as it is,
and each decision is what settling anew would give. A dependency still violated has
then a demand on record (`ViolationRecorded`), perhaps of another parent. If its target is
not contested it was forced the other way, so it was flipped; if it was settled the
other way, the demand's parent was flipped and, unless others may take that back
(`FlipsStand`), no longer asks (`GaveWay`). `Tied` keeps decisions to demands that were seen.
`SettledStays` holds in every state, not only at the fixpoint.

**Versions** (`ResolveProofs`, last sections): `EachLandsOnItsSide`, for every pattern
and every set of known versions, whatever `FromOperator` and `GlobMatches` are: two versions
with the same key are judged alike, so no correction undoes another. And, for any
versions at all, `KeysAreOrdered`, the byte key compares as PMS does, and
`VersionsTotallyOrdered`. Two versions are taken where they part; before that their bytes
are the same (`FlattenSplit`, `LexCommon`), and from there no part of a key begins another, so what
differs decides, whatever follows (`ComponentOrder`, `SuffixOrder`). A zero-led component
compares as its digits with the zeros at the end taken off (`StringShape`), which its bytes
keep because their end is below every digit (`EncOrder`); next to a number it is lower, as
`0` is lower than any first digit (`DigitsShape`). `Digits` and `FlattenSeq` are recursive:
`DigitsDef` and `FlattenDef` show that they exist and satisfy their equation, by induction
with the property as a set (`NatSetInduction`).

The ranges, `RangesAreRight`, also for any versions: what `=V*` and `~V` are turned into
misses only matches under the `_alpha` of a glob's lower bound and, for a glob that says it
is exact, holds nothing else but what is under the suffix of the upper one. Order is
brought down to a rule for each place two versions can part in (`NumRule` to `RevRule`).
A bound is the pattern changed from some place on, and a version that parts from both
before that place is on the same side of both (`Far`); what reaches the place is either a
match, hence below the bound (`GlobAbove`), or would have to be strictly between the old
part and its successor (`GlobGap`), and nothing is: suffix numbers, kinds and letters by
their values, a component by its value where it is compared as a number (`NothingBetween`).
For a zero-led component the successor is only shown to be above
(`BumpLower`: the digits of a number and of the next, `DigitsUp`, as wide as written), and
`1.0*` is why `glob_bounds_exact` calls such a bound inexact; a carry that ends in one is
`HiddenOverflow`, which the theorem, like the invariant, excepts.

Only model-checked: liveness under fairness (`Terminates`, `EventuallyNothingPending`,
`JobsEnd`), out of the prover's reach.

## Plan

1. Done: the two loops, the session, qmerge, preserved libraries, the USE co-solve,
   version ranges, the build order, the blocker verdicts; proofs about all of them.
2. Next: a second `em` on the resume file; the counter file and the staging directories of the VDB.
3. The live-status directory; distfile fetching; the rounds around the co-solve;
   that preserving keeps what qmerge promises (one refinement of both).
4. `REQUIRED_USE` and `find_conflicts` as pure operators; Tarjan's algorithm step by step.

## Not modelled

Parsers and output, the ebuild shell (its state is that of a bash
interpreter outside this repository), read-only queries, sequential file rewrites
(`select`, `setup`, `maint`), and process control (`privilege`).
