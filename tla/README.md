# Firewall Builder: TLA+ specifications and proofs

Firewall Builder is a Qt program for editing firewall policies as objects in a
tree, compiling them for a platform and installing the result over ssh. This
directory holds TLA+ models of the parts in which the order of events, or the
order of transformations, decides correctness, the TLC configurations that check
them, and TLAPS proofs. Paths are relative to the repository; `libgui` is
`src/src/libgui`, `libfwbuilder` is `src/src/libfwbuilder/src/fwbuilder`,
`fwcompiler` is `src/src/libfwbuilder/src/fwcompiler`.

| Module | Models | Checked by | Proved |
|---|---|---|---|
| `BackgroundOp` | an SNMP query thread, the dialog that owns it, the flag, lock and logger they share | `BackgroundOp.cfg` | `BackgroundOpProofs` |
| `BorrowedObject` | what that handshake promises (abstract) | as `ImplementsLifetime` | `Refinement` |
| `CrawlerWizard` | the progress page of the network discovery wizard, its crawler threads, the GUI's event queue | `CrawlerWizard.cfg` | `CrawlerWizardProofs` |
| `DataFile` | one data file under RCS, the windows of several users on it, its File menu | `DataFile*.cfg` | `DataFileProofs` |
| `InstDialog` | the compile and install wizard, its process, installer, sessions, timers and nested event loops | `InstDialog*.cfg` | `InstDialogProofs` |
| `SshSession` | one ssh session with a firewall: six dialogues, the client, the timers, Stop | `SshSession.cfg` | `SshSessionProofs` |
| `SessionOutcome` | what a session promises the installer (abstract) | as `KeepsPromise` | `SessionStepsAsPromised` |
| `ObjectDeletion` | the undo stack's commands on objects, references, counters, clipboard | `ObjectDeletion*.cfg` | `ObjectDeletionProofs` |
| `EditHistory` | what an undo stack promises (abstract) | as `UndoRestores` | `UndoStackRestores` |
| `IptPolicy` | the rule processors of the iptables policy compiler and the queues between them | `IptPolicy*.cfg` | `IptPolicyProofs` |
| `IptPolicyMeaning` | the meaning of a policy and of the chains made of it | in the same runs | |
| `RuleShadowing` | the pass that looks for shadowed rules, with its cache | `RuleShadowing.cfg` | `RuleShadowingProofs` |
| `RuleCoverage` | what an atom of that pass matches, as packets | in the same runs | `ReportsSound` |

`MC*.tla` give the instances. Each component has mutants (definitions marked
*mutant*): plausible bugs, each of which breaks the property it is kept for.

## 1. Inventory

**Object database** (`libfwbuilder/FWObject*.cpp`, `Group.cpp`, `RuleElement.cpp`).
State: a tree of objects with parents, an index from ids to pointers, reference
children in groups and rule elements, a reference counter in every object.
Operations: add, remove, addRef, removeRef, duplicate, duplicateForUndo,
reIndex. Everything else calls it. Hard: the counter is kept by hand; an object
may be in the tree, in the Deleted Objects library, or only in an undo command.
Correct if counters cover uses and rule elements never mix Any with members.

**Undo commands and object manipulator** (`libgui/FWCmd*.cpp`,
`ObjectManipulator*.cpp`, `UsageResolver.cpp`, `GroupObjectDialog.cpp`,
`RuleSetView.cpp`, `FWObjectClipboard.cpp`). State: a QUndoStack per project, a
clipboard shared by all. Operations: new, duplicate, delete, delete from Deleted
Objects, undelete, edit, copy, paste, undo, redo. Hard: long legal sequences of
these, and ownership that moves from the tree to a command and back. Correct if
undo restores the document and nothing in use is freed.

**Compile and install wizard** (`libgui/instDialog*.cpp`, `FirewallInstaller*.cpp`).
State: which page and phase, lists of firewalls still to do, the firewall in
work (`cnf.fwobj`), one QProcess, one installer with its jobs, buttons.
Operations: the slots of buttons, boxes, timers and of the ends of processes and
sessions. It starts compilers and scripts, and an `SSHSession` per job. Hard:
clicks inside `processEvents()`, late answers, and flags reused by two phases.
Correct if one job runs at a time, its result goes to the right firewall, what
failed or was stopped is not installed, and a batch ends.

**Sessions with the firewall** (`libgui/SSHSession.cpp`, `SSHUnx.cpp`, `SSHCisco.cpp`,
`SSHPIX.cpp`, `SSHIOS.cpp`, `SSHNXOS.cpp`, `SSHProcurve.cpp`, `SSHJUNOS.cpp`). State: the
client process, a buffer of its output, the state of the dialogue, what is still
to be sent, a heart beat timer, whether the session was completed. Operations:
start, read, the state machine, the modal question about a host key, the backup
of a PIX, the end of the process, terminate. The installer starts it and hears
one of two signals. Hard: end of process, error message, Stop and nested loops
in any order. Correct if commands go out in order and once, a success is one,
and one status is reported.

**Background operations** (`libfwbuilder/BackgroundOp.cpp`, `Logger.cpp`,
`ThreadTools.cpp`, `libgui/newFirewallDialog.cpp`, `newHostDialog.cpp`). State: an
operation object, flags `running`, `stop_program`, `iamdead`, a logger queue; a
detached thread. Operations: start, poll from a timer, close the dialog, the
thread's loop. Hard: the dialog may go away at any moment. Correct if
neither side uses what the other has freed, and both end.

**Network discovery wizard** (`libgui/snmpNetworkDiscoveryWizard`, `libfwbuilder/snmp.cpp`).
State: the page's pointer to a QThread, the list of networks lent to it, the
results, the thread's stop flag. Operations: show, Back, Next, Stop, close, the
signals `finished()` and `destroyed()`, the loop of the crawl. Hard: the thread
deletes itself, reports through a queue, and is not waited for. Correct if the
pointer is never stale, no thread crawls on unwatched, and results are of one
crawl.

**Data file and revision control** (`libgui/RCS.cpp`, `RCSFilePreview.cpp`,
`ProjectPanel_file_ops.cpp`, `FWWindow.cpp`). State: the RCS archive with its locks and the
working file, shared by all copies of the program on a disk; in each window an RCS
object with what it knows of them (from `rlog` and from its own commands), and the
objects with a dirty flag. Operations: open with a preview of the revisions, save,
close, quit, commit, discard, add to RCS, save as. Hard: users share nothing but the
archive, each operation is several rcs programs and dialogues with other users in
between, commands fail, programs are killed. Correct if flags and locks agree,
check-ins record what was saved, and nobody's saved work is overwritten by another.

**Rule compilers** (`fwcompiler`, `src/src/iptlib`, `pflib`, `cisco_lib`, `juniper_lib`,
`compiler_lib`): chains of rule processors that pull rules from each other, each
with a queue; a process of its own, sequential. Hard: a processor is right only for
what the ones before it make, and changes what the ones behind it see. Correct if
the firewall does what the policy says, and a compilation stops for a reason.

**Import** (`src/src/import`, `parsers`): a thread that runs generated parsers.
**DNS** (`libfwbuilder/dns.cpp`): resolver calls behind a mutex that is made lazily without
synchronisation: two threads that resolve at once may each lock one of their own.
The rest (editors, fwbedit, command line
programs, resources, vendored ANTLR) is listed in `PROJECT.json` with the
reason it is not modelled. `PROJECT.json` also lists every hazard at its line,
with the properties that cover it or the reason none does.

Interactions: the wizard starts compilers as processes (an exit status comes
back) and sessions as objects (a signal comes back); `InstDialog` takes from a
session what `SessionOutcome` promises, and `SshSession` implements that. The undo
commands call the database, which is modelled with them. The two kinds of SNMP
threads share only `libfwbuilder/snmp.cpp`. The windows of `DataFile` are programs of
their own and meet on the disk.

## 2. Plan

Done: all the modules above. Left, in the order of their worth:

1. The NAT compiler for iptables and the policy compiler for pf: other processors on
   the queues of `IptPolicy`, with a meaning of their own.
2. Commands on rules (`FWCmdRule.cpp`), objects with children and macros, added to
   `ObjectDeletion`.
3. The importer's thread and its wizard; it is like `CrawlerWizard` with an import
   for a crawl.
4. Proofs: `OneJobAtATime` of `InstDialog` with clicks in event loops, which is only
   model-checked (invariant: a stack of loops with one job in all).

Runs: one or two passing runs per component, and violation runs for the three
disagreements of code and text that cost the user most; section 3 lists the others with
the constants that show them.

## 3. The models and the code

### BackgroundOp

One variable per field of `BackgroundOp` and of the dialog, an array over
operations `Ops`; `pc` is where a thread is in `background_thread`, `gui` where the
GUI thread is. Actions follow the calls: `StartPoll` is `getInterfacesViaSNMP` with
`start_operation`; `MonitorReady`, `MonitorRunning`, `MonitorResults` are the looks
`monitor()` takes at state of the other thread; `DtorStop`, `DtorFlag`, `DtorFree` are
the three parts of `~BackgroundOp` between which the thread can run; each
critical section of the thread that touches the object is a pair of actions, so
that the destructor can be tried in between. `RunLogs`, `RunCheckStop`,
`RunThrows` and `RunReturns` are what an SNMP query does that others can see.
`connected` and `error` have no reader in the build and are left out, their
critical sections are kept. Whether another pointer is uninitialised
(`logger` in the dialog's constructor) is a choice.

*Run* `background_op`: two operations, so the thread of one outlives its dialog
while the next is polled; `MaxLines = 1` line per query besides the thread's own,
enough for a non-empty and an empty queue at every point. Shown: flag and logger
are allocated when used, results are read after `run_impl`, a poll and an orphaned
thread end, and the handshake implements `BorrowedObject`: the epilogue of the
thread touches a live object only.
*Not kept*: `BackgroundOp.h:83` forbids `run_impl` to use the object; `fetchSysInfo` and
`fetchInterfaces` do, and `RunImplTouchesLiveObject` as an invariant fails.

*Fairness*: weak for the dialog's zero-timeout timer and for the thread (SNMP has
bounded retries and timeouts); strong for the destructor's lock, for which it
competes with a thread that sleeps a second outside the lock in each round.

### CrawlerWizard

`where` is the page that is shown, `wizard` how often the wizard was opened (it is
an object on the stack of `toolsSNMPDiscovery`). The page's handlers are actions;
`initializePage` with a crawl still running is two, because `crawler->wait()` stands
still until the thread has ended. A thread is `SNMPCrawlerThread::run` step by step;
`CheckStop` and `Probe` are the loop of `SNMPCrawler::run_impl`, one host each. `posted` is
the event queue: the queued `finished()` and the deferred deletion, in order.

What the code may do wrong is in the model as a choice or as history: the list
`include_networks` belongs to the page and the thread reads it without a lock, so a
`clear()` or the end of the wizard at that moment may crash (`torn`); the deletion
that `run()` asks for may be carried out before `run()` has returned, and `~QThread`
then ends the program (`Destroyed`), although the comment at `ND_ProgressPage.cpp:99` says
the object "is only deleted after snmp crawler has finished and thread terminated";
`disconnect(this, SLOT(crawlerFinished()))` in `cleanupPage` names the page as sender, so the
end of a crawl that Back stopped is still delivered, and after a quick Next it
reads the maps of the crawl begun meanwhile (`stale`; `ResultsOfOneCrawl`
excludes that one sequence). `crawlerFinished` may also run before the thread has
returned; then `isComplete()` is false and Next stays grey, since nothing emits
`completeChanged` again: it takes Back and Next to go on.

*Run* `crawler_wizard`: three threads, two wizards, two hosts per crawl: a crawl, one
begun while it goes on, one after closing and opening again. Shown: the page's
pointer never outlives the object that deletes itself; a thread that was not told
to stop is the one of the page that is shown; results are those of the last crawl,
once; every thread object is deleted in the end.
*Fairness*: weak for threads and the event loop (queries have timeouts and bounded
retries), none for the user. *Left out*: what is found, log lines, the global
`snmp_tmp_db` that two crawls share, a thread that cannot be started.

### DataFile

`revisions`, `head`, `locks` and `file` are the disk: the archive, what is locked by whom and
the working file with its owner and mode. Everything else is an array over `Copies`: a
copy is one window on the file in a program of its own, run by `User[c]`. `rcs` is its
RCS object, with the fields of the class (`revisions` is how many `rlog` showed), `db` its
objects: the data, the dirty flag, read-only, and as history `onDisk`, what the window
last read from the file or saved to it. `pc` is where the copy is: in the preview, open, in the dialogue
for the log record, before `ci`, before the `co` that follows it. `goal` is the
menu item that runs `checkin` or `co`. An action reaches from one dialogue or rcs command
that others can come between to the next.

The programs `co` and `ci` are external and modelled by their locking rules, as their manual
pages give them and as `RCS.cpp` relies on them: `co -l` refuses a revision another
user has locked and, without `-f`, a working file that is writable (`CanLock`); `co -u` without
a revision takes the one its caller has locked, else the head (`UnlockTarget`), and releases the lock;
`ci` wants one lock of its caller, makes a revision only if the file differs, and puts it on
a branch if the locked one is not the head (`CiUnlock`). `ci` may fail at any time. A save
needs a writable file of the same user: a working file is written with the owner of the
command that made it.

Where the code goes on after a failure the model does: `RCS::ci` returns true when the
program failed, so that `co` meets its own lock (`CoStillLocked`, `CoReadOnly`);
`saveIfModified` returns true when the save failed; an exception of `co` in `fileCommit` or of
`abandon` reaches `FWBApplication::notify`, which exits (`gone`); `fileDiscard` leaves a window
without an RCS object when the preview is cancelled (`hollow`). Modelled without a property,
because no text says what should happen: "open read-only" keeps the revision chosen in the preview, so
the window shows the working file under another number; the main window's button goes on after a
Cancel for the log record, Quit in the menu stops. Not modelled: `add` runs `rcs -i` and then
`ci`, and leaves an empty archive if only the second fails (here it succeeds or changes
nothing); the database's flag *busy*, left set by a save that throws.

*Run* `data_file`: two users (symmetric), three edits and three revisions: one works and
one comes in between; a lost edit differs from a saved one, an old revision can be locked, and a
commit can follow a commit or open a branch. Three users with two edits and two revisions give
the same answers (615,342 states). Shown: a window
that takes the file for checked out has the lock on its revision; a check-in
of the user's own working file records what the window saved or read
last; saved work under the lock of the head is replaced by a step of its user only, also
after a crash. With a lock on an old revision only, `co -f -u` of another user's Save As
takes the head and does replace the work: that is why `SavedWorkIsKept` speaks of the head.
*Violation* `data_file_commit`: Commit checks out the revision that was opened at first, not the
one it made.

*Not kept*, each seen as a violation with the constants named:
* `OneUserWrites` (three copies, `SharedUser`, one edit, one revision): `ChangeLog:16669` says that
  a file another user has opened and locked can only be opened read-only. Save As in a user's second, read-only copy runs `abandon`, whose `co -f -u` releases his lock; another
  user locks the file, and both write. An old rlog snapshot in the second copy does the same.
* `SaveAsRevertsToHead` (two users, two edits, two revisions): `ChangeLog:13095` and the comment at
  `RCS.cpp:515` say head; `co -u` takes the revision its caller has locked, which may be an old one.
* `OldRevisionEndsNothing` (the same): `ChangeLog:16675` says Save As is disabled for an old
  revision opened read-only. It is enabled, `abandon` runs `co` on the temporary file and
  throws, and nobody catches it before `FWBApplication::notify`, which exits.

No fairness: a user need not do anything, and no progress is promised. Deadlock is
checked. *Left out*: files that are not in the tree yet (`fileNew`), import and export,
what upgrading an old file does on load, several windows of one program (the
same file is not opened twice by one: `alreadyOpened`), Cancel in the question whether to
save (nothing happens), what one user's `umask` or root would allow him on a file of another.

### InstDialog

All in the GUI thread, so an action is a handler up to its end or to a nested
event loop. `loops` is the stack of nested loops; a frame says where the handler
continues: `CompilePage`, `InstallPage`, `RunCompiler`, `RunInstaller`, `RunScript`,
`RunSession`, `ScriptEnded` are those continuations. `CompileTimer`, `InstallTimer`,
`KillTimer` are the single shot timers; `ProcessEnds` and `SessionEnds` the external
ends; the rest are clicks. `MainLoopCompile`, `MainLoopInstall`, `RunJobs`, `Plan`
have the name of the function they model. `outcome` and `halted` are history.

`Moves` says what the user does besides the usual, and so under which
assumption a property holds: *back while busy*, *show while busy*, *click in loop*
(a click delivered by a `processEvents()` in a handler), *early stop*, *hide* (close or
Escape), *select all*.

*Run* `inst_dialog`: one firewall alone, one in a cluster, one installed by ssh, one by a
script; user waits before Back and reopening, but stops, cancels and hides at any time.
Shown: results go to the firewall they belong to, "complete" means every
checked unit has a result, failed or stopped units are not installed, a
finished, halted or cancelled batch starts nothing, every batch ends.
*Run* `inst_dialog_loops`: clicks inside loops three deep, a unit without
compiler, one whose compiler does not start: there is one job at a time.

*Not kept*, each seen as a violation with the `Moves` named:
* `ResultGoesToItsUnit` (*back while busy*): `showPage` enables Back while a compiler runs. Back, then
  Next with another choice, overwrites `cnf.fwobj`, and the result of the compiler that is still
  running is booked for the other firewall.
* `NextNeedsSuccess` (none): `== FWCOMPILER_SUCCESS || FWCOMPILER_WARNING` is always true,
  so Next is enabled although every unit failed.
* `FinishedRunsNoJob` (*click in loop*): Cancel inside the event loop of a job deletes the
  installer, and the job goes on and starts its session.
* `FailedNotInstalled` (`NotStartable` not empty): a compiler that cannot be started does not
  keep its firewall from being installed; (*early stop*): Stop pressed before the
  first installer still runs `stopCompile`.
* `CompleteMeansCompiled` (*show while busy*, *hide*): Escape during a compile and reopening
  makes the late `compilerFinished` set `compile_complete` on the first page.
* `BatchEnds` (`NoCompiler` not empty): `runCompiler` returns for a unit without a
  compiler and nothing calls the main loop again.
* The kill one second after Stop hits whatever process runs by then
  (`KillTimer`); a Stop racing a copy that has just succeeded starts the
  activation (third disjunct of `TerminateInstaller`); Inspect, Back, Next (*select all*)
  leads a wizard that only compiles into the install phase.

*Fairness*: weak for returns of loops, timers, ends of processes and sessions and
the answer in a modal dialog; none for clicks. A compiler or ssh client that hangs
for ever is therefore outside `BatchEnds`.

*Left out*: output to the log (the event loop in `interpretLogLine` takes no input),
the order of lists (sets), success against warning, time stamps (which boxes are set
at first is arbitrary), `autoCompile`, installers of other platforms (same queue), a
session whose client does not start (a hazard).

### SshSession

A session is one record and a C++ method an operator from sessions to sessions,
so that an action is the whole of a slot: `ReadFromStdout` (from the process or from the
heart beat) with the state machine of the class of the session, `Finished`,
`AnswerNewKey`, `Stop`. Methods that enter an event loop of their own leave a frame on `loops`;
`CmdReturns` (behind `SSHCisco::cmd`) and `TerminateReturns` go on behind it. Output is a token
for each text a dialogue looks for, and the device may print any at any time, so that
doubled, missing and early prompts are covered. Three rules of Qt are in the model: a
slot is not called again before it has returned, a zero timer fires before more
output is read, and `finished()` comes after the client has ended.

*Run* `ssh_session`: all six dialogues; one command before, a comment and a command to
push, one after: the shortest lists on which a repetition, an omission and a change of
order differ, and a comment is skipped. Shown: what reaches the device is a prefix of the
commands in their order; success means that all went out; a write through a NULL
process takes a handler that was suspended when its client went away; a session
implements `SessionOutcome` (one status, the first; success only after the end; a
status for every client that ends).
*Not kept*: `NothingPushedAfterError`: `FirewallInstaller::runSSHSession` says of errors that it
"always terminates" the installer, but `terminate()` in `checkForErrors` is commented out
(`SSHCisco.cpp:185`): the dialogue goes on pushing after the wizard was told of the error.

The model also has: the write through NULL when the client ends while the user is asked
about the host key; `PIXbackup` waiting for ever when ssh ends in a backup command
(it expects a state FINISH that nothing sets); 255 taken as success for a Procurve (excluded
in `SuccessMeansPushed`); a rejected command outside the lists of errors goes
unnoticed; a client that cannot be started signals nothing (`StartSession`).

*Fairness*: `Finished` only, as a part of `SessionOutcome`: Qt reports the end of a
process. *Left out*: input over stdin (every caller passes an empty list), the dialogue
for a scheduled reload (never configured), the states of `SSHPIX` nobody enters, the
deletion of a session inside its own signal, the keepalive on Windows.

### ObjectDeletion

`db` is the database: `place` of each object (libraries, Deleted Objects, nowhere),
`refs` of each group and rule element, `rc` the counters, `freed` what was deleted.
A command is a record, `Redone` and `Undone` are the virtual redo and undo,
`Destroy` the destructors of the commands a push discards, `NewDelete` and `NewChange` what
constructors count. A destructor counts its object one less, or frees it at one; so `Destroy`
says of an object with n discarded commands (`Keepers`) that it is freed if its counter is n
at most, and counts n less otherwise. `Push`, `Undo`, `Redo` are QUndoStack's (external:
push redoes first, then destroys what was undone). Actions are the user's operations. `dummies` is the
preference that shows Dummy in place of Any. `uncounted` counts the references a
duplicated group took without counting them (`FWObject::addCopyOf`).

A step that would use freed memory or dereference NULL has no successor: `Usable`
and `CastsAddress` name these conditions. So the runs do not check for deadlock
(a user may also stop at any time).

*Run* `object_deletion`: a host, a group, a second group to be made or copied, a rule
that holds any of them, with and without Dummy. `MaxStack = 3` commands done at a
time is the shortest stack on which a delete, a delete for ever and a command
before them can be undone and discarded; `MaxCount = 6` allows the counter two
edits above its largest initial value. Shown: the stack implements `EditHistory`
(exact restoration of places and references), Any and Dummy are
alone in an element and elements are never empty, deletion leaves no reference in a
group or rule in use, counters cover uses up to uncounted copies, and what is
freed is unused unless a duplicated group had it.
*Violation* `object_deletion_freed`: the uncounted reference of a duplicated group ends in an
object freed while it is in the tree and a move command still refers to it.
*Not kept*: `PasteSkipsDeleted` (#1976): paste onto a group in the tree takes a deleted object.

`DeletionStrips` names the ways a group in use can come to refer to a
deleted object: undeleting a group whose member was deleted meanwhile (the
search for holders skips Deleted Objects) is one of them.

*Left out*: groups of groups, objects with children, macros (cut is copy and delete),
several files, commands on rules, the index of ids, the preference changed while the
program runs (a hazard).

### IptPolicy and IptPolicyMeaning

A processor is a number, `queue[n]` its queue, and `Pull(n, ...)` its `processNext`: it takes one rule
from the queue before it and puts the rules it makes in its own. As in
`BasicRuleProcessor::getNextRule`, the processor that works is the last one whose queues
from its own on are empty. `countChainUsage` reads all the rules before the last one prints. An
object stands for a set of addresses; a chain or target is a tuple. The processors that
concern interfaces, negation (of source, destination, services, interfaces), logging, the
firewall as part of any, the choice of the chain and the optimizations are modelled in
their order; those for services other than TCP, time, tags, the mangle table,
bridges, clusters, branches and groups are left out, as is the action Reject.

The meaning: `Walk` is the kernel on the printed commands, `Verdict` the first rule of the
policy that matches. "Any", a network and a negation mean the firewall's own
addresses if the policy assumes the firewall to be part of any (`afpa`, taken per policy
although it is an option of the rule), or if they are excluded by name.
Packets from the firewall to itself are left out (rules for the loopback
interface are not modelled), and so are the states of connections.

*Run* `ipt_policy`: all the pairs of sources and destinations of up to two objects, negated
or not, with a firewall of two addresses and two interfaces; interfaces and directions
with and without forwarding; services; two rules with logging. Shown: every packet
is decided, and logged, as the policy says; no command tests an interface its chain
does not have. Two sets of policies are not in the run: a rule that negates all the
interfaces of the firewall (the element becomes empty, that is Any, where nothing was
meant, `fwcompiler/Compiler.cpp:1087`), and
*Violation* `ipt_policy_lost_chain`: rules that log and negate several objects with
forwarding off. The jump from FORWARD is dropped, the count of its chain is zeroed with it
although OUTPUT jumps to it as well, and packets go to a chain without commands.
With an outbound rule for the firewall as destination a jump is dropped as well
(`SpecialCaseWithFWInDstAndOutbound`); the empty chain is then harmless.

No fairness: a compilation is a sequence of steps, and the properties are of its end.

### RuleShadowing and RuleCoverage

`ReadRule`, `PassHidden`, `Take`, `Differs`, `FoundInSameRule`, `FoundShadowing`, `NotFound` and `Finish` are
the steps of the processors that split rules into atoms and of `DetectShadowing`; the position of the
search is a variable, so that each comparison is a step with the cache it leaves. Atoms
of one rule are taken in any order (the order of the processors' Cartesian product
matters to nobody). The key of the cache, `id1 + (id2 << 16)`, is kept as two 16-bit
halves. Of the options of an IP service, `opts` has those that are on and `unset` those the file
does not give: as strings, "False" and nothing differ. `RuleCoverage` says what an atom matches, for
IP options as `_printIP` writes them (with "any option" the others are not written);
`Overlooked` names what the comparison does not look at: Interval, a direction against both,
the firewall outside of any, TOS, rate limits of 0 or negated, and the options `any_opt` and `rtralt`,
which are matched but never compared. Of the three limit modules one is modelled.

*Run* `rule_shadowing`: every pair of ten addresses and of twenty-one services, asked in both
orders about rules nothing else shades and once more so that the answer comes from the cache, and
all triples of sixteen rules (the third may also be the rule for everything) with what else a
rule may have; ports 0 to 9. Identifiers are counted up by the program and nothing keeps them below
65536: the run has besides all sequences of four rules over six addresses, and of three over mixed
objects, among which two pairs of addresses, an address pair and a service pair, and pairs with
second objects 65536 apart share a key. `Collide` says when keys are equal in 32 bits, without
`Key`; `Alone` has the pairs that collide with no other. Shown: the cache's answer about a pair
that is `Alone` is right; when the pass ends an error was reported for each atom shadowed by a rule
above, and what is reported is covered where nothing is overlooked, unless what is asked about the
two atoms is not `Alone` (`Unmixed`): wrong answers about others do an atom no harm.
*Not kept*: without these conditions each of the three properties fails in this run: past 65535
a shadowed rule may pass, and a policy that works may be refused.
*Not kept* (`Policies <- MCOptionsRule`): `OnlyClearedFlagsShade`. The comment at
`fwcompiler/Compiler_ops.cpp:460` has all flags of an IP service cleared before it shades a service of
another type; one with `any_opt` shades a TCP service, and a policy that works is refused.
*Not kept* (`Policies <- MCFirewallRule`): `AnyDoesNotShadowFirewall`, which the comment at `PolicyCompiler_ipt.h:282` promises. With the firewall outside of any, a Deny for any above a rule
for the firewall is reported: the atoms with action Return put in front shade it.

`rule_elements_cache` and the test `*r == *rule` (never true: a rule is not compared
with itself) are left out. `IdAssumption` only says that objects have different identifiers.

## 4. What is proved

`BackgroundOpProofs`, for every finite or infinite set `Ops` and every `MaxLines`, from
`NoOpAssumption` and `MaxLinesAssumption` (and `TypeCorrect`):

* `Handshake`: `HandshakeInv` is inductive. None of the properties below is:
  that the object is alive in the epilogue needs that the thread holds the lock
  there and `isdead` is false, and that `isdead` is set, under the lock, before
  the memory goes. `ObjectInv` ties the object's life to the dialog's pointer and to
  `isdead`; `ThreadInv` ties the lock to the program counter and forbids holding
  it after death; `MemoryInv` keeps flag and logger until the thread ends; `GuiInv` says
  which pointers are valid at which point of the GUI. The lemmas take the GUI's
  steps, the start of a poll and the thread's steps apart.
* `EpilogueSafe`, `FlagAndLoggerSafe`, `ResultsSafe`: the three safety invariants.
* `Refinement`: `Spec` implements `BorrowedObject` under `LifeOf` and `Borrowed`: taking the lock
  borrows, releasing it returns, setting `isdead` destroys; all else stutters.

`CrawlerWizardProofs`, for every set of threads and any bounds, from `NoCrawlerAssumption`,
`LimitsAssumption` and `BoundAssumption`. `Inv` adds to the properties:

* `PostedInv`: an event was posted by a thread on its way out, the end before the
  deletion and each once. That makes `PointerLive` and `CrawlWatched` inductive: a deletion that is
  delivered is that of a thread that no longer crawls.
* `ResultInv`: unless a Next overtook a report, only the thread the page points to has
  still to report, and there are no results until it does. With it `ResultsSound`: what
  is delivered is the report of that thread, which has ended its crawl.
* `TypeCorrect` needs that a thread with a host to probe has one in its queue.

One lemma each for the page's handlers, the two ways to begin a crawl, the two
events and the steps of a thread.

`DataFileProofs`, for any set of copies and any bounds, from `UserAssumption`,
`BoundAssumption` and `OneCopyPerUser` (each user runs one copy; with two the archive can not tell
them apart, and `CheckedOutIsLocked` fails). `Inv` adds to the types:

* `DiskInv`: a file that `co` would replace without `-f` holds a revision of the archive, and a
  writable one belongs to a user with a lock.
* `Belief`, for each window: its flags and the revision it knows as locked agree with the
  locks (`LockBelief`), `locked_by` and `selectedRev` are in step when `co` asks about a lock
  again (`FlagBelief`), and the user's writable file holds what the window last saved, or the
  revision it has checked out (`FileBelief`). The last is the reason for `CommitsRecordSaves`: if
  `ci` makes a revision the file differs from the one checked out.
* `DiskStep` says what one user's command leaves of the archive and of the others' locks and
  files; `Combine` concludes that the beliefs of the other windows stand, so that
  each action is proved for its own window alone.

`RuleShadowingProofs`, for every rule set, every set of objects and every set of packets:

* `TypeCorrect`; `CacheCorrect`, for any identifiers: pairs with the same key collide
  (`SameKeyCollides`, from arithmetic on the halves of a key), so one that is `Alone` has its key for itself
  (`AloneHasKey`), be it against pairs of the other kind of objects, and what is remembered under
  it is its own answer. The theorems below hold of the atoms that are `Unmixed`.
* `SearchCorrect`: `SearchInv` is inductive. Atoms are in the order of their rules
  (`OrderInv`), each atom of a rule read so far is in one place (`CollectedInv`), the search has
  refused every atom before its position (`SearchedInv`), and none was put away
  unreported (`PutAwayInv`, `ReportInv`). It is needed because a search stops at the first
  more general atom, which may be one of the same rule: order says that none
  of a rule above comes after it.
* `NothingMissed` follows when nothing is pending; `ReportsSound` from lemmas that say of
  addresses, ports, options, services and limits that the comparison implies inclusion.

`InstDialogProofs`, for any firewalls, clusters and depth of event loops, from
`ObjectAssumption`, `UnitAssumption`, `MovesAssumption` and `UserWaits`: the user turns no page and
opens nothing anew while something is going on, and clicks in no event loop of a handler (the moves
with which section 3 shows the properties to fail), but stops, cancels and hides at any
time. `Inv` is inductive; besides the types it has

* `OneThing`: one handler in an event loop, or one timer of the main loops, or the process, or one
  session, and nothing else. Each handler takes one away and leaves at most one.
* `PhaseInv`: that one thing belongs to the phase the page shows, which is not over; so Next,
  Inspect and Back to the files come when nothing is going on. `ObjectInv`: it is
  done for `cnf.fwobj`. `JobInv`: a copy in progress has its installer, with the activation left.

`TypeSafe`, `ResultSafe` and `OneJobSafe` follow at once. On top of `Inv`:

* `ResultsInv`, for `CompleteSafe`: a checked unit that has left the list has a result, but for
  the one at work. When the timer fires for an empty list, all have.
* `StopInv`, for `StopSafe`: a handler that is about to begin something finds a wizard that
  has not finished and not cancelled all, for the wizard asked on entry and no click came since; after Stop the
  list of the phase is empty and no copy is left that runs into an activation.
* `FailedInv`, for `FailedSafe`: a failed unit has no box, is not in the list and not in hand.
  It needs `FailuresKnown`: every compiler starts, no Stop before it is wired to the install
  phase. Without either the property fails (section 3).

`ObjectDeletionProofs`, for any finite sets of hosts, groups and rules and any bounds, from
`DeletionAssumption` (the kinds of objects are disjoint and finite: a tree in memory). `Inv` adds
to the types and to the four invariants of the run:

* `HistoryInv`: with `Docs(i)` for the document before the command at position i (from `past`, the
  present document, `future`), every command on the stack takes `Docs(i)` to `Docs(i + 1)` as
  its `Step` says. `UndoRestores` alone is not inductive: it says nothing of what
  the next Undo will find.
* `AwayInv`: a command undone acts on the database, not on the document, which shows nothing of a
  group out of the tree. So its members must be those it had when it left: a group comes from
  nowhere once and goes for good once, and nothing edits it while it is away. `UnbornInv`
  says the same of groups not made yet.
* `WentInv`: what is in one document and missing in a later one has a command in between that
  keeps it. `FreedIsUnused` needs it: the owner that frees an object finds by the counter
  (`CountsCoverUses`) that no other command keeps it, and by `WentInv` that none moves or changes it.
* `ShapeInv`, `FitInv`: rule elements, and what changes put into them, have the shape. Taking an
  object out of such an element and putting it back gives the element back, with or without
  Dummy (`TakenAndPutBack`); without the shape it does not.

Lemmas come in the order: fields of each operator's result; for each kind of command, redo and undo
against `Step` (`MoveRedone`, `MoveUndone`, ...); counters against uses, as a comparison of two
databases (`Even`, `Weight`); a command done or undone along the stack (`Along`); a push, which
drops the undone commands (`Pushed`); then each action is shown to make such a push.

* `StackInvariant`: `Inv`; `DeletionTyped`, `ElementsKeepShape`, `CountersCover`, `FreedNotUsed` are the
  four invariants.
* `UndoStackRestores`: `Spec` implements `EditHistory` under `Document(db)`. `DeletionLeavesNoStrays` is the
  action property `DeletionStrips`, one lemma for each kind of action.

`SshSessionProofs`, for every set of kinds and any lists of commands:

* `Same` and `Dialogue` say what a method leaves of a session: the ones that read and write
  change neither client, loops nor status; the state machine may besides report an error,
  start the zero timer and enter an event loop. `StateMachineDialogue` is that for all
  six dialogues, one lemma for each method it is made of.
* `SessionInvariant`: `SInv` is inductive. Its parts: a status is set with the first report
  and never after (`Reported`), `proc` stands for a client that runs or has ended (`Phase`), and
  a handler that is suspended has its client or is known to have lost it (`Lost`).
* `SessionTyped`, `CrashNeedsSuspension`, and `SessionStepsAsPromised`, the safety part of
  `KeepsPromise`: reports come with the first status, success from `Finished` alone.

* `CommandOrderInvariant`: `Order` is inductive together with `SInv`. `CommandsInOrder` alone is not:
  it says nothing of what will be sent next. `Order` ties what was pushed to what is left of the lists
  in each state: before configuration mode `pushed \o pre` is `Pre` (`Early`); in it the first n
  lines to activate are popped and `pushed` is `Pre \o Stripped[n]` (`Middle`); after it `pushed \o post`
  is everything, or for a Junos that met an error `Pre \o Post` (`Late`). `Backup`: the timer of
  `PIXbackup` is pending in ENABLE only, one backup command waits at a time, in states of its own;
  so the step back to ENABLE behind it comes before configuration mode. `Ending`: the client was told
  good-bye only when all is pushed or an error reported, and ends with 0 only when told.
* `Said` lists what reading may do to lists, state and farewell; `StateMachineSaid` shows it for the
  dialogues and `ReadOrder` that `Order` survives it. The other actions push nothing (`StillOrder`).
* `CommandsGoInOrder` and `SuccessIsComplete`, the two properties, follow (`OrderSays`).

`Stripped`, the lines without comments, is a recursive function; what the proof needs of it
(`StrippedSteps`, `StrippedSkips`, `StrippedGrows`) goes through the least element of a set of numbers
(`LeastNumber`, `Counting`) instead of the library's induction theorems.

`IptPolicyProofs`, for any objects, addresses, services and interfaces and any set of policies, from
`ObjAssumption` (the firewall has finitely many objects and interfaces) and `PoliciesAssumption` (a
rule is what the rule set editor makes: three directions, the actions modelled, an element is a set
of objects with a flag):

* `QueueInvariant`: `Inv` says what each queue holds (`Stage`): rules of the policy
  with elements of the right kinds, chains from a known set, and the direction. `InterfaceFitsChain` alone
  speaks of the commands printed; that none is wrong comes from
  twelve processors that set or test chain and direction, in this order. Before `finalizeChain` a rule for INPUT is
  Inbound and one for OUTPUT is Outbound (`Directed`): so the processors that set a direction anew, which
  take rules of both directions only, cannot touch them. `finalizeChain` itself gives
  INPUT and OUTPUT to rules of both directions as well, and from there on the weaker `Fits` holds:
  the direction does not contradict the chain. The chains of negation, logging and
  optimization are none of the two (`LogChains`, `TmpChains`), so what the split rules lose or get
  there does not matter.
* One lemma for each processor says what it puts out (`LogStage`, `FinalizeChainStage`, ...);
  `PutKeeps` and `PullKeeps` carry it over to the queues.
* `TypeCorrect` and `InterfacesFit` follow, the latter from `CommandsPrinted`.

A CASE with guards that overlap chooses any of its arms: the proof of
`FinalizeChainStage` cannot assume the first. `FinalChain` is therefore an IF, in the order of the tests of `finalizeChain`.

Only model-checked: liveness (fairness and ENABLED are beyond the prover), `InstDialog`
with clicks in event loops, and `PolicyKept`: it compares two walks through the rules, one of them by
the RECURSIVE operator `Walk` of `IptPolicyMeaning`, and would need induction over the
chains. No module with a theorem uses `Walk`.

## 5. Not modelled

The compilers for NAT and for other platforms have processors of their own; what
`IptPolicy` shows of queues and chains does not carry over to them. The importers
run generated parsers whose interest is the grammar. The rest of the program is
forms, file formats and tools that do one thing per run. `PROJECT.json` gives the
reason for each part.

## 6. Running

`tlc -config X.cfg MC<Component>.tla` for a run listed in `PROJECT.json`, and
`tlapm <Component>Proofs.tla`. With two workers every run ends within three minutes; the
longest are `object_deletion` and `crawler_wizard`.
