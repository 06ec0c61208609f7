# A TLA+ verification of Obsidian-Hosted-Mcp

The service keeps Obsidian vaults on disk with Obsidian's own headless sync
client (`ob`) and offers them to language models over MCP: tools that read,
write, move and delete notes, a task list kept in one note per vault, and
full-text search. This directory models the parts of it whose correctness
depends on order (overlapping requests on the vault's files, the task list's
read-change-write on top of them, the life of the process and of its sync
children) and the algorithms whose correctness depends on boundaries (paths,
sections, pages, search results, lines).

1. [Inventory](#1-inventory)
2. [The modules and the code](#2-the-modules-and-the-code)
3. [What the runs check](#3-what-the-runs-check)
4. [Fairness](#4-fairness)
5. [What is proved](#5-what-is-proved)
6. [What the code does that its text denies](#6-what-the-code-does-that-its-text-denies)
7. [What is not modelled](#7-what-is-not-modelled)
8. [Plan](#8-plan)

## 1. Inventory

| component | state it keeps | operations | must be true |
|---|---|---|---|
| `internal/vault/vault.go`: note operations | none in memory; the vault's directory | List, Read, Create, Append, Edit, Move, Delete, Restore, and `resolve` for all | a call that changes a note looks atomic; no note is lost unless a client removes it; every call returns |
| `internal/vault/sections.go`: markdown sections | none | GetSection, ReplaceSection over `markdownSections`, `selectSection` | a path selects the one section it names; text outside the section is kept |
| `internal/tasks/store.go`: task tools | none in memory; the reminders note | List, Get, Create, Update, Complete, Reopen, Delete, each `load` ... `save` | an ID addresses one task and stays valid; a tool changes its own task only |
| `internal/tasks/tasks.go`: the reminders note | a parsed copy per call | `parse`, `render`, `replaceBlock`, `removeBlock`, `insertInSection`, ID and template lookups | nesting after a splice is nesting before it, but for the task spliced |
| `internal/bootstrap/bootstrap.go`: sync supervisor | per vault: backoff, ticker, child, context | `superviseVault`, `runContinuousSync` | one child per vault; a dead or silent child is replaced; shutdown leaves none |
| `internal/bootstrap/health.go`: sync health | `syncStates` under a mutex | `syncStarted`, `syncHeartbeat`, `syncStopped`, `syncStale`, `SyncReady` | ready means that the current child of every vault beat recently |
| `bootstrap.go`: login and set-up | none | `ob login`, `sync-setup`, once, in order | a failure ends the process; nothing is synced or served before all vaults are connected |
| `cmd/obsidian-mcp/main.go`: lifecycle | context, HTTP server | start, serve, five-second shutdown | after a signal the process ends, whatever hangs |
| `internal/server/server.go`: MCP server | the vault table, immutable | one handler per tool, `/healthz`, `/readyz` | a handler looks a vault up and makes one call |
| `server.go`, `internal/oidcauth`: bearer tokens | the provider's keys, in a library | `verifyToken`, `Verify` | a request without a valid token reaches no tool |
| `internal/search`: search | none | run ripgrep, fold its JSON events | what is returned is what ripgrep matched |
| `internal/config`: configuration | none | parse the environment once | |

**How they interact.** `main` sets the vaults up, starts one supervisor
goroutine per vault and serves MCP. Every MCP request is a goroutine that calls
one method of a vault or of the task store; these share *nothing in memory and
hold no lock*: their shared state is the directory, which the `ob sync` child
of that vault also writes, from another process and from other devices. The
supervisors write `syncStates`, which `/readyz` reads. A cancelled context
stops the supervisors and the server.

**What is hard.** (a) Every write tool is two or more system calls (open and
write; stat and rename; read, truncate and write) and calls overlap with one
another, with sync and with a crash. (b) The task tools rewrite a whole note
from a parsed copy, up to twice per call, and hand out IDs in between. (c) A
supervisor's `select` chooses among a dead child, a tick and a shutdown; the
child's output arrives on another goroutine; time decides. (d) Pure algorithms
with boundaries: nesting by indentation, the heading stack, paging, the search
fold. `PROJECT.json` lists the hazards at their lines, with the property that
would catch each one, or why none does yet.

## 2. The modules and the code

```
NoteStore  <--refines--  VaultFiles  <-- MCVaultFiles (VaultFiles.cfg, VaultLongName.cfg,
                             ^                         VaultMoveOverwrites.cfg)
                             +---------- VaultFiles_proofs

VaultTree  <-- MCVaultTree (VaultTree.cfg, VaultSoftDelete.cfg)
    ^
    +---------- VaultTree_proofs

Sections   <-- MCSections  (Sections.cfg)
    ^
    +---------- Sections_proofs

Search     <-- MCSearch    (Search.cfg)
    ^
    +---------- Search_proofs

Reminders  <--refines--  TaskStore   <-- MCTaskStore  (TaskStore.cfg, TaskIdRace.cfg,
                             |   ^                     TaskCreated.cfg)
                             |   |
                             |   +---- TaskStore_proofs <-- TaskForest_proofs
                             +--> TaskDoc

SyncSupervisor  <--refines--  Service <-- MCService (Service.cfg)
   ^   ^                         ^
   |   +-- MCSyncSupervisor      |
   |       (SyncSupervisor.cfg)  |
   +-- SyncSupervisor_proofs <-- Service_proofs
```

### NoteStore and VaultFiles

`VaultFiles` has one action per *system call* of the note operations, because
that is where the interleaving happens.

| state | code |
|---|---|
| `fs`, `data` | the directory (path to inode) and the text of each inode. Inodes are explicit because an open file follows its inode when another request renames, unlinks or replaces its path |
| `call[c]` | the locals of request `c`: its next system call, its path and target, the text it read (`old`), the text it will write, its open file, and `uniquePath`'s counter |
| `events` | counts calls, pulled changes and faults, to bound the run |
| `disturbed`, `raced` | history: whose view another actor has changed, and whether somebody has then written on such a view (or was cut short in a write) |
| `unborn` | history: the files an `Append` has made and nobody has written yet |

| actions | code |
|---|---|
| `CreateOpen`, `Write` | `Create`: `OpenFile(O_CREATE\|O_EXCL)`, then write |
| `AppendOpen`, `AppendWrite` | `Append`: `OpenFile(O_APPEND\|O_CREATE)`, then write at what is the end by then |
| `EditRead`, `OpenTrunc`, `Write` | `Edit`: `ReadFile`, replace every occurrence by a text or by none, `os.WriteFile` (a truncating open, then a write at offset 0) |
| `SectionRead`, `OpenTrunc`, `Write` | `ReplaceSection`; which tokens a heading selects is left open |
| `MoveStatSrc` / `RestoreStatSrc`, `MoveStatDst`, `Rename` | `Move`, and `Restore`, which calls it |
| `DeleteStat`, then `RemoveAll`, or `Probe`... and `Rename` | `Delete`: for good, or into `.trash` under a name `uniquePath` finds |
| `WriteFails`, `Crash`, `Pull` | a full disk, a killed process, and `ob sync` |

Text is a sequence of tokens, and a path is a folder, a name and the numbers
`uniquePath` has added to it. `MkdirAll` is left out: a parent directory is
made before every use. A call that is refused before it changes anything
(missing note, text not found, name taken) is the same as no call, so it has
no action, except in the middle of one (`MoveStatDst`).

`NoteStore` is what the vault promises: a map from names to texts, which every
call that *changes* a note changes in one step. `VaultFiles` maps to it by
`Visible`: a note being created, by a `Create` or by an `Append` to a note that
was missing, is not there yet, and a note being rewritten still has its old
text. So an `Append` is one step, at its write, whether the note was there or
not.

Calls that only read are not covered. `Visible` is what requests are *meant* to
see; one that reads the file while another is between its truncation and its
write finds it empty, whatever `Visible` says. For an `Edit` or a
`ReplaceSection` that is settled by `RewritesStartFromTheNote`: in that window
neither finds what it looks for, the call is refused, and no note is rewritten
from an empty copy. A plain `Read` there answers an empty note.

The code does not promise atomicity to requests that collide, and the model
does not pretend it does: `raced` maps to NoteStore's `torn`, after which the
abstract store allows anything. So the refinement says *precisely* when the
changes are atomic: as long as no request writes on a view that another actor has
changed inside its read-to-write window, no writer's file is changed by
another actor between its open and its write, and no write is cut short.
`ViewIsCurrent` and `HoldersApart` keep that history honest: a view *not*
marked disturbed really is current, so `raced` cannot be raised by a step that
harms nobody's assumptions.

### VaultTree

The same operations on the *tree* of folders and notes, one step per call, with
paths as clients write them. `VaultFiles` has clean paths and no folders;
`VaultTree` has no interleaving.

| state | code |
|---|---|
| `tree` | clean path to note or folder; the vault is the empty path |
| `changes` | bounds the run |
| `receipts` | history: the path each `Delete` answered with, and what it held |

A raw path is a sequence of components with its `.`, `..` and empty components
still in it. `Clean` and `Resolves` are `filepath.Clean` and `resolve`;
`WithParents` is `MkdirAll`, which the other operations call, and whose folders
stay when the rename then fails; `Renamed` moves a folder with all it holds, and
refuses to move it into itself. `InTrashAsWritten` looks at the raw path, as
`Delete` and `Restore` do. `UniqueName` is `uniquePath`; `List` leaves out what
begins with a dot. A name is its base name and the numbers it has been given.
`PathsAssumption` says what the tree is at the start: finite, with a folder
wherever something is below.

### Sections

The sections of a note and the two ways to read by pages.

| state | code |
|---|---|
| `note` | the note's text, as tokens (heading marks of six levels, three dashes, three equals signs, a fence, words, newlines) |
| `reader` | a client's view: what it reads, the offset it was given, what it has put together |
| `mixed` | history: a change has touched what the reader had read |

`Headings` is what goldmark and `positionedHeading` find at the top level: ATX
headings of levels 1 to 6 and setext headings of either underline, dashes (level
2) or equals signs (level 1; without a paragraph above them they begin one),
none in fences or in frontmatter. It is written from the
*lines* of the text, so a newline that is missing at a seam changes what the
lines are, as it does in a note. `markdownSections` is the stack algorithm,
`ReplaceSection` the splice with its newlines, `Page` is `Read` and
`GetSection`. `Replace` and `AppendNote` change the note under the reader.
`Only` is `SelectSeq` with a set for its test, because the prover cannot
reason about an operator that takes an operator.

### Search

`Search` runs ripgrep (external: `RgOutput` is what it writes for a vault), and
reads its events one at a time.

| state | code |
|---|---|
| `vault`, `context`, `limit` | the notes (which lines match) and the options, the limit as it is settled |
| `out`, `res`, `status` | the events left, the `Result`, and where the call stands |
| `killed` | history: ripgrep did not get to its end |

`RunRg` lets ripgrep succeed, skip a note it cannot read (exit code 2), be
killed after any event, in the middle of a line too (exit code -1), or write a
line that does not parse. `SkipEvent`, `BadEvent`, `AddLine`, `Truncate` and
`EndOfOutput` are the branches of the loop of `parseJSONEvents`.

### TaskDoc, TaskStore and Reminders

`TaskDoc` holds the operators of `tasks.go` on a note: a sequence of headings
(with a level), task blocks (with an indentation, a title, the checkbox, an
ID or `NoId`, and whether the block has a completion field) and prose: a line at
column 0 that is neither, or a fenced block, either of which closes the tasks
above it, so that what is indented below it nests under none of them. Nesting is computed
from indentation exactly as `parse` nests; `End`, `Splice`, `ReplaceBlock`,
`RemoveBlock`, `InsertUnder` and `InsertInSection` follow the functions of
those names.

`TaskStore` has one action per step of a tool: `Load` (read, nest, give every
reminder without an ID a random free one), `Trunc` and `WriteIds` (the save of
those IDs), the change to the parsed copy (`Create`, `Update`, `Complete`,
`Reopen`, `Delete`), `Trunc` and `Write` (the second save), and `List`, `Get`,
`CompleteRefused` and `NotFound`, which return after the load. `HandEdit` is a person in Obsidian,
who writes a reminder, ticks or clears a box, or removes a block;
`WriteFails` and `Crash` as above. The history `told` is the set of IDs that
clients have been given, in answers and in the error of a `Complete` that is
refused over open subtasks (not those of reminders created below the template,
which no call finds); `shown` is the note but for a save that is under way.

`Reminders` is what the tools promise: a forest of reminders by ID, and one
atomic action per tool that changes its own reminder and no other; a person
ticks (`Tick`) or removes (`Prune`), and `Adopt` is what a load does: it gives
IDs, by which a named reminder below an unnamed one gets a parent to name.
`TaskStore` maps to it by `Tree(shown)`.

The modules assume of their constants that there is a title to give
(`TitlesAssumption`), that the default section is one (`SectionsAssumption`),
that `NoId` is no ID (`IdsAssumption`), that the bounds
are numbers (`BoundsAssumption`), that what is there at the start is a note
(`StartAssumption`) with no ID written
twice (`UniqueAssumption`: the code never repairs a note whose IDs were copied
by hand; `byID` keeps the last task of an ID), that the heading of a new file is one of
`Sections` (`HeaderAssumption`), and that the person who edits by hand is none
of `Clients` (`ClientsAssumption`). `IdsAreUnique` therefore asks whether the
tools keep the IDs apart from there on.

### SyncSupervisor

One `superviseVault` goroutine per vault, its `runContinuousSync`, and the
child processes it starts.

| state | code |
|---|---|
| `pc`, `backoff`, `left` | where `superviseVault` stands, its backoff, the rest of its sleep |
| `age`, `toPoll`, `ticked` | the run's start, its ticker, and the tick waiting in the ticker's channel (capacity one) |
| `sync` | `syncStates[v]` |
| `child`, `killed`, `cur` | the processes of this run and of the one before: none, starting, alive, dead with output still being read, or reported on `done`; and whether its context is cancelled |
| `ctxDone`, `exited` | the process's context; whether the process has ended, and its goroutines with it |
| `beatBy`, `stale` | history: which child's heartbeat is recorded; whether the watchdog ended the run |

Actions: `Start`/`Stop` (the loop's head), `Exited`, `Watch`, `Abort` (the
branches of `select`; any ready one may be taken), `Reap` (`<-done`), `Sleep`,
`Wake`; `Launch`, `Die`, `RunReturns`, `Beat` of a child; `Cancel`, `Exit` and `Tick`.
`main` returns without waiting for the supervisors, so `Exit` may come at any
moment; afterwards only the clock and the children move.
Instants are ages, saturated at `WatchdogAfter + 1`: no comparison in the code
tells larger ones apart. A late `Beat` of a dead child whose output is still
being read is possible, as it is in the code.

One assumption is not in the code: once a killed child is dead its output pipe
closes, so that `cmd.Run` returns. A grandchild that inherits the pipe could
keep it open, and the code sets no `WaitDelay`; then the supervisor would wait
for ever at `<-done`. This is listed as a hazard.

### Service

`main.run` around the supervisors: `Service` extends `SyncSupervisor` and takes
its `Beat` apart.

| state | code |
|---|---|
| `stage`, `ob`, `connected` | how far `run` has come, the `ob` command it waits for, the vaults that are set up |
| `requests`, `grace` | requests in flight, what is left of `Shutdown`'s five seconds |
| `pending` | `observedSyncWriter.pending`, one for each run |
| `deaf` | a write of the process's own output failed, and `cmd` copies no more of the run's output |
| `spoken` | history: all of the run's output that was passed on |

Actions: `LoginEnds`, `SetupBegins`, `SetupEnds`, `SyncBegins`,
`DiscoveryEnds`, `Listens`, `RequestBegins`, `RequestEnds`, `ServeFails`,
`ShutdownBegins`, `ShutdownEnds` of `run`; `StartsRun`, `OtherSupervision` and
`Output` of the supervisors, which are there from `SyncBegins` until the process
exits; `Signal` and `TimePasses`. Each step of the start-up may fail, and one
that waits on another process may take for ever. `run` does not wait for the
supervisors: after `exited` nothing in the process moves, and a child goes on
until it dies (`ChildDies`). `Output` is `observedSyncWriter.Write` of a piece
of output, of which it looks at what the process's own output has taken (all of
it, or less where that write fails, after which `cmd` copies nothing more), and
whose complete lines it compares with "Fully synced". `Output` is the whole
handler; when `stage` becomes `exited` the supervisors' `Exit` happens. The order in
which vaults are set up is left open; the code takes the configured one.

`SupervisorSpec` is the refinement: hidden behind all that, the supervisors
behave as `SyncSupervisor!Spec` allows, so that its invariants hold here.

## 3. What the runs check

| run | instance | distinct states | what it shows |
|---|---|---|---|
| `vault_files` | 2 clients, 2 names, 2 start notes, 3 events | 203 thousand | `TypeOK`, `ViewIsCurrent`, `HoldersApart`, `LeavesOnlyByRemoval`, `RewritesStartFromTheNote`, the refinement `StoreSpec`, and `CallsReturn`: every call returns when a name has room for a number |
| `vault_long_name` | 2 clients, one name, at the length limit | - | `UniquePathReturns` is violated (section 6) |
| `vault_move_overwrites` | 2 clients, 2 events | - | `MoveFailsIfDestinationExists` is violated (section 6) |
| `vault_tree` | 3 notes, a folder, 20 ways to write a path, 3 changes | 23 thousand | `TypeOK`, `ReceiptsHold`, `NothingLost`, `RestoreTakesFromTrash` |
| `vault_soft_delete` | as above, 1 change | - | `DeleteIsRecoverable` is violated (section 6) |
| `sections` | all notes of up to 3 tokens and 12 longer ones, 11 contents, pages of 3, 1 change | 23 thousand | `TypeOK`, `SectionsNest`, `StructureKept`, `ReplacedIsRead`, `PagesAreTheText` |
| `search` | 3 notes of up to 3, 2 and 2 lines, limits 1 to 3, 0 or 1 line of context | 519 thousand | `TypeOK`, `ResultInOrder`, `SuccessIsComplete`, `TruncatedIfMore`, `MatchlessOnlyAtTheCut` |
| `task_store` | 2 calls, 5 IDs, 2 titles, 3 sections, no note or 2 start notes, 2 events | 188 thousand | `TypeOK`, `ViewIsCurrent`, `IdsAreUnique`, `SeenIdsStayValidUnlessRaced`, `CreatedIsFound`, `ToolsAreAtomic`, and the refinement `ForestSpec` |
| `task_id_race` | as above | - | `SeenIdsStayValid` is violated (section 6) |
| `reminder_created_elsewhere` | as above | - | `CreatedWhereAnswered` is violated (section 6) |
| `sync_supervisor` | 1 vault; poll 2, stable 3, ready 4, watchdog 6, backoff 1..3 | 36 thousand | `TypeOK`, `OneChild`, `ReadyIsCurrent`, `StaleRestartsSoon`, and the liveness of section 4 |
| `service` | 1 vault, 1 request, 4 pieces of output, 4 tokens per run, all times 1 | 658 thousand | `ServiceTypeOK`, `NothingBeforeSetup`, `BeatIsALine`, `SupervisorSpec`, `EndsAfterSignal` |

**Bounds.** An *event* is a call begun, a change pulled, a hand edit, a failed
write or a crash; the steps of a call that has begun cost nothing, so an event
bound of `n` is every interleaving of `n` such things. Three events on the
vault give every collision of two writers with a third (two soft deletes of
one name and a restore; an edit, a move and a pull), and each of the
operations' longest path. `MaxNumber` is larger than the number of notes three
events can put in the trash, so the search for a free name never reaches it
unless the name is too long. Two events on the task note are two overlapping
tools, or a tool with a hand edit or fault, starting without a note and from
the two of `MCTaskStore`: a reminder with a hand-written subtask that is
indented by one column, has no ID and has a subtask with one, then a template
with a checkbox and a section below it; and a reminder with an indented one
that a line of prose parts from it. The supervisor's run has no bound but the
saturated ages: it is the
whole state space of one vault, and the thresholds keep the code's order
(poll < stable < ready < watchdog), with a doubling of the backoff that passes
the maximum. One vault is enough there because supervisors share only the
clock and the context; the proofs cover any set of vaults.

Three changes to the tree are enough for a soft delete, a second one of the
same name, and a restore or an erasure of either; the paths are those that
tell the branches of the code apart (plain, hidden, refused, a folder, the
vault, the trash, detours into and out of the trash). The notes of `sections`
are *every* note of three tokens, where most seams and corners are, and longer
ones for nesting, levels that are skipped on the way down and up, two-line
setext titles, both underlines, frontmatter and fences; its
properties try every content on every section of every note that is reached.
With pages of three tokens a reader asks two to five times. In `search` limits
are below, at and above the number of matches, ripgrep dies after each event,
and the limits of the run (default 2, ceiling 3) have the order of the code's
(50, 500). In `service` four tokens per run are enough for a heartbeat
in one to three pieces and for the end of a line that another run began;
the thresholds are 1 because `sync_supervisor` varies them.

**Symmetry** is used where it is sound: clients (`MCVaultFiles`), and clients
and unused IDs (`MCTaskStore`), in runs that check no liveness; both are model
values no definition tells apart.

**Deadlock** is checked in `sync_supervisor` (time always passes). The vault
and task runs say `CHECK_DEADLOCK FALSE`: with the bounded number of calls
spent and all of them answered, the service rests. So does the process once it
has exited, and a search that is done.

Every property of a passing run has a mutant in `PROJECT.json`: a definition
of the model changed the way a plausible bug would change the code (`O_EXCL`
or `O_TRUNC` missing, `cancel()` or `<-done` missing, `i++` missing, a drawn
ID not looked up), which the run then catches. The mutated operators stand
beside the originals, marked `Broken:`.

## 4. Fairness

* `VaultFiles!FairSpec`: weak fairness of `Continue(c)`, for each client: a
  goroutine whose next system call can be made makes it. Nothing obliges a
  client to call, a device to sync, or a fault to happen. `CallsReturn` needs
  no more.
* `SyncSupervisor!FairSpec`: time passes; each ready branch of a supervisor is
  taken sooner or later (Go's `select` picks uniformly, so a branch that stays
  ready is not starved); a process being started starts or fails; a killed
  process dies; the pipe of a dead one closes. No child has to die, or to
  beat, of itself: a child may hang for ever, which is what the watchdog is
  for. Nothing is fair once the process has ended but the clock. Under it the run
  checks `SilentChildIsReplaced`, `AlwaysSupervised` and `ShutdownStops`, each
  with the end of the process as an excuse: `ShutdownStops` says that after the
  signal every supervisor returns and no child is left, *or the process ends
  first*. `main` waits for the HTTP server only (`main.go:94-98`), and with no
  open request it ends at once.

* `Service!ServiceFairSpec`: time passes; `run` takes its next step when
  nothing keeps it waiting; and what it waits for ends *once the context is
  done* (`exec.CommandContext` kills `ob`, `NewRequestWithContext` ends
  discovery). Before that an `ob` command or the provider may hang for ever,
  and a request need not end at all. `EndsAfterSignal` needs no more. As with
  the supervisors' `<-done`, that a killed `ob login` ends at all assumes that no
  process it has started keeps its output open.

`VaultTree`, `Sections`, `Search` and `TaskStore` have safety properties only.

## 5. What is proved

Eight proof modules, checked by TLAPS with SMT, Zenon and PTL. A theorem holds
for every value of the constants that satisfies the named assumptions of the
module: any number of clients, folders, names, texts and events, any set of
vaults, any thresholds, any notes and titles.

**`VaultFiles_proofs`** (from `NamesAssumption`, `TextAssumption`,
`BoundsAssumption`, `ClientsAssumption`): `TypeCorrect`, `ViewsCurrent`
(`ViewIsCurrent`), `HoldersAreApart` (`HoldersApart`), `NothingIsLost`
(`LeavesOnlyByRemoval`), `RewritesAreOfTheNote` (`RewritesStartFromTheNote`),
`FilesKeepStore` (`StoreSpec`). They rest on

```
Inv == TypeOK /\ OneName /\ ViewIsCurrent /\ HoldersApart /\ ReadsText
```

`OneName` says that no two paths name one file; it holds by what `rename` and
`open` are, and is here because `ViewIsCurrent` needs it: an append through one
path would otherwise change the note another client has read through another path without
disturbing it. `HoldersApart` needs `ViewIsCurrent` (a writer whose view is
current has the file at its path open) and `ReadsText`, which the runs do not
name: a request about to rewrite a note has read a *non-empty* text, so the
truncation of a file by another request always changes what it saw.
`LeavesOnlyByRemoval` follows because a rename takes a file away only where
the target existed, and a client whose view is current has seen it free. The
argument has two parts. What a step does to everybody but its actor is the same
for all of them: `OthersView` and `OthersApart` say that whoever is not marked
disturbed still sees what it saw, and `StepInv` reduces a step to what it does
to its own actor, which `RequestInv`, `ContinueInv`, `PullInv` and `CrashInv`
show per system call. `CarelessInv` is the case of an actor that returns, or goes to a step at which
nothing it has seen matters.

The refinement is `FilesKeepStore` (`StoreSpec`): until writers collide, or a
write is cut short, which is `Tear`, each step of `VaultFiles` is a step of
`NoteStore` or none; so each call that changes a note does so in one step.
`NothingYet` is what it adds to `Inv` for an `Append` to a missing note: the
file is empty until somebody writes it, and nobody writes it at offset 0.
`RewritesAreOfTheNote` rests on the same: whoever disturbs nobody finds at a
path either what the others see there, or an empty file, in which there is
neither a text to replace nor a heading. `Seen(p)` says what the others see at a path that nobody
disturbs: the file as it is; where it is being rewritten, the text it had; where
it is being created, nothing. `CalmSeen` gets that from `Inv`. Every operation
then happens at one system call (`WriteSteps`, `AppendWriteSteps`, `UnlinkStep`,
`RenameSteps`), and the calls before it are invisible (`CreateOpenSteps`,
`OpenTruncSteps`); `AtPath` says that a call leaves all other paths as they
were. What is written has to be a text `NoteStore` allows, so one invariant
more goes with `Inv`: `TextsAreOwn`, that what a request is about to write is
what a client sent or what an operation makes of the text it has read.

**`VaultTree_proofs`** (from `PathsAssumption`): all of what its run checks, for
any vault and any way to write a path: `VaultIsATree` (`TypeOK`),
`OnlyErasingLoses` (`NothingLost`), `ReceiptsStayTrue` (`ReceiptsHold`) and
`RestoresComeFromTrash` (`RestoreTakesFromTrash`). The invariant is

```
IInv == TreeOK(tree) /\ changes \in 0..MaxChanges /\ \A r \in receipts : Stands(r, tree)
```

`TreeOK` says of *every* folder above a path what `TypeOK` says of the next:
a rename takes the path of a note apart anywhere. `Stands` adds to
`ReceiptsHold` that what a `Delete` answers is right below the trash and is
there: that is why a second soft delete, which does not address it, cannot
touch it (two names below the trash hold nothing in common), nor choose its
name. The operations on a path share one argument: each keeps what is there
(`KeepsNotes`) and leaves alone what is neither within a path it addresses nor
above it (`Undisturbed`). `RenamedIs` says what a rename does in those terms,
provided the place it goes to is `Ready`: its folders are there and it is not,
which is what `MkdirAll` and the look at the target are for.
`UniqueNameIsFree` is `uniquePath`: one of the first `n + 1` numbers is free in
a tree of `n` paths. `CleanInTrash` is what the guard of `Restore` rests on:
cleaning commutes with `.trash/` before the path, unless the path leaves the
trash, and then what it names without `.trash/` leaves the vault.

`Clean` is a recursion over the path. The provers cannot instantiate an induction
theorem, so `UpTo` takes the least position from which something fails
to hold out of the well-foundedness of `<` on `Nat`; with it `CleanedExists`
shows that there is such a function at all, and `CleanInTrash` what it gives.

**`SyncSupervisor_proofs`** (from `TimesAssumption`): `TypeCorrect`,
`NeverTwoChildren` (`OneChild`), `ReadyMeansCurrent` (`ReadyIsCurrent`),
`StaleIsRestartedSoon` (`StaleRestartsSoon`), from `TypeOK` and one invariant
per vault, `VaultInv(v)`: where the supervisor is at the top, asleep or done,
neither process is live; elsewhere only the current one is; the heartbeat
recorded in a run is of that run's child; and the age of a run that the
watchdog ended is past the watchdog's threshold. The last, with
`StableRun <= WatchdogAfter` of `TimesAssumption`, is why a stale run always
resets the backoff: with a watchdog shorter than a stable run (`watchdogAfter`
is a field of the supervisor, which a test shortens) it would not. `VaultInv` speaks of one
vault, so that a step of another vault's supervisor leaves it alone.

**`Service_proofs`** (from those of `SyncSupervisor`, `ServiceAssumption` and
`CommandsAssumption`): `SupervisorsAreSupervisors` (`SupervisorSpec`),
`ServiceHasOneChild` (`OneChild`, for the process), `SetupComesFirst`
(`NothingBeforeSetup`), `HeartbeatsAreLines` (`BeatIsALine`) and
`ServiceTypeCorrect` (`ServiceTypeOK`). The refinement is shown step by step:
each step of `ServiceNext` is a step of `SyncSupervisor` or changes none of its
variables. From it the process inherits the supervisors' invariants, and the
last three are inductive with them and two facts more: no vault is synced
before all are connected, whatever the stage; and for each run the
writer's pending text is what follows the last newline of all the run has
written.

That a chunked reader sees the lines of the whole is a fact about texts, proved
in the first part of the module for texts of any length: `HeartbeatOfPieces` says that a
text has a heartbeat line with a piece added exactly if it had one before, or
its rest with the piece has one; and `RestOfPieces` that the rest of
the whole is the rest of the rest with the piece. The last newline of a text is
a `CHOOSE`; that it exists needs induction, which the provers here cannot
instantiate, so `Least` takes the least position from which no newline follows
out of the library's well-foundedness of `<` on `Nat` instead.

**`Search_proofs`** (from `LimitsAssumption` and `NotesAssumption`):
`ResultIsCapped` (`TypeOK`), `ResultsAreInOrder` (`ResultInOrder`),
`SuccessIsAll` (`SuccessIsComplete`), `CutMeansMore` (`TruncatedIfMore`: a
result is marked as cut exactly if there are more matches than the limit) and
`EntriesHaveMatches` (`MatchlessOnlyAtTheCut`): all that `Search.cfg` checks, for
any vault. What ripgrep writes, what the result lists and what it should list
are each a `FlattenSeq` of smaller sequences, so the argument has four layers:

1. `FlattenSeq` itself. `Flatten...` say what it makes and that it grows with
   its last sequence; `Placed` says where each element of it comes from and that
   the order is kept. Both are inductions up to a number, by `Least`.
2. `Shape`: in what ripgrep writes every event belongs to a note (`own`), in the
   order of the notes and of their lines, an event says "match" exactly where the
   line matches, every matching line is there, and a note that has any event has
   a match.
3. `KeptIn(rg, own, m, g, r)`: what the result `r` has after the first `m` events
   of a whole run `rg`. It lists their lines, it has counted their matches, its
   entries are of the notes `g`, which ascend, and each match that was read is in
   the entry of its note.
4. `Progress`, the inductive invariant: there are such an `rg`, `own`, `m` and `g`,
   and while the call parses each event of `out` is the one `rg` has there or one
   that does not parse (`Left`); none is missing unless ripgrep was killed.

`ResultInOrder` speaks of the paths, and the code compares paths: two notes of
one path would share an entry or have two. A directory has no two, but
`search.go` reads every path that is not UTF-8 as the empty one.
`NotesAssumption` admits one such note in a vault (section 7).
`NumberOfMatches` counts the lines of the vault, the code counts events;
`MatchesCounted` is the bijection between them.

**`Sections_proofs`** (from `PageSizeAssumption`, `BoundAssumption` and
`NotesAssumption`): `SectionsTypeCorrect` (`TypeOK`), `SectionsAreNested`
(`SectionsNest`), `ReadersHaveTheText` (`PagesAreTheText`), `HeadingsSurvive`
(`StructureKept`) and `WhatIsWrittenIsRead` (`ReplacedIsRead`).

`SectionsAreNested` compares an algorithm with a definition. The algorithm goes
through the headings once with a stack, and a section ends at the first heading
on whose stack it is not; the definition looks at all later headings.
With six levels and levels that are skipped, the two differ in what they look
at. `StackIsOpen` is the invariant of the loop: `stack[k]` has, in order, the headings
that no later one up to `k` has closed (`Open`). Two ascending sequences with the
same elements are one (`SameElems`), so the path is the definition's; `OffIs` says
that the first heading without `k` on its stack is the first that is not below
`k`'s level. `LinesAre` and `HeadingsAre` say where lines and headings begin and
end in any text: in order and apart, a setext title never reaching back
over an earlier heading. From that each cut of `ReplaceSection` is in the note
(`SectionInRange`), and that no two headings start at one place.

`ReadersHaveTheText` needs one thing more than it states: the offset is not beyond
the end of the text (`Has`). Otherwise the next page could be refused although
nothing that was read has changed.

`HeadingsSurvive` and `WhatIsWrittenIsRead` hold of every note of tokens, not only
of those the service reaches, so the work is in lemmas about texts, and the
invariant gives no more than that the note is one. What a line *is* depends on
the lines before it (frontmatter, an open fence) and on its neighbours (an
underline makes a heading of the paragraph above it), so the argument is about
where two texts may be joined:

1. `LinesJoin`: where the first text ends a line, the lines of the whole are
   those of the one and then those of the other. `FencesAre` takes the state of
   the fences along the lines.
2. `HeadingsJoin`: if in addition the first leaves no fence and no frontmatter
   open (`Settled`) and no paragraph goes on over the seam (`Breaks`), the
   headings of the whole are those of the two, the second read as after an empty
   line (`Inside`) and moved.
3. The two cuts. Just after a heading nothing is open and no paragraph goes on
   (`CutAfter`, through `Stops`), whether the heading's line had its newline or
   `Ended` gives it one (`Finish`). Just before a heading (`CutBefore`) the rest
   has the headings it had, and begins with a `#` line, unless that heading is
   setext.
4. `Ended` and `Apart` change no heading of the content (`EndedStands`,
   `ApartStands`); an `Apart` content ends with a blank line, which is what keeps
   a setext title that follows from taking the content's last paragraph with it
   (`MadeOfThree`): without it the paragraph would go on, and `Breaks` would fail.
   `Closed` is needed at the second seam, where `StandsSettled` rests on it.
5. `Replacing` puts it together for each way `ReplaceSection` goes: content or
   none, something after the section or nothing. `Rebuilt` says which headings
   the new note has, `Reads` what its section `k` reads. `Counted` and
   `ThreeParts` turn the first into the sequences `StructureKept` compares;
   `SamePath` and `LastIsInside` find the section again: its path is made of
   headings that are still there, and it ends where the note went on before,
   since no heading of the content reaches its level.

**`TaskStore_proofs`** (from the assumptions of section 2): `NotesAreNotes`
(`TypeOK`), `CopiesAreCurrent` (`ViewIsCurrent`), `IdsStayUnique`
(`IdsAreUnique`) and `ToldIdsStayValid` (`SeenIdsStayValidUnlessRaced`), from

```
IInv == TypeOK /\ ViewIsCurrent /\ CallsHold /\ Missing /\ (~raced => Orderly)
```

None of the last three is named by a run. `CallsHold` says what a call has in
its hands: after the load its copy *is* the note as it was loaded and every
reminder in it has an ID, and while it saves IDs it has dropped none. `Missing`
says that a note which is not there is empty, so that the header a call takes
instead loses nothing. `Orderly` is how things stand until two calls collide:
the IDs of the note, of `shown` and of every copy are unique, the told ones are
in `shown`, at most one call is in a save, nobody has disturbed it and it knows
all the IDs that `shown` has, and when no call is in a save `shown` is the note.
That is why a told ID survives the moment in which the file is empty: it is in
the copy of the one call that is about to write. `SaveIInv`, `AnswerIInv` and
`SavedIInv` are what all tools share; a tool owes only that its change of the
copy keeps a note a note, with unique IDs.

Its first part is about `TaskDoc`: what the operators on a note do to it, for
notes of any length. A splice, a removal and a block that is written anew all leave the
rest of the note as it was, only moved: that is `Moved`, and from it follow, once
for all of them, which tasks are outside the template (`MovedTasks`), which IDs
there are (`MovedIds`) and that they stay unique (`MovedUnique`). `ReplacedBlock`,
`RemovedBlock`, `InsertedUnder` and `InsertedInSection` are the functions of
`tasks.go`. `Min` and `Max` of the community modules are a `CHOOSE`: that it
exists comes from the well-foundedness of `<`, as in `Service_proofs`.

**`TaskForest_proofs`** is about nesting, which the note does not hold and every
call computes anew from indentation. `Fits` is a splice after which the next
line is a heading or is indented no deeper than what was put before it; then
every other task keeps its parent (`FitsTree`), and the forest changes by the
tasks of the splice alone. A block written anew is indented by its tasks'
depths: `DepthMeansAbove` says that inside a block depth tells who is above
whom, so that `ReplaceBlockNests`: what is rendered nests as what was parsed,
whatever indentation a person had used. With these:

* `EveryToolIsAtomic` (`ToolsAreAtomic`): each tool does to the forest of its
  copy the operation of `Reminders` with its name, to one reminder.
* `StoreKeepsForest` (`ForestSpec`): `TaskStore` implements `Reminders`. The
  invariant it adds, `FInv`, says that each call carries one operation: from the
  forest of `base` to that of `mem`, which for a call in a save is the forest of
  `shown`. The write of a save is where the operation happens; every other step
  but a hand edit leaves the forest alone, and a collision is `Tear`.
* `CreateAnswersTrue` (`CreatedIsFound`): where a created reminder is found,
  with the three exceptions of section 6 (`reminder_created_elsewhere`) and no
  more. `ShallowIsLast` and
  `LastChild` are the first of them: only the last subtask, and only one that is
  indented by less than a unit, can take the new one.

**Only model-checked:** all liveness, for which the prover has no rule here
(`CallsReturn`, `EndsAfterSignal` and the liveness of section 4). Every invariant
and every action property of a passing run, and every refinement, is the subject
of a theorem.

## 6. What the code does that its text denies

Five of these are runs that fail, with the text each contradicts quoted in
`PROJECT.json`.

* **`vault_long_name`.** `uniquePath` (`vault.go:339`) takes any error of
  `os.Stat` but "not exist" for a name in use. When a note's name has no room
  for ` (1)`, every candidate fails with `ENAMETOOLONG`, and the second soft
  delete of that name spins for ever.
* **`vault_move_overwrites`.** `Move` "fails if the destination already exists"
  (`vault.go:264`), but it looks first and renames later; a note created in
  between is replaced.
* **`task_id_race`.** "an ID seen in one call stays valid" (`store.go:85`),
  unless another call that had loaded the note before saves after: it then
  drops the IDs the first has returned.
* **`vault_soft_delete`.** A Delete moves a note into the trash "by default"
  (`vault.go:308`), but looks for `.trash/` in the path as it was written:
  `.trash/../a` is the note `a`, and is removed for good.
* **`reminder_created_elsewhere`.** Create "adds a reminder, nested under ParentID
  when set, otherwise at the end of Section" (`store.go:203`), the section is
  "the innermost heading the task sits under" (`tasks.go:41`), and the tool's own
  description says "filed at the end of section" (`server.go:139`). A reminder
  created in a section with subsections is found in the last of them; one
  created below a template heading, or in a section that ends with one, is not
  found at all; one created under a parent whose hand-written subtasks are
  indented by one column is found below the last of them. Create answers what it was
  asked for in each case. `CreatedIsFound` states where the reminder really is,
  in these three cases and in no other.

Two more are told by properties that pass because they state what the code does,
not what the text says:

* **Restarts of a silent child.** `src/README.md:120-122` says that a child which
  "stays silent for five minutes" is restarted "with exponential backoff".
  `superviseVault` resets the backoff after a run of a minute or more
  (`bootstrap.go:140-142`), and a child that the watchdog ends has run for at
  least five: these restarts always come after the *initial* backoff, however
  many there are. `StaleRestartsSoon` states that. Only children that exit soon
  are restarted with an exponential backoff.
* **The total of a search that was cut.** "TotalMatches counts matching lines
  across all files" (`search.go:63`), but the loop stops at the limit before it
  counts on (`search.go:176-179`): the total of a cut result is the number of
  lines listed, whatever the vault holds. `TruncatedIfMore` says when a result
  is marked as cut, and nothing of its total.

Three observations contradict nothing that is written: a ripgrep killed by a
signal has exit code -1, which passes for success (`SuccessIsComplete` excepts
it); `Restore` with a target takes `.trash/../a` for a path in the trash, and so
moves a note that is not (`RestoreTakesFromTrash` is about the default target);
`main` returns without waiting for the supervisors (`main.go:94-98`), so a child
may outlive the process (`ShutdownStops` allows for it, and `Service` reaches
such a state).

## 7. What is not modelled

* `verifyToken`, `oidcauth.Verify` and `config.Load`: each decides on one input
  and keeps nothing; a model would repeat their conditions. The time discovery
  takes at start-up is in `Service`.
* A vault with two notes whose paths are not UTF-8 (`NotesAssumption` of
  `Search`): this service and the sync take names from JSON, which is UTF-8.
* HTTP routes, `list_vaults`, JSON schemas, logging, and the text of messages.
* `ob`, ripgrep and goldmark themselves: external programs and libraries; what
  `ob sync` does to the directory is `Pull`, what ripgrep writes is `RgOutput`,
  what goldmark finds is `Headings`.
* Interleaving on whole folders: `VaultTree` has folders and no interleaving,
  `VaultFiles` the reverse.
* What a call that only reads sees of a note while another rewrites it (section
  2): an empty file, in `VaultFiles` and in `TaskStore` alike. What such a task
  call then answers is empty too, and `SeenIdsStayValidUnlessRaced` speaks of
  calls that did not read during another's save.
* In `Sections`: CRLF, headings in quotes and lists (which the code skips), `...`
  as the end of frontmatter, blanks before a mark and at its end: only the first
  token of a line can be a heading mark, and an underline or a fence is a line of
  its own.
* In `TaskDoc`: the fields of a task, frontmatter, blank lines and prose that is
  indented deeper than the task above it, which belong to a task's block and move
  with it. Prose between subtasks that is indented less than they are but deeper
  than their parent, and a fence that is never closed, are left out: only prose
  and fences at column 0 are items of their own.

## 8. Plan

Done: `VaultFiles` with `NoteStore`; `TaskStore` with `TaskDoc` and
`Reminders`; `SyncSupervisor`; `Service`, with the line splitter; `VaultTree`;
`Sections`, with paging; `Search`. Left, in order of what matters most:

1. `parse` line by line (fields, indented prose, completion marks), checked against
   `TaskDoc`'s nesting.
