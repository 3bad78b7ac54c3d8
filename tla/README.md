# A verification project for qq_mcp_server

qq_mcp_server collects the messages of QQ groups through NapCat, repairs what it
missed from QQ's history, and offers the groups, their characters and their notes to
a language model as MCP tools.  This directory holds TLA+ models of the parts of it
in which order, interleaving, crashes and limits matter, the TLC configurations that
check them, and proofs that TLAPS checks.

Paths below are relative to `src/src/qq_mcp_server/` unless they start with `src/`.

## 1. Inventory

Two operating-system processes share one SQLite database (WAL).  The **API** process
(`application.py:84`) serves the MCP tools and the web pages and runs the gap repair
loop; the **collector** (`application.py`, `collector.py`) accepts NapCat's reverse
WebSocket and runs the watchdog.  Each is one asyncio loop, so code between two
`await`s of one process is not interrupted by the same process, but the other process
may commit between any two calls of the store: every method of `MessageStore` is a
transaction of its own.  The host adds shell helpers that restart NapCat or switch its
account, driven by request files.

| component | state | operations | interacts with | hard because | what makes it correct |
|---|---|---|---|---|---|
| history request budget (`store.py:1501-1626`, `sync.py:95-111`, `gaps.py:85`) | slots, legacy audit, a limiter per process | claim, wait, send, audit | every reader of QQ history | two processes, lock waits, clock steps, restarts | spacing, daily limit, a kept promise of the next slot |
| collection breaker (`sync.py:281-440`) | `collection_control` | pause (manual, session, configuration), activate, resume | watchdog, administrators, command line | blind overwrites from two processes | a pause is not lost, recovery is earned |
| session watchdog (`runtime.py:1079-1327`) | `session_health` | check, quiet period, verification, recovery | breaker, gaps, jobs | a record read before an await and written after it | stable recovery; an outage is always paused and covered |
| message gaps and repair (`gaps.py`, `store.py:1183-1460`, `runtime.py:877-1077`) | `message_gaps`, `recovery_jobs` | register, close, start, pause, accept, page, archive | events, sessions, budget | two loops on one gap, cursors of old logins, sticky boundaries | a repaired gap has no hole, every repair is worked on |
| event sessions (`runtime.py:639-718`, `collector.py`) | `collector_sessions`, transport status | begin, end, replace, recover at start | gaps | a crash between two transactions, late disconnects | what was missed lies in a gap |
| recent synchronisation (`sync.py:113-260`) | `sync_state` | cycle, reconcile, degrade | budget, messages | cursors across cycles and failures | messages form no hole inside the reconciled range |
| campaign records (`store.py:2500-2821`) | characters, notes, changes, versions | commit, undo | MCP tools | optimistic versions, undo of overlapping paths | a version names one content, an undo restores what its change found |
| cards and capabilities (`cards.py`, `web.py`, `store.py:2823-2879`) | staged files, tokens | stage, preview, finalize, consume | campaign records | a file and a database row that change apart, one-time links | an upload is installed once, row and file agree |
| account switch (`runtime.py:1347-1460`, `src/deploy/switch-napcat-account.sh`) | switches, request file | request, host switch, verify, fail | breaker, gaps | two machines' worth of half-done steps | one switch under way, one account active, the host moves only for a switch still wanted |
| NapCat restart (`runtime.py:1462-`, `src/deploy/restart-napcat.sh`) | request file, history of restarts | request, restart | watchdog | cooldown and limit kept in files | at most two restarts a day |
| groups and membership (`store.py:560-766`) | groups, candidates | whitelist, archive, restore | jobs, tools | events and administrators write one row | archived groups are quiet, and reopened by whoever may |
| MCP tools and authorisation (`mcp_server.py`, `application.py`) | none of their own | checks and formatting | store | sequential | |
| rule library (`rules.py`) | an index built off-line | build, search | | sequential | |
| dashboard, command line, configuration, release | none that is shared | | | sequential | |

The hazards, each at its line and with the properties that would catch it, are in
`PROJECT.json`.

## 2. Plan

| step | module | composes | abstract statement | state |
|---|---|---|---|---|
| 1 | `HistoryBudget` | limiters of both processes with the claim | `RollingWindow`: one grant at a time, spaced and limited | checked and proved, the refinement included |
| 2 | `CollectionControl` | breaker, watchdog, events, administrators | reopening is earned | checked; safety proved, under the hypotheses of section 5 |
| 3 | `GapRepair` | both loops with gaps, job, logins | a repaired gap is complete | checked and proved, completeness for one walk at a time |
| 4 | `EventCapture` | connections, session rows, recovery at start, gaps, refreshes | what was missed lies in a gap | checked and proved |
| 5 | `Campaign` | turn updates, undo, new sheets over versions | a version names one content, an undo restores | checked and proved |
| 6 | `GroupAccess` | pages, events, roleplay switch, jobs | an archived group is quiet | checked and proved |
| 7 | `CardReplace` | capability, staged file, stored file, row | the file is the one the row names | checked and proved |
| 8 | `AccountSwitch` | API process, request files, host script, logins | one switch under way, one account active | checked and proved |
| 9 | `NapcatRestart` | process, request file, host script | two restarts a day | left |
| 10 | `SyncRecent` | budget, breaker, message pages | no hole inside the reconciled range | left |

Every safety invariant and action property that a passing run checks is also a theorem
(section 5).  Left to prove: how far the hypotheses of the conditional ones can be
weakened.  The modules declare no `RECURSIVE` operator, so that they can be proved about.

## 3. Modules

### HistoryBudget

Who asks QQ for a page of history: explicit refreshes, the repair loop of the API
process and the tick of the collector.  `clock` is the wall clock in whole units and
may be set back (`ClockSteps` bounds how often).  `slots` is `history_request_slots`,
`audited` the requests in the audit from before the budget existed, `req` one record
per requester (`idle`, `claiming`, `granted`, `inflight`), `limiter` the
`asyncio.Semaphore(1)` of each process, `refreshed` the audited refreshes, `claims` a
history variable with every granted stamp.  `Begin` reads the time before the write
lock is waited for (`store.py:1575`), `ClaimGranted`/`ClaimRefused` are the
`BEGIN IMMEDIATE` transaction, the deletion of old slots included, `Send` takes the
limiter where the code does (the repair loop does not), `Finish` writes the audit,
`VerifyLogin` takes the limiter for another action, `Restart` drops a process's
requests but neither slots nor audit.

### CollectionControl

The breaker, the `session_health` record, the watchdog, the handler of events, and
administrators.  `todo` is the list of store calls the collector still has to make
before its next `await`: one call is one step, so that the API and the command line
get in between, and a crash drops the rest.  `watchdog.read` is the record as it was
read before the `await`; what is written after it is computed from that copy, as in
the code.  `streak` and `calm` are history variables: the online answers of the
watchdog, and the time since the collector was last told of an outage.  Time passes in
watchdog periods; `Quiet` is the quiet period in periods (the code's five minutes at
one check a minute).

### GapRepair

One group.  Messages are numbered in the order they are sent, which is their time and
their place in QQ's history.  `gap` are the rows of `message_gaps`, `job` the recovery
job of the current session generation, `session` the login, whether it is online and the
breaker's status, `auto` the tick of the collector and `manual` the repair loop, each
with what it read before its `await`.  The tick writes in a series of transactions, and
each is a step: `AutoWaits` writes over the job it read before the claim waited for the
write lock, `AutoLists` stores the page and lists the gaps, `AutoMarks` writes one of
them, `AutoReviews` lists them again, `AutoGivesUp` and `AutoEnds` write what is left
(`AutoFails`, `AutoPauses`, `AutoStops` after an error).  The API, which is another
process, comes between any two of them, and so does a crash; the collector's own
handlers, which share the tick's thread, do not (`CollectorFree`).  What a handler of
the API, the repair loop or the watchdog writes between two `await`s is one step here:
of these only the repair loop keeps a gap it has read over an `await` (`manual`),
and the single store calls of the watchdog are the subject of `CollectionControl`.  The
budget is a free choice between a granted and a refused claim.  QQ's history is complete
and `get_group_history` returns the page that ends with the cursor, cursor included, as
the code relies on (`gaps.py:116` takes `next_cursor == cursor` for the end).  A cursor
carries the login it was made in; the page it fetches does not depend on it, since QQ
may or may not honour an old one (`AutoFails` and `ManualFails` are possible whenever a
page is awaited).

### RollingWindow

The abstract budget: a set of times granted so far, and a step that adds one time, at
least `Interval` after every earlier one and with fewer than `Limit` in the `Window`
before it.  `HistoryBudget` implements it (`Promised == INSTANCE RollingWindow WITH
granted <- ...`, property `BudgetIsRollingWindow`), with the stamps in `claims` and the
requests of before the upgrade as what was granted.

### EventCapture

The connections NapCat makes to the collector, with the events on each, and what the
collector knows of them.  `link` and `online` are the world, `conn` how far the handler
of each connection is, `row` the rows of `collector_sessions` by their heartbeat,
`gaps` the rows of `message_gaps`, `stored` the messages.  `pending` is the transaction
that still has to follow the one just made (`_open_outage` after the end of a session,
the end of an abandoned session before its gap); a crash drops it.  `Connects` and
`Breaks` are the world's, `Accepts`/`SessionStarts` is `begin_event_session`, `Handles`
is `handle_event`, `Disconnects`/`OpensGap` is `end_event_session`, `Starts` and
`EndsAbandoned` are the constructor of `NapCatRuntime` after a crash.  A check of the
watchdog is `WatchdogLooks`, which takes the time (`runtime.py:1282`), and one of
`WatchdogPauses`, `WatchdogRecovers` and `WatchdogEnds` after its `await`s, anything in
between; gaps are opened and closed at the time the check began (`watch`).  `PageStored`
is a page of history that `refresh_recent_messages` of the API process or the recovery
tick of the collector stores into the same table; which page is left open, so that a walk
under way and an answer that comes late are covered, also when the session has ended
meanwhile.  Two history variables name what the code does not keep.  `unguarded` is set
by the three steps that may leave everything lost around them without a gap: a
replacement of a session whose end was not noticed, a crash between the end of a session
and its gap, and a recovery by a collector that is not connected.  `passed` names single
messages: those a page stored newer ones than before their loss was noticed, and those
lost after the check began that then closed the gap.  See 7.

### Campaign

The card, the notes, the version and the change log of one group.  The card is one
attribute and one list, which is the least in which two JSON Pointers name the same
place (`/attributes` and `/attributes/str`, `/inventory` and `/inventory/0`) and in
which removing an element moves another; the list may be removed as a whole (`Absent`).
A turn is a sequence of operations on the card and a sequence of operations on notes,
each remembered as it was before the first of them (`Touched`, `TouchedNotes`).  Every
writer is two steps, `CommitBegins` and `CommitEnds` and so on: the checks read before
the write transaction opens, and the collector may archive or reopen the group in
between (`Archives`), which counts the version too.  The pointer helpers of
`store.py:61-130` are operators of the same names in effect (`Exists`, `Found`,
`CanSet`, `Set`, `Removed`).  `was` in a change and `named` are history: the records
before the change, and what the last version a reader could see stood for.

### GroupAccess

The row of one group, its recovery job and one or more access links.  `page` is a page
between its request and its answer, `api` what the API process is in the middle of,
`collector` the membership event being handled; each keeps what it read before the
transaction it writes in.  `tick` says that the collector has taken the group's job up:
`TickPicks` checks the group, and `TickWrites`, after the wait for the budget or for QQ,
writes the job whatever it has become since.  `Recovers` is the watchdog that queues
jobs again, for the same login or a new one.  `Opens`, `Adds`, `Submits`, the `*Written`
actions and `Consumed` are the steps of `group_access` in `web.py`; `EventRead` to
`RecoveryQueued` those of `handle_event` for membership; `SwitchRead`/`SwitchWritten`
the roleplay tool. The history variable `late` is set by a write whose check came before
an archiving, a job the tick revives included, `byHand` follows what became of an
archiving by hand.

### CardReplace

Upload links with their staged file and payload, the stored file, and the row that names
it.  A request is a sequence of steps (`UploadOpens`, `Stages`, `Previews`;
`ConfirmOpens`, `FileReplaced`, `RowChecked`, `RowWritten`, `Consumed`), and only while
it waits for its form may another run; the process may die after each.  `Unfit` are the
sheets the parser takes and `_validate_card` refuses, which is after the file was
replaced.  `torn` is history: a replacement ended between the file and the row, by that
refusal, an archiving or a crash; `fresh` says of each staged file that it was not yet
installed.

### AccountSwitch

The rows of accounts and switches, the two files by which the API process and the script
of the host talk, `.env`, the account the running process was started with, and the
account QQ is logged in with.  The script is its steps `HostTakes`, `HostStops`,
`HostMoves`, `HostStarts` or `HostFails`, `HostReports`, and may die after each; a stop
that fails is ignored (`|| true`) and leaves the old process serving while `.env`
moves.  Its `flock` is that there is one `host`.  A completion is in three waits
(`CompleteBegins`, `CompleteAsks`, `LoginAnswers`, `GroupsAnswer`) and writes its status
whatever the switch has become since, as `update_qq_account_switch` does.  The history
variables `overtaken` and `unrecorded` name the switches that were ended a second time,
and those whose confirmation was cut off by a crash.  `HostMovesOnlyOpen` speaks of
behaviours in which no confirmation was cut off: an earlier form that exempted only the
switch itself did not survive its proof, since what the host does for a request left
behind may come between the request of a later switch and the end of that switch.

## 4. Runs

| run | bounds | shows |
|---|---|---|
| `budget` | one refresher and both loops, two pages in a window of 4, spacing 2, a clock that is set back, waits for the lock, restarts, three requests of before the upgrade | `TypeOK`, `Spacing`, `WindowLimit`, `PromiseKept`, `SentIsPaid`, `BudgetIsRollingWindow` |
| `control_session` | quiet period 2, no administrator, a crash of the collector, fair watchdog | `OfflineIsPausedAndCovered`, `ConfigurationPauseIsCovered`, `PauseEndsWhenOnline`, `GapsCloseWhenOnline` |
| `control_admin` | quiet period 2, one administrator, restarts of the API | `TypeOK`, `StableRecovery` |
| `gap_by_hand` | 3 messages, pages of 2, 2 gaps, group not whitelisted, 1 login | `RepairedIsComplete`, `OneOpenGap` |
| `gap_one` | 4 messages, 1 gap, 2 logins, any number of restarts of each process, reported gaps | `TypeOK`, `RepairedIsComplete`, `OnlyCancelledIsLeft`, `AcceptanceHolds`, `CancelledStays` |
| `gap_jobs` | 3 messages, 2 gaps, 2 logins, no administrators, archived and restored | `JobEnds` |
| `gap_two_gaps` | 5 messages, 2 gaps | a departure, see 7 |
| `capture` | 2 messages, pages of one, 2 connections, one heartbeat on its way on each, one stop or crash, one outage of QQ | `TypeOK`, `MissedIsCovered`, `OneLiveSession`, `LastConnectionHasSession` |
| `campaign` | an attribute of 0..2, a list of two things, two notes, ten turns, two sheets, five writes | `TypeOK`, `VersionNamesOneContent`, `UndoRestores` |
| `groups` | three links, one page at a time, one event on its way, an explicit departure | `TypeOK`, `ArchivedIsQuiet`, `ManualArchiveStands`, `ReturnEndsArchive` |
| `cards` | two links, two requests, a good sheet, one found unfit and a broken file | `TypeOK`, `FileMatchesRow`, `UploadInstallsOnce` |
| `switch` | two accounts, two switches, two completions, one failure a day, four units of time | `TypeOK`, `OneOpenSwitch`, `OneActiveAccount`, `FailuresLimited`, `ActivatedIsConfigured`, `HostMovesOnlyOpen` |

The bounds are the smallest in which the interesting case happens.  Pages of two overlap
by one message, so three messages make a walk of two pages and four are the shortest
history of which a wrong cursor can skip one; two gaps are needed for one to be
registered while the other is repaired; two logins give a cursor an old one; a quiet
period of two separates "twice online" from "quiet long enough"; two pages in a window
with three requesters make both the spacing and the limit bind.  Two connections are one
that is lost and one that replaces it, noticed or not, or that comes after a crash; a
heartbeat on its way queues behind a message and before one.  Three links let one page
after the other add a group, archive it and restore it, while the other writers are in
the middle of something; pages of the API process that overlap at their waits are in
`CardReplace`.  Five writes of a group are a change, one that overlaps it, the undos of
both and one more.  Two completions and two switches are the least in which one ends a
switch after another has begun, and a stale time and cooldown of 0 let both expire
within the four units.  The largest runs are `capture` (3.6 million states), `groups`
(2.3) and `switch` (2.2); one more connection, page or unit of time is beyond them, and
the theorems of section 5 hold for any number.  For every property a one-line bug in the
module (`Mutant:` definitions) makes the same run fail, so none of the bounds hides the
case.

`campaign` and `capture` say `CHECK_DEADLOCK FALSE`: when the versions, or the messages,
connections, crashes and outages, of the bound are used up there may be nothing left to do.

**Fairness.**  In `CollectionControl` the collector's next store call is weakly fair.
The watchdog's steps and the handling of an event are strongly fair: each is disabled
again and again while the other's store calls run, but asyncio's queue of ready
coroutines is first in, first out, and the watchdog loop never ends while the process
lives (`runtime.py:1280`); every OneBot request ends in an answer or a timeout.  NapCat
sends heartbeats while it is connected (`NapCatSends`, weakly fair).  In `GapRepair`
the first tick, the taking up of a job, the end of a request and the writes that follow
it are weakly fair; the claim may be refused any number of times but not for ever, which
`PromiseKept` justifies.
Nothing is assumed of users, NapCat, QQ or the network, except in the antecedents
`StaysOnline` and `StaysActive` of the liveness properties.  The other modules state
safety only.

## 5. Proofs

`HistoryBudgetProofs` proves for all constants that satisfy the assumptions of the
module: `TypeCorrect`, which also says that each process's limiter is held by exactly the
request of its own that is in flight through it, and with the inductive invariant `IInv` the theorems
`SpacingHolds`, `WindowLimitHolds` and `SentIsPaidHolds`.  The first two are not
inductive as they stand: they speak of every stamp ever granted, while a claim sees
only the slots that were kept.  `IInv` adds `Kept`: a stamp that is no longer a slot
is more than `Retention` older than one that still is, so it cannot matter to a later
grant; and `FinitelyMany`, without which counting means nothing.  A grant follows
every time the claim counted by at least `Interval` (`GrantedIsLatest`), so only the
window that ends with it can be new, and that holds fewer than `Limit` others
(`GrantedWindow`).  Since the time of a claim is a free variable of that argument, it
covers clocks that are set back and claims that wait for the lock.

`ImplementsRollingWindow` proves that `HistoryBudget` implements `RollingWindow` for all
constants: the stamps initially granted are finitely many integers, a claim that is
granted is a `Grant` of its stamp by `GrantedIsLatest` and `GrantedWindow`, and every
other step leaves `granted` alone.  `Spacing` and `WindowLimit` speak of the table the
code keeps; this theorem says that pruning it, restarting and setting the clock back
cannot be told from a budget that never forgets.

`CollectionControlProofs` proves `TypeCorrect` for all constants, and
`StableRecoveryHolds` for collectors that do not crash (`MaxRestarts = 0`): the
invariant says that the record and the watchdog's copy of it never claim more checks
or an older online time than `streak` has seen, also in the writes still waiting in
`todo`, and that `Ahead("active")` only follows an answered login.  With a crash the
statement is false (see 7).

`CardReplaceProofs` proves `TypeCorrect`, `FileMatchesRowHolds` and
`UploadInstallsOnceHolds` for any links, requests and sheets.  The invariant adds to the
types that at most one request runs beyond its wait (`OneServed`: nothing between two
awaits is interrupted), that what a replacement has put in the place of the stored file
is the sheet it will write into the row, once it was found valid (`StoredIsParsed`), and
that a staged file that was already installed is about to be removed by the request that
installed it (`StagedIsFresh`), without which a second page of the same link could
install it again.

`GroupAccessProofs` proves `TypeCorrect`, `ArchivedIsQuietHolds`,
`ManualArchiveStandsHolds` and `ReturnEndsArchiveHolds` for any links, pages, kinds of
departure and number of events.  The last two are not inductive: the event being handled
acts on what it read one transaction earlier.  `HandStands` says that it has not decided
to reopen what an administrator archived, `ReturnSeesArchive` that it has decided to
reopen what an event archived; both hold because only the collector archives and reopens
for that reason, and it handles one event at a time.  `ArchivedIsQuiet` is: whoever may
still write the job or switch roleplay on after an archiving is `late`.

The three statements of `HistoryBudget` about what was granted are joined by
`PromiseKeptHolds`: the time a refusal names is computed from `times[-Limit]` of a sorted
list, which is the time with exactly `Limit` times at or after it (`NthLatestExists`,
by a least-counterexample argument over finite sets); once it has left the window fewer
than `Limit` are left in it (`EligibleIsAllowed`).

Two more theorems of `CollectionControlProofs` are about what lies between two store
calls.  `ConfigurationPauseIsCoveredHolds` needs to know the order of the calls in
`todo`: every pause for a configuration error is followed by the opening of a gap, every
closing of gaps is preceded by an activation.  `OfflineIsPausedAndCoveredHolds` adds what
the writes still waiting will overwrite (`OutageKept`).  Each has a hypothesis on the steps
of administrators, since the code does not keep the statement whatever they do.
`NoResumeOverOutage`: a resume that reopens the collection ends while the record does not
say offline and the collector is between two stretches; a resume decided on an answer from
before an outage reopens the collection over it.  `NoPauseOutsideGap`: a request that is
answered with a configuration error finds a gap open that the collector is not about to
close; `runtime.py:220` pauses without opening one.  Both hypotheses restrict single steps
and leave everything else to happen; both are true of every behaviour without
administrators, which is what the watchdog does of its own accord, and which the run
`control_session` checks.

`GapRepairProofs` proves its invariants for any number of messages, gaps, logins,
restarts and archivals and any size of page.  The centre of its invariant is `Walked`:
between a cursor and the end of the gap it belongs to everything is stored, also when
the answer comes after the row was closed, paused or looked up again; `RowOK` says that
what encloses a gap was stored outside it, so that a page that reaches the message
before it has closed the hole.  A cursor is of one gap as long as one coroutine walks
for one gap: `RepairedIsCompleteHolds` therefore assumes that the group is repaired by
hand only, or that there is one gap, and the run `gap_two_gaps` shows that it fails
otherwise.  The same is said of the page the tick
still holds (`PageReaches`), since it writes the gaps one by one while the API stores and
writes.  `TickOK` says that what the tick has listed and not yet written are gaps that
have ended, so that nothing opens them again in between, and `EndingLeaves` that a tick
about to give its job up has still to write every gap under repair.
`AcceptanceIsFinal` and `CancellationIsFinal` are the two action properties,
with exactly the exceptions their statements name: a page the repair loop had asked for,
a gap the tick had listed, a job it had taken.

`EventCaptureProofs` proves its four invariants for any number of messages, connections,
crashes and outages.  `MissedIsCovered` speaks only of a collector that has caught up;
the invariant must say what becomes of a lost message before: it lies in the open gap
(`OpenGapCovers`), or it is newer than all that is stored and the event or the
disconnect that will open a gap for it is still to come (`LossesFollow`), reckoned by
its place among the events on the connection (`OnWire`, `Older`, `Newer`).  The watchdog
closes gaps at an earlier time than the present, and a message after that time may still
be on a connection that was replaced while the check waited, and be handled after newer
ones were stored.  `Consistent`, which says all this, is therefore joined by `WiresInOrder`:
what was sent on a later connection was sent later, and nothing stored is newer than a
message on its way, but for what a page stored.

`CampaignProofs` proves the types, `VersionNamesOneContentHolds` and `UndoRestoresHolds`
for any turns of any length, sheets, items and notes. `NamedIsLast` says that what was
read last still stands for the records while a writer is between its check and its
write.  `RecordsKept` says of every change in the log that its entries name each path
once and, where no two are about the same place, hold what the card had there
(`EntriesOf`), and that what a writer checked before its first write still holds when it
writes (`WritingKept`).  The cards of a turn and of an undo are recursive functions, and
so are its notes; they are unfolded by the same argument (`CourseUnfolds`,
`NoteCourseUnfolds`, `RestorationsUnfold`, `CollectedUnfolds`: the least length for
which the equations have no solution would have a predecessor with one).  An operation
writes one place (`AppliedIsCard`), so places that no entry names are left alone
(`RestorationsAreLocal`) and a place that one entry names is given back
(`UndoGivesBack`).

`AccountSwitchProofs` proves all six properties for any accounts, any number of switches
and completions and all limits.  `FailuresLimited` counts failures by the time they were
begun, long before they are written; the invariant counts, for every switch under way,
those that will stand against it (`FailuresCounted`), and a failure can be written only
by the one switch under way.  `HostMovesOnlyOpen` follows from `ConfirmationsStand`: a
request waits for the host only while its switch is under way, or after it has ended in
the process that already runs for its target, where moving changes nothing.  A process
the host failed to stop runs for another account than `.env` names; `LeftForOpen` says
that the switch it was to be stopped for is then still under way, and can be ended by
nothing but the process that has yet to be started.

The constants are assumed to be what the modules' `ASSUME`s say: limits and bounds are
natural numbers, `GapRepair` has at least one message, and a turn of `Campaign` is made
of the operations `CardOperation` and `NoteOperation` admit on its card (`IsTurn`).  The
bounds of the runs (`MaxVersion`, `Crashes`, ...) are constants like the others, so
that the theorems hold for every bound.

Out of the provers' reach and left to TLC: liveness under fairness
(`PauseEndsWhenOnline`, `GapsCloseWhenOnline`, `JobEnds`).  Not proved because it is
false: `RepairedIsComplete` with two gaps and the tick, `StableRecovery` after a crash.

## 6. What is not modelled

Argument checks, formatting, OAuth, dashboard, rule search, PDF and Excel parsing,
configuration files.  Steps 9 and 10 of the plan: the restarts of NapCat by the host,
and the walk of the recent synchronisation over several refreshes, of which
`EventCapture` has only the pages it stores and `HistoryBudget` the share of the limiter
and the budget.

In `CollectionControl`, account switching; an error of `get_status` that is none of the
expected ones ends the collector and is a restart.  In `GapRepair`, several groups
sharing one queue, and a crash between two store calls of one handler, except those of
the tick and those that reopen the collection; nor a write of the tick between the check
and the write of a start, a pause or a refused claim of the API, which then writes
`repairing` or `paused` over what the tick had marked.  In `EventCapture`, the watchdog
for a stalled stream (it is in `GapRepair`) and the times of gaps beyond their order
with the messages.  In `Campaign`, the member roles, player names and settings of a
group, each a single write behind the same version check; how paths and values are
validated, but for the bounds of an attribute.  In `GroupAccess`, the list of
candidates, display names, and the version a switch must quote.  In `CardReplace`, the
contents of a sheet; what installing it does to the records is `ReplaceEnds` of
`Campaign`.  In `AccountSwitch`, the breaker: a switch pauses it and a completion
reopens it, as `PauseBegins` and `ResumeEnds` of `CollectionControl` do.

## 7. Where the code departs from its documents

Shown by a run (`findings` in `PROJECT.json` quotes the document):

- `gap_two_gaps`: a gap registered in the middle of a job is marked repaired by pages
  that never reached its messages (`runtime.py:955`; `src/docs/architecture.md:76`).

Stated in the modules and not kept by the code; TLC shows each when it is named in the
configuration given:

- `SentSpacing` (an `INVARIANT` of `MCHistoryBudget.cfg` with `Refreshers = {r1, r2}`,
  `Interval = 2`, `Cooldown = 4`, `Timeout = 3`, `LockWait = 0`, `LegacyTimes = {}`,
  `ClockSteps = FALSE`, `Horizon = 6`): slots are a minute apart, requests need not be,
  and two may be in flight at once, because the slot is stamped before the limiter is
  waited for (`sync.py:106`), each process has its own limiter and the repair loop takes
  none; `src/docs/architecture.md:72` says "每 60 秒最多一页" of all history sources.
- `QuietPeriod` (`PROPERTY`, `MCCollectionControlAdmin.cfg`): an outage a heartbeat
  reports while `get_status` is in flight is overwritten by the older record
  (`runtime.py:1080`), and no new quiet period starts; `src/docs/architecture.md:61`.
- `ManualPauseHolds` (`PROPERTY`, `MCCollectionControlAdmin.cfg`): a store call decided
  before a manual pause overwrites the pause (`sync.py:322`); `src/README.md:20`.
- `UndoSparesLater` (`PROPERTY`, `MCCampaign.cfg`): a later change that wrote the same
  place under another path is no conflict (`store.py:2735`), and the undo of the earlier
  one overwrites it.
- `EventsReopenOnlyTheirOwn` (`PROPERTY`, `MCGroupAccess.cfg`): an event archives also
  over an archiving by hand (`store.py:735`), so the event of the return reopens what
  the administrator had archived; `src/tests/test_store.py:230` says that an event only
  reopens automatic archives.
- `ConfirmedIsPreviewed` (`PROPERTY`, `MCCardReplace.cfg`): a
  confirmation is compared with the last upload of its link and not with what its own
  page showed (`web.py:488`), so it may install a sheet that page never showed;
  `cards.py:555` promises to refuse.

Met while modelling, and exempted by name in the properties:

- `EventCapture`, `unguarded`: messages lie in no gap when a connection replaces one
  whose end was not noticed (`runtime.py:655`), when the collector crashes between the
  end of a session and its gap (`runtime.py:702`), and when the watchdog closes the gap
  although the stream is not back (`runtime.py:1217`); `src/docs/architecture.md:60`.
- `EventCapture`, `passed`: a refresh, or the recovery tick, which stores the newest
  page too (`runtime.py:940`), does so while the end of a connection is not yet
  noticed.  The gap registered afterwards starts at the last message stored
  (`store.py:1166`), which is now on that page, so that what was lost before the page
  lies in no gap; only the walk of later refreshes reaches it, if there is an earlier
  one whose message it walks back to (`sync.py:150`).
- `EventCapture`, `passed`: the watchdog closes the gaps at the time its check began
  (`runtime.py:1218`, the `now` of `runtime.py:1282`), before `get_status` and
  `get_login_info` were answered.  What was lost in between, with a connection that was
  lost and replaced or while QQ was still away, comes after the end of the gap and lies in
  no other.
- `GroupAccess`, `late`: a roleplay switch or a recovery job decided before the group
  was archived lands after it (`store.py:907`, `store.py:1639`), and the tick that had
  taken the group's job up revives the job the archiving cancelled: it writes
  `waiting_budget`, `queued` or `repairing` over it (`runtime.py:914`, `runtime.py:1040`,
  `runtime.py:1017`).
- `CardReplace`, `torn`: a crash, or an archiving by the collector, between the file and
  the row leaves a row that names the old file (`cards.py:575`).  So does every sheet with
  an attribute or a skill out of range: the parser takes it, and `replace_character`
  refuses it (`store.py:2429`) after the file was replaced (`cards.py:576`).
- `AccountSwitch`, `overtaken` and `unrecorded`: a completion that waits for QQ ends a
  switch that was cancelled meanwhile (`runtime.py:1454`), after which no account may be
  active; `mcp_server.py:931-957` promises
  that a cancelled switch leaves the collection paused.  A crash between the request
  file and `host_pending` (`runtime.py:1376`) lets a switch that is then cancelled or
  expires still move the host.
- `Campaign`, `Plain`: an undo sets a removed list element over its successor, and a
  change of a part and then of the whole is not given back (`store.py:2755`).
- `CollectionControl`, with `MaxRestarts = 1`: `StableRecovery` fails after a crash
  between `pause_session` and the write of `session_health` (`runtime.py:1134`), which
  leaves the online record of before the outage.
- `GapRepair`: a page the repair loop has in flight overwrites an acceptance
  (`gaps.py:128`), and so does the tick when it comes between its list of the gaps and
  its write (`runtime.py:942` and `972`, `979` and `1001`, `1059` and `1064`).  The tick
  also writes over a job cancelled since it took it: with what became of the page
  (`runtime.py:1017`, `1040`) or, when the claim that waited for the write lock is
  refused, with `waiting_budget` (`runtime.py:914`).  `AcceptanceHolds` and
  `CancelledStays` name these and say that nothing else does.  A repair start that the
  budget refuses has already cancelled the group's job (`gaps.py:47-55`);
  `OnlyCancelledIsLeft` says that this is the only way to leave gaps `repairing` with
  nobody working on them.

Met while modelling, without a property:

- A resume from a manual pause, or from an active collection, skips the quiet period
  (`runtime.py:1341`); the command line's pause registers no gap (`cli.py:155`), and an
  event between the gap and the pause of `pause_collection` closes the gap again
  (`runtime.py:1330`).
- Two refreshes of one group may be under way, since the cooldown looks at audited
  requests (`store.py:1855`).
- The repair loop uses cursors of an old login until the watchdog recovers the session
  (`gaps.py:82`), takes gaps nobody started by hand (`gaps.py:147`) and asks for history
  in a paused collection.
- A group archived and restored in one login keeps its cancelled job (`store.py:1675`),
  although the page says that recovery is queued (`web.py:138`).
- A gap reported while another is open-ended is joined to it, times ignored
  (`store.py:1204`).
- A probe answered before the account left adds the group as joined (`runtime.py:268`).
- A link is consumed after its page has acted (`web.py:142`, `web.py:495`): two pages of
  one link may both act, and the second is told that the link was used.
- Two changes of one field cannot both be undone, newest first: the undo of the second
  counts as a later change of the field (`store.py:2735`).
- A switch the host could not finish stays `host_pending`: it cannot be cancelled
  (`mcp_server.py:946`), and no other can be begun.
- After a failed or cancelled switch whose service did move, the account that is active
  in the database is the old one, and switching back is refused as already active
  (`store.py:1965`).
- The cooldown of a target counts from the request of the switch that failed and not
  from the failure (`store.py:1984`).
- The script does not recreate the collector, which keeps the old account and takes
  events of the new one for a wrong login.
- The five minutes a completion asks for may be those of the old login
  (`runtime.py:1405`), and an administrator or the watchdog may reopen the collection
  during a switch, which the page says stays paused (`web.py:301-302`).  A confirmation
  that finds an unfinished request file is refused after it has paused the collection
  (`runtime.py:1351`).
