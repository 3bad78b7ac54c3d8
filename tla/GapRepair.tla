----------------------------- MODULE GapRepair -----------------------------
(***************************************************************************)
(* The message gaps of one group and their repair from QQ's history.       *)
(*                                                                         *)
(* Two loops walk the history backwards, a page at a time: the tick of the *)
(* collector, which works for the group's recovery job, and the repair     *)
(* loop of the API, which an administrator starts.  Both write the same    *)
(* gaps.  What a loop read before it asked QQ for a page is kept in `auto` *)
(* and `manual`.                                                           *)
(*                                                                         *)
(* The tick writes what it found in a series of transactions, each a step  *)
(* here: the API, which is another process, and a crash come between any   *)
(* two of them, and the collector's own handlers, which share its thread,  *)
(* do not.                                                                 *)
(*                                                                         *)
(* Messages are numbered as they are sent: the number is the message's     *)
(* time and its place in QQ's history.                                     *)
(***************************************************************************)
EXTENDS Integers, FiniteSetsExt

CONSTANTS
  Messages,       (* bound: messages sent in the group                     *)
  Gaps,           (* bound: gaps 1 .. Gaps may be registered               *)
  PageSize,       (* page_size                                             *)
  Whitelisted,    (* whether the group is; automatic repair requires it    *)
  MaxLogins,      (* bound: logins to QQ                                   *)
  Restarts,       (* bound: whether the processes restart                  *)
  MaxArchivals,   (* bound: times the group is archived or restored        *)
  Administrators  (* bound: what they do about gaps: report, repair        *)

ASSUME GapAssumption ==
  /\ Messages \in Nat \ {0}
  /\ Gaps \in Nat
  /\ PageSize \in Nat \ {0}
  /\ Whitelisted \in BOOLEAN
  /\ MaxLogins \in Nat \ {0}
  /\ Restarts \in BOOLEAN
  /\ MaxArchivals \in Nat
  /\ Administrators \subseteq {"report", "repair"}

VARIABLES
  sent,        (* the messages sent in the group so far: 1 .. sent         *)
  stored,      (* the messages in SQLite                                   *)
  stream,      (* the event stream: on, stalled or off                     *)
  gap,         (* message_gaps                                             *)
  job,         (* the recovery job of the current generation               *)
  session,     (* the QQ login, whether it is online, the breaker's status *)
  auto,        (* the collector's tick and what it read                    *)
  manual,      (* the API's repair loop and what it read                   *)
  archivals    (* bounds the archivals; odd while the group is archived    *)

vars == <<sent, stored, stream, gap, job, session, auto, manual, archivals>>

-----------------------------------------------------------------------------
(* Cursors, pages and boundaries                                           *)

None == 0

(* A cursor is known by the login whose page it comes from.                *)
Cursor(seq, login) == [seq |-> seq, login |-> login]
NoCursor == Cursor(None, None)

Latest(S) == IF S = {} THEN None ELSE Max(S)
Earliest(S) == IF S = {} THEN None ELSE Min(S)

(* get_group_history: the page that ends with the cursor, or the newest.   *)
Page(cursor) ==
  LET top == IF cursor = NoCursor THEN sent ELSE cursor.seq
  IN  {m \in 1 .. top : m > top - PageSize}

(* Mutant: the next page starts a page below the oldest message.           *)
NextCursorSkips(page) ==
  IF page = {} THEN NoCursor ELSE Cursor(Min(page) - PageSize, session.login)

(* oldest_cursor.                                                          *)
NextCursor(page) == IF page = {} THEN NoCursor ELSE Cursor(Min(page), session.login)

(* Mutant: only an empty page ends the history.                            *)
ExhaustsEmpty(page, cursor) == NextCursor(page) = NoCursor

Exhausts(page, cursor) == NextCursor(page) = NoCursor \/ NextCursor(page).seq = cursor.seq

-----------------------------------------------------------------------------
(* Gaps                                                                    *)

NoGap ==
  [status |-> "none", start |-> None, end |-> None, confirmed |-> FALSE,
   before |-> None, after |-> None, cursor |-> NoCursor]

Ids == 1 .. Gaps

Unresolved(g) == gap[g].status \notin {"none", "repaired", "accepted"}

OpenEnded(g) == gap[g].end = None /\ gap[g].status \in {"open", "paused", "repairing"}

Unused == {g \in Ids : gap[g].status = "none"}

(* Bound: a gap can be registered.                                         *)
HasRoom == Unused # {} \/ \E g \in Ids : OpenEnded(g)

(* create_message_gap: an outage joins a gap that is still open.           *)
Registered(start, end, confirmed) ==
  IF \E g \in Ids : OpenEnded(g)
    THEN [g \in Ids |-> IF OpenEnded(g) THEN [gap[g] EXCEPT !.confirmed = @ \/ confirmed]
                        ELSE gap[g]]
    ELSE [gap EXCEPT ![Min(Unused)] =
            [NoGap EXCEPT !.status = "open", !.start = start, !.end = end, !.confirmed = confirmed,
                          !.before = Latest({m \in stored : m <= start}),
                          !.after = IF end = None THEN None
                                    ELSE Earliest({m \in stored : m >= end})]]

(* Mutant: the boundary after the gap is sought from the gap's start.      *)
ClosedFromStart(end, messages) ==
  [g \in Ids |->
     IF gap[g].end = None /\ gap[g].status \in {"open", "paused"}
       THEN [gap[g] EXCEPT !.end = end, !.after = Earliest({m \in messages : m >= gap[g].start})]
       ELSE gap[g]]

(* close_open_message_gaps, `messages` being stored.                       *)
Closed(end, messages) ==
  [g \in Ids |->
     IF gap[g].end = None /\ gap[g].status \in {"open", "paused"}
       THEN [gap[g] EXCEPT !.end = end, !.after = Earliest({m \in messages : m >= end})]
       ELSE gap[g]]

(* refresh_message_gap_boundaries, `messages` being stored.                *)
Refreshed(g, messages) ==
  [gap[g] EXCEPT
     !.before = IF @ = None THEN Latest({m \in messages : m <= gap[g].start}) ELSE @,
     !.after = IF @ = None /\ gap[g].end # None
                 THEN Earliest({m \in messages : m >= gap[g].end}) ELSE @]

(* pause_incomplete_gap_repairs, by the start of either process.           *)
Paused(gaps) ==
  [g \in Ids |-> IF gaps[g].status = "repairing" THEN [gaps[g] EXCEPT !.status = "paused"]
                 ELSE gaps[g]]

(* invalidate_history_cursors_for_new_session.                             *)
Invalidated(gaps) ==
  [g \in Ids |-> IF Unresolved(g) THEN [Paused(gaps)[g] EXCEPT !.cursor = NoCursor] ELSE gaps[g]]

(* The gaps automatic repair works on.                                     *)
Repairable == {g \in Ids : Unresolved(g) /\ gap[g].confirmed /\ gap[g].end # None}

-----------------------------------------------------------------------------
(* Recovery jobs                                                           *)

NoJob == [status |-> "none", cursor |-> NoCursor, seen |-> FALSE, rebased |-> FALSE]

JobActive == job.status \in {"queued", "repairing", "waiting_budget"}

Archived == archivals % 2 = 1

(* Mutant: any job that exists is queued again.                            *)
EnqueuedAnyway(old, needed) ==
  CASE ~needed \/ ~Whitelisted -> old
    [] needed /\ Whitelisted /\ old.status = "none" -> [NoJob EXCEPT !.status = "queued"]
    [] OTHER -> [old EXCEPT !.status = "queued"]

(* enqueue_recovery_jobs, `old` being the job of that generation, if the   *)
(* group has gaps to repair: a job that exists is queued again only if it  *)
(* was complete.                                                           *)
Enqueued(old, needed) ==
  CASE ~needed \/ ~Whitelisted -> old
    [] needed /\ Whitelisted /\ old.status = "none" -> [NoJob EXCEPT !.status = "queued"]
    [] needed /\ Whitelisted /\ old.status = "complete" -> [old EXCEPT !.status = "queued"]
    [] OTHER -> old

CancelledJob ==
  IF JobActive THEN [job EXCEPT !.status = "cancelled", !.cursor = NoCursor] ELSE job

-----------------------------------------------------------------------------
(* What the tick holds: of the job it took (in the end, what the job is to *)
(* become), the page it got, and the gaps it listed and has yet to write.  *)
AutoAt(pc) ==
  [pc |-> pc, cursor |-> NoCursor, seen |-> FALSE, rebased |-> FALSE, page |-> {}, todo |-> {},
   found |-> "none"]

ManualIdle(wake) ==
  [pc |-> "idle", wake |-> wake, gap |-> None, cursor |-> NoCursor, before |-> None, after |-> None]

Init ==
  /\ sent = 1
  /\ stored = {1}
  /\ stream = "on"
  /\ gap = [g \in Ids |-> NoGap]
  /\ job = NoJob
  /\ session = [login |-> 1, online |-> TRUE, control |-> "active"]
  /\ auto = AutoAt("starting")
  /\ manual = ManualIdle(FALSE)
  /\ archivals = 0

Active == session.control = "active"

(* Between two awaits of the tick the collector handles nothing else.      *)
CollectorFree == auto.pc \in {"starting", "idle", "asked"}

-----------------------------------------------------------------------------
(* The event stream                                                        *)

(* An event reaches the collector and is not dropped by a manual pause.    *)
Handled == stream = "on" /\ session.control # "paused_manual"

(* A message is sent; when its event is handled it is stored and, in an    *)
(* active collection, ends the open gaps.                                  *)
MessageSent ==
  /\ sent < Messages
  /\ sent' = sent + 1
  /\ \/ /\ Handled /\ CollectorFree
        /\ stored' = stored \cup {sent'}
        /\ gap' = IF Active THEN Closed(sent', stored') ELSE gap
     \/ /\ ~Handled
        /\ UNCHANGED <<stored, gap>>
  /\ UNCHANGED <<stream, job, session, auto, manual, archivals>>

(* A healthy heartbeat ends the open gaps of an active collection.         *)
Heartbeat ==
  /\ CollectorFree
  /\ stream = "on"
  /\ session.online
  /\ Active
  /\ gap' = Closed(sent + 1, stored)
  /\ UNCHANGED <<sent, stored, stream, job, session, auto, manual, archivals>>

(* Heartbeats stay away: the watchdog registers a suspected outage from    *)
(* the last one on, and does so again as long as they stay away.           *)
StreamStalls ==
  /\ CollectorFree
  /\ stream # "off"
  /\ HasRoom
  /\ \E start \in {sent - 1, sent} \ {0} : gap' = Registered(start, None, FALSE)
  /\ stream' = "stalled"
  /\ UNCHANGED <<sent, stored, job, session, auto, manual, archivals>>

(* The WebSocket is closed, which is a confirmed outage from now on.       *)
StreamBreaks ==
  /\ CollectorFree
  /\ stream # "off"
  /\ HasRoom
  /\ gap' = Registered(sent, None, TRUE)
  /\ stream' = "off"
  /\ UNCHANGED <<sent, stored, job, session, auto, manual, archivals>>

(* A late heartbeat, or a new connection.                                  *)
StreamReturns ==
  /\ CollectorFree
  /\ stream # "on"
  /\ stream' = "on"
  /\ UNCHANGED <<sent, stored, gap, job, session, auto, manual, archivals>>

-----------------------------------------------------------------------------
(* The QQ session                                                          *)

(* QQ goes offline; the watchdog registers the outage and pauses an active *)
(* collection.                                                             *)
LoginLost ==
  /\ CollectorFree
  /\ session.online
  /\ session.login < MaxLogins
  /\ HasRoom
  /\ session' = [session EXCEPT !.online = FALSE, !.control = IF Active THEN "paused_session" ELSE @]
  /\ gap' = Registered(sent, None, TRUE)
  /\ UNCHANGED <<sent, stored, stream, job, auto, manual, archivals>>

LoggedIn ==
  /\ CollectorFree
  /\ ~session.online
  /\ session' = [session EXCEPT !.online = TRUE, !.login = @ + 1]
  /\ UNCHANGED <<sent, stored, stream, gap, job, auto, manual, archivals>>

(* The watchdog verified the account of a stable session: the collection   *)
(* is active, its gaps end, the cursors of the old login are dropped and   *)
(* the job of a new generation is queued.                                  *)
SessionRecovered ==
  /\ session.control = "paused_session"
  /\ session.online
  /\ auto.pc \in {"starting", "idle"}
  /\ session' = [session EXCEPT !.control = "active"]
  /\ gap' = Invalidated(Closed(sent + 1, stored))
  /\ job' = IF Archived THEN NoJob ELSE Enqueued(NoJob, Repairable' # {})
  /\ UNCHANGED <<sent, stored, stream, auto, manual, archivals>>

(* An administrator pauses the collection, and resumes it: the account is  *)
(* verified, and that is all.                                              *)
CollectionPaused ==
  /\ session.control # "paused_manual"
  /\ HasRoom
  /\ gap' = Registered(sent, None, TRUE)
  /\ session' = [session EXCEPT !.control = "paused_manual"]
  /\ UNCHANGED <<sent, stored, stream, job, auto, manual, archivals>>

CollectionResumed ==
  /\ session.control = "paused_manual"
  /\ session' = [session EXCEPT !.control = IF session.online THEN "active" ELSE "paused_session"]
  /\ UNCHANGED <<sent, stored, stream, gap, job, auto, manual, archivals>>

-----------------------------------------------------------------------------
(* The collector's tick                                                    *)

MayTick == session.online /\ Active /\ ~Archived

(* The first tick of a process queues a job for the gaps it finds.         *)
AutoStarts ==
  /\ auto.pc = "starting"
  /\ session.online /\ Active
  /\ auto' = AutoAt("idle")
  /\ job' = IF Archived THEN job ELSE Enqueued(job, Repairable # {})
  /\ UNCHANGED <<sent, stored, stream, gap, session, manual, archivals>>

(* next_recovery_job.                                                      *)
AutoPicks ==
  /\ auto.pc = "idle"
  /\ MayTick
  /\ JobActive
  /\ auto' = [AutoAt("picked") EXCEPT !.cursor = job.cursor, !.seen = job.seen,
                                      !.rebased = job.rebased]
  /\ UNCHANGED <<sent, stored, stream, gap, job, session, manual, archivals>>

(* The group was archived after the job was read.                          *)
AutoDrops ==
  /\ auto.pc = "picked"
  /\ Archived
  /\ job' = [job EXCEPT !.status = "cancelled", !.cursor = NoCursor]
  /\ auto' = AutoAt("idle")
  /\ UNCHANGED <<sent, stored, stream, gap, session, manual, archivals>>

(* The claim, which may wait for the write lock, is granted: a page is     *)
(* asked for.                                                              *)
AutoAsks ==
  /\ auto.pc = "picked"
  /\ auto' = [auto EXCEPT !.pc = "asked"]
  /\ UNCHANGED <<sent, stored, stream, gap, job, session, manual, archivals>>

(* The claim is refused; the job waits, whatever became of it since.       *)
AutoWaits ==
  /\ auto.pc = "picked"
  /\ job' = [job EXCEPT !.status = "waiting_budget", !.cursor = auto.cursor]
  /\ auto' = AutoAt("idle")
  /\ UNCHANGED <<sent, stored, stream, gap, session, manual, archivals>>

(* after_seen: a newest page reaches beyond the end of every gap.          *)
Seen(page) ==
  \/ auto.seen
  \/ /\ auto.cursor = NoCursor
     /\ page # {}
     /\ Latest(page) >= Latest({gap[g].end : g \in Repairable})

(* The page proves that nothing is missing from the gap.                   *)
Proves(page, g) == g.before # None /\ g.after # None /\ g.before \in page

(* The page arrives and is stored, and the gaps are listed.                *)
AutoLists ==
  LET page == Page(auto.cursor) IN
  /\ auto.pc = "asked"
  /\ session.online
  /\ stored' = stored \cup page
  /\ auto' = [auto EXCEPT !.pc = "marking", !.page = page, !.seen = Seen(page), !.todo = Repairable]
  /\ UNCHANGED <<sent, stream, gap, job, session, manual, archivals>>

(* One gap of the list is written: it is repaired if its boundaries were   *)
(* seen, and being repaired otherwise.                                     *)
AutoMarks(g) ==
  LET fresh == Refreshed(g, stored) IN
  /\ auto.pc = "marking"
  /\ g \in auto.todo
  /\ auto' = [auto EXCEPT !.todo = @ \ {g}]
  /\ gap' = [gap EXCEPT ![g] =
       [fresh EXCEPT !.status = IF auto.seen /\ Proves(auto.page, fresh) THEN "repaired"
                                ELSE "repairing",
                     !.cursor = NoCursor]]
  /\ UNCHANGED <<sent, stored, stream, job, session, manual, archivals>>

(* The gaps are listed once more: are any left, and is there more history? *)
AutoReviews ==
  LET found == CASE Repairable = {} -> "complete"
                 [] Repairable # {} /\ Exhausts(auto.page, auto.cursor) -> "unverified"
                 [] OTHER -> "repairing"
  IN
  /\ auto.pc = "marking"
  /\ auto.todo = {}
  /\ auto' = [AutoAt("ending") EXCEPT
                !.found = found, !.seen = auto.seen,
                !.cursor = IF found = "repairing" THEN NextCursor(auto.page) ELSE NoCursor,
                !.todo = IF found = "unverified" THEN Repairable ELSE {}]
  /\ UNCHANGED <<sent, stored, stream, gap, job, session, manual, archivals>>

(* The history is exhausted: one of the gaps left is given up.             *)
AutoGivesUp(g) ==
  /\ auto.pc = "ending"
  /\ g \in auto.todo
  /\ auto' = [auto EXCEPT !.todo = @ \ {g}]
  /\ gap' = [gap EXCEPT ![g].status = "unverified", ![g].cursor = NoCursor]
  /\ UNCHANGED <<sent, stored, stream, job, session, manual, archivals>>

(* The job is written, whatever became of it while the page was awaited.   *)
AutoEnds ==
  /\ auto.pc = "ending"
  /\ auto.todo = {}
  /\ auto' = AutoAt("idle")
  /\ job' = [job EXCEPT !.status = auto.found, !.seen = auto.seen, !.cursor = auto.cursor]
  /\ UNCHANGED <<sent, stored, stream, gap, session, manual, archivals>>

(* QQ does not know the cursor, which is given up once.                    *)
AutoRebases ==
  /\ auto.pc = "asked"
  /\ session.online
  /\ auto.cursor # NoCursor
  /\ ~auto.rebased
  /\ auto' = AutoAt("idle")
  /\ job' = [job EXCEPT !.status = "queued", !.cursor = NoCursor, !.rebased = TRUE]
  /\ UNCHANGED <<sent, stored, stream, gap, session, manual, archivals>>

(* The request fails: the job is paused and the gaps are listed, ...       *)
AutoFails ==
  /\ auto.pc = "asked"
  /\ auto' = [AutoAt("failing") EXCEPT !.todo = Repairable]
  /\ job' = [job EXCEPT !.status = "paused_error", !.cursor = NoCursor]
  /\ UNCHANGED <<sent, stored, stream, gap, session, manual, archivals>>

(* ... then paused one by one ...                                          *)
AutoPauses(g) ==
  /\ auto.pc = "failing"
  /\ g \in auto.todo
  /\ auto' = [auto EXCEPT !.todo = @ \ {g}]
  /\ gap' = [gap EXCEPT ![g].status = "paused", ![g].cursor = NoCursor]
  /\ UNCHANGED <<sent, stored, stream, job, session, manual, archivals>>

(* ... and a session error pauses the collection.                          *)
AutoStops ==
  /\ auto.pc = "failing"
  /\ auto.todo = {}
  /\ auto' = AutoAt("idle")
  /\ session' = IF session.online THEN session ELSE [session EXCEPT !.control = "paused_session"]
  /\ UNCHANGED <<sent, stored, stream, gap, job, manual, archivals>>

-----------------------------------------------------------------------------
(* The API's repair loop                                                   *)

(* Mutant: a repair of an accepted gap may be started.                     *)
StartAllowedAccepted(g) == gap[g].end # None /\ gap[g].status \notin {"none", "repaired"}

(* Mutant: a repair may be started before the gap has ended.               *)
StartAllowedEarly(g) == gap[g].status \notin {"none", "repaired", "accepted"}

StartAllowed(g) == gap[g].end # None /\ Unresolved(g)

(* An administrator reports that messages of some time may be missing.     *)
GapReported(start, end) ==
  /\ "report" \in Administrators
  /\ HasRoom
  /\ gap' = Registered(start, end, FALSE)
  /\ UNCHANGED <<sent, stored, stream, job, session, auto, manual, archivals>>

(* start or resume by an administrator; active jobs are cancelled.         *)
RepairStarted(g) ==
  /\ "repair" \in Administrators
  /\ StartAllowed(g)
  /\ gap' = [gap EXCEPT ![g] = [Refreshed(g, stored) EXCEPT !.status = "repairing"]]
  /\ job' = CancelledJob
  /\ manual' = [manual EXCEPT !.wake = TRUE]
  /\ UNCHANGED <<sent, stored, stream, session, auto, archivals>>

(* The gap may not be repaired or, after the jobs are cancelled, today's   *)
(* budget is used up.                                                      *)
RepairRefused(g) ==
  /\ "repair" \in Administrators
  /\ gap[g].status # "none"
  /\ gap' = [gap EXCEPT ![g] = Refreshed(g, stored)]
  /\ job' = IF StartAllowed(g) THEN CancelledJob ELSE job
  /\ UNCHANGED <<sent, stored, stream, session, auto, manual, archivals>>

RepairPaused(g) ==
  /\ "repair" \in Administrators
  /\ gap[g].status = "repairing"
  /\ gap' = [gap EXCEPT ![g].status = "paused"]
  /\ UNCHANGED <<sent, stored, stream, job, session, auto, manual, archivals>>

(* accept_message_gap.                                                     *)
GapAccepted(g) ==
  /\ "repair" \in Administrators
  /\ gap[g].status \notin {"none", "repaired", "accepted"}
  /\ gap' = [gap EXCEPT ![g].status = "accepted"]
  /\ UNCHANGED <<sent, stored, stream, job, session, auto, manual, archivals>>

Repairing == {g \in Ids : gap[g].status = "repairing"}

(* run_forever finds nothing to repair.                                    *)
ManualSleeps ==
  /\ manual.pc = "idle"
  /\ manual.wake
  /\ Repairing = {}
  /\ manual' = ManualIdle(FALSE)
  /\ UNCHANGED <<sent, stored, stream, gap, job, session, auto, archivals>>

(* run_forever takes the latest gap: the page that ends with its cursor,   *)
(* else with the message after the gap, else the newest is wanted.         *)
IsNext(g) == g \in Repairing /\ \A h \in Repairing : gap[h].start <= gap[g].start

Wanted(g) ==
  IF g.cursor = NoCursor /\ g.after # None THEN Cursor(g.after, session.login) ELSE g.cursor

(* The claim is granted.                                                   *)
ManualAsks ==
  /\ manual.pc = "idle"
  /\ manual.wake
  /\ \E g \in Ids :
       LET fresh == Refreshed(g, stored) IN
       /\ IsNext(g)
       /\ gap' = [gap EXCEPT ![g] = fresh]
       /\ manual' = [pc |-> "asked", wake |-> TRUE, gap |-> g, cursor |-> Wanted(fresh),
                     before |-> fresh.before, after |-> fresh.after]
  /\ UNCHANGED <<sent, stored, stream, job, session, auto, archivals>>

(* The claim is refused; the gap keeps the cursor.                         *)
ManualWaits ==
  /\ manual.pc = "idle"
  /\ manual.wake
  /\ \E g \in Ids :
       LET fresh == Refreshed(g, stored) IN
       /\ IsNext(g)
       /\ gap' = [gap EXCEPT ![g] = [fresh EXCEPT !.cursor = Wanted(fresh)]]
  /\ UNCHANGED <<sent, stored, stream, job, session, auto, manual, archivals>>

(* The page arrives; what it means is decided with what was read before.   *)
ManualAnswered ==
  LET page == Page(manual.cursor)
      status == CASE Proves(page, manual) -> "repaired"
                  [] ~Proves(page, manual) /\ Exhausts(page, manual.cursor) -> "unverified"
                  [] OTHER -> "repairing"
  IN
  /\ manual.pc = "asked"
  /\ session.online
  /\ stored' = stored \cup page
  /\ gap' = [gap EXCEPT ![manual.gap].status = status,
                        ![manual.gap].cursor = IF status = "repairing" THEN NextCursor(page)
                                               ELSE NoCursor]
  /\ manual' = ManualIdle(TRUE)
  /\ UNCHANGED <<sent, stream, job, session, auto, archivals>>

ManualFails ==
  /\ manual.pc = "asked"
  /\ gap' = [gap EXCEPT ![manual.gap].status = "paused", ![manual.gap].cursor = manual.cursor]
  /\ manual' = ManualIdle(TRUE)
  /\ UNCHANGED <<sent, stored, stream, job, session, auto, archivals>>

-----------------------------------------------------------------------------
(* Archiving and restarts                                                  *)

GroupArchived ==
  /\ ~Archived
  /\ archivals < MaxArchivals
  /\ archivals' = archivals + 1
  /\ job' = CancelledJob
  /\ UNCHANGED <<sent, stored, stream, gap, session, auto, manual>>

(* A restored group is queued again.                                       *)
GroupRestored ==
  /\ Archived
  /\ archivals' = archivals + 1
  /\ job' = Enqueued(job, Repairable # {})
  /\ UNCHANGED <<sent, stored, stream, gap, session, auto, manual>>

(* Mutant: the incomplete repairs are not paused by a restart.             *)
ApiRestartsUnpaused ==
  /\ Restarts
  /\ manual' = ManualIdle(FALSE)
  /\ UNCHANGED <<sent, stored, stream, gap, job, session, auto, archivals>>

(* Either process pauses the incomplete repairs when it starts.            *)
ApiRestarts ==
  /\ Restarts
  /\ gap' = Paused(gap)
  /\ manual' = ManualIdle(FALSE)
  /\ UNCHANGED <<sent, stored, stream, job, session, auto, archivals>>

(* The collector registers an event session that was not ended as a        *)
(* suspected outage since its last heartbeat.  If it died while it         *)
(* reopened the collection, that is all it did.                            *)
CollectorRestarts ==
  /\ Restarts
  /\ \/ /\ stream # "off" /\ HasRoom
        /\ \E start \in {sent - 1, sent} \ {0} : gap' = Paused(Registered(start, None, FALSE))
     \/ /\ stream = "off"
        /\ gap' = Paused(gap)
  /\ stream' = "off"
  /\ auto' = AutoAt("starting")
  /\ \/ session' = session
     \/ /\ session.control = "paused_session" /\ session.online
        /\ session' = [session EXCEPT !.control = "active"]
  /\ UNCHANGED <<sent, stored, job, manual, archivals>>

Next ==
  \/ MessageSent
  \/ Heartbeat
  \/ StreamStalls
  \/ StreamBreaks
  \/ StreamReturns
  \/ LoginLost
  \/ LoggedIn
  \/ SessionRecovered
  \/ CollectionPaused
  \/ CollectionResumed
  \/ AutoStarts
  \/ AutoPicks
  \/ AutoDrops
  \/ AutoAsks
  \/ AutoWaits
  \/ AutoLists
  \/ \E g \in Ids : AutoMarks(g) \/ AutoGivesUp(g) \/ AutoPauses(g)
  \/ AutoReviews
  \/ AutoEnds
  \/ AutoRebases
  \/ AutoFails
  \/ AutoStops
  \/ \E start, end \in 1 .. sent : start <= end /\ GapReported(start, end)
  \/ \E g \in Ids : RepairStarted(g) \/ RepairRefused(g) \/ RepairPaused(g) \/ GapAccepted(g)
  \/ ManualSleeps
  \/ ManualAsks
  \/ ManualWaits
  \/ ManualAnswered
  \/ ManualFails
  \/ GroupArchived
  \/ GroupRestored
  \/ ApiRestarts
  \/ CollectorRestarts

Spec == Init /\ [][Next]_vars

AutoWrites ==
  \/ \E g \in Ids : AutoMarks(g) \/ AutoGivesUp(g) \/ AutoPauses(g)
  \/ AutoReviews
  \/ AutoEnds
  \/ AutoStops

(* The tick runs every minute and carries its stretch of writes to the     *)
(* end, a request ends in an answer or a timeout, and a budget that        *)
(* refuses a claim promises a time at which it grants.                     *)
Fairness ==
  /\ WF_vars(AutoStarts)
  /\ WF_vars(AutoPicks)
  /\ SF_vars(AutoAsks)
  /\ WF_vars(AutoLists \/ AutoRebases \/ AutoFails)
  /\ WF_vars(AutoWrites)

FairSpec == Spec /\ Fairness

-----------------------------------------------------------------------------
(* Properties                                                              *)

CursorType == [seq : 0 .. Messages, login : 0 .. MaxLogins]

GapType ==
  [status : {"none", "open", "paused", "repairing", "repaired", "unverified", "accepted"},
   start : 0 .. Messages, end : 0 .. Messages + 1, confirmed : BOOLEAN,
   before : 0 .. Messages, after : 0 .. Messages, cursor : CursorType]

JobType ==
  [status : {"none", "queued", "repairing", "waiting_budget", "paused_error", "complete",
             "unverified", "cancelled"},
   cursor : CursorType, seen : BOOLEAN, rebased : BOOLEAN]

SessionType ==
  [login : 1 .. MaxLogins, online : BOOLEAN,
   control : {"active", "paused_session", "paused_manual"}]

AutoType ==
  [pc : {"starting", "idle", "picked", "asked", "marking", "ending", "failing"},
   cursor : CursorType, seen : BOOLEAN, rebased : BOOLEAN, page : SUBSET (1 .. Messages),
   todo : SUBSET Ids, found : {"none", "complete", "unverified", "repairing"}]

ManualType ==
  [pc : {"idle", "asked"}, wake : BOOLEAN, gap : 0 .. Gaps, cursor : CursorType,
   before : 0 .. Messages, after : 0 .. Messages]

(* Every row and every coroutine is in a state of its type.                *)
TypeOK ==
  /\ sent \in 0 .. Messages
  /\ stored \in SUBSET (1 .. sent)
  /\ stream \in {"on", "stalled", "off"}
  /\ gap \in [Ids -> GapType]
  /\ job \in JobType
  /\ session \in SessionType
  /\ auto \in AutoType
  /\ manual \in ManualType
  /\ archivals \in 0 .. MaxArchivals + 1

(* A gap marked repaired has no hole: every message sent in it is stored,  *)
(* whichever loops walked the history, and however their pages, new logins *)
(* and lost cursors interleaved.                                           *)
RepairedIsComplete ==
  \A g \in Ids : gap[g].status = "repaired" => gap[g].start + 1 .. gap[g].end - 1 \subseteq stored

(* The tick has taken the job.                                             *)
Ticking == auto.pc \notin {"starting", "idle"}

WorkedOn == JobActive \/ Ticking \/ manual.wake

(* A gap under repair that no loop works on, no page in flight and the     *)
(* repair loop asleep, was left by a job that was cancelled: not by a      *)
(* restart, a failure, a new login or a pause.                             *)
OnlyCancelledIsLeft == Repairing # {} /\ ~WorkedOn => job.status = "cancelled"

(* An accepted gap stays accepted, whatever either loop is doing, unless   *)
(* the page that the repair loop asked for on its behalf was in flight, or *)
(* the tick had listed it and not written it yet.                          *)
AcceptanceHolds ==
  [][ \A g \in Ids : gap[g].status = "accepted" /\ gap'[g].status # "accepted"
        => \/ manual.pc = "asked" /\ manual.gap = g /\ manual'.pc = "idle"
           \/ g \in auto.todo \ auto'.todo ]_vars

(* A job that was cancelled stays so in this login, unless the tick had    *)
(* taken it before: it claims a slot of the budget, asks and writes.       *)
CancelledStays ==
  [][ job.status = "cancelled" /\ job'.status # "cancelled"
        => \/ Ticking /\ auto'.pc # auto.pc
           \/ SessionRecovered ]_vars

(* At most one gap is open-ended at a time, so that the event that ends an *)
(* outage ends the only one.                                               *)
OneOpenGap == \A g, h \in Ids : OpenEnded(g) /\ OpenEnded(h) => g = h

StaysActive == <>[]MayTick

(* In an active collection that stays online an active job ends.           *)
JobEnds == StaysActive => [](JobActive => <>~JobActive)
=============================================================================
