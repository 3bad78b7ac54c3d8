---------------------------- MODULE GroupAccess -----------------------------
(***************************************************************************)
(* One QQ group as the administrator and QQ itself see it: whether the AI  *)
(* may read it, whether it is archived and by whom, whether roleplay is    *)
(* switched on, and whether its missing history is being recovered.        *)
(*                                                                         *)
(* Two processes write the row.  The API process serves the one-time       *)
(* access pages and the roleplay switch; it awaits the form of a page and  *)
(* the answers of QQ, and does everything else without an await, but in    *)
(* one transaction after the other (`api`).  The collector handles the     *)
(* events about the account's own membership (`collector`) and fetches     *)
(* the history of the group's job page by page (`tick`).  Each decides by  *)
(* what it read before the transaction it writes in.                       *)
(*                                                                         *)
(* The version a switch must quote is left out: Campaign has it.           *)
(***************************************************************************)
EXTENDS Naturals, Sequences, FiniteSets

CONSTANTS
  Links,       (* the access links that have been handed out               *)
  Pages,       (* the browser pages that may be submitted at one time      *)
  Departures,  (* the ways the account is seen to leave the group          *)
  MaxWire      (* bound: events that wait for the collector                *)

ASSUME GroupAccessAssumption ==
  /\ MaxWire \in Nat
  /\ Departures \subseteq {"leave", "kick_me", "disband", "unclear"}

Actions == {"add", "remove", "archive", "restore"}

Events == Departures \cup {"increase", "message"}

VARIABLES
  group,       (* the row of groups                                        *)
  job,         (* the recovery job of this login; "cancelled" stands for   *)
               (* every end after which it is not queued again             *)
  gap,         (* the group has a confirmed gap to recover                 *)
  seen,        (* group_candidates: an event of the group came last        *)
  inGroup,     (* QQ: the account is a member                              *)
  wire,        (* events on their way to the collector                     *)
  spent,       (* the links that are consumed or have expired              *)
  page,        (* the submitted pages                                      *)
  api,         (* what the API process is in the middle of                 *)
  collector,   (* what the collector is in the middle of                   *)
  tick,        (* the automatic recovery has taken the job up              *)
  byHand,      (* history: whether the administrator's own archiving       *)
               (* stands, or an event archived the group over it           *)
  late         (* history: a write decided before the archiving came after *)

vars == <<group, job, gap, seen, inGroup, wire, spent, page, api, collector, tick, byHand, late>>

Idle == [step |-> "idle"]
NoPage == [step |-> "none"]

Init ==
  /\ group \in [whitelisted : {FALSE}, archived : {FALSE}, source : {"none"},
                roleplay : {FALSE}, membership : {"joined"}]
  /\ job = "none"
  /\ gap \in BOOLEAN
  /\ seen = FALSE
  /\ inGroup \in BOOLEAN
  /\ wire = <<>>
  /\ spent = {}
  /\ page = [p \in Pages |-> NoPage]
  /\ api = Idle
  /\ collector = Idle
  /\ tick = FALSE
  /\ byHand = "no"
  /\ late = FALSE

-----------------------------------------------------------------------------
(* The transactions both processes share                                   *)

(* Mutant: roleplay stays on.                                              *)
ArchivedPlaying(g, source) == [g EXCEPT !.archived = TRUE, !.source = source]

(* Archiving switches roleplay off ...                                     *)
Archived(g, source) ==
  [g EXCEPT !.archived = TRUE, !.source = source, !.roleplay = FALSE]

(* ... and cancels the recovery.                                           *)
CancelledJob == IF job = "active" THEN "cancelled" ELSE job

Reopened(g) == [g EXCEPT !.archived = FALSE, !.source = "none"]

(* Mutant: the source of the archiving is left behind.                     *)
AdmittedCarelessly(g) ==
  [g EXCEPT !.whitelisted = TRUE, !.archived = FALSE, !.membership = "joined"]

(* Mutant: a group that is admitted again stays archived.                  *)
AdmittedArchived(g) == [g EXCEPT !.whitelisted = TRUE, !.membership = "joined"]

(* whitelist_group.                                                        *)
Admitted(g) == [Reopened(g) EXCEPT !.whitelisted = TRUE, !.membership = "joined"]

(* The groups enqueue_recovery_jobs selects, before its first write.       *)
Wanted == group.whitelisted /\ ~group.archived /\ gap

(* What it writes: a job of this login that was cancelled stays cancelled. *)
Queued(wanted) == IF wanted /\ job \in {"none", "complete"} THEN "active" ELSE job

-----------------------------------------------------------------------------
(* QQ and the event stream                                                 *)

Sends(e) == Len(wire) < MaxWire /\ wire' = Append(wire, e)

QQDeparts ==
  /\ inGroup
  /\ inGroup' = FALSE
  /\ \E e \in Departures : Sends(e)
  /\ UNCHANGED <<group, job, gap, seen, spent, page, api, collector, tick, byHand,
                 late>>

QQReturns ==
  /\ ~inGroup
  /\ inGroup' = TRUE
  /\ Sends("increase")
  /\ UNCHANGED <<group, job, gap, seen, spent, page, api, collector, tick, byHand,
                 late>>

QQMessage ==
  /\ inGroup
  /\ Sends("message")
  /\ UNCHANGED <<group, job, gap, seen, inGroup, spent, page, api, collector, tick,
                 byHand, late>>

(* The collector dies, or its connection breaks: events are lost.          *)
EventsLost ==
  /\ wire # <<>> \/ collector # Idle \/ tick
  /\ wire' = <<>>
  /\ collector' = Idle
  /\ tick' \in {tick, FALSE}
  /\ UNCHANGED <<group, job, gap, seen, inGroup, spent, page, api, byHand, late>>

(* A gap is registered or ends (GapRepair), or the administrator starts to *)
(* repair it by hand, which cancels the job whatever the group is.         *)
GapChanges ==
  /\ \/ gap' = ~gap /\ UNCHANGED job
     \/ gap /\ job' = CancelledJob /\ UNCHANGED gap
  /\ UNCHANGED <<group, seen, inGroup, wire, spent, page, api, collector, tick,
                 byHand, late>>

-----------------------------------------------------------------------------
(* The collector                                                           *)

(* Mutant: any archiving ends when the account is back.                    *)
ReopensAny(g) == g.whitelisted /\ g.archived

(* Only what an event archived is reopened by an event.                    *)
Reopens(g) == g.whitelisted /\ g.archived /\ g.source = "membership_event"

(* handle_event up to what update_group_membership reads.                  *)
EventRead ==
  LET e == Head(wire) IN
  /\ collector = Idle
  /\ wire # <<>>
  /\ wire' = Tail(wire)
  /\ seen' = (e \notin Departures)
  /\ collector' = IF e = "message" THEN Idle
                  ELSE [step |-> "membership", event |-> e,
                        listed |-> group.whitelisted, reopens |-> Reopens(group)]
  /\ UNCHANGED <<group, job, gap, inGroup, spent, page, api, tick, byHand, late>>

MembershipAfter(e) ==
  CASE e = "increase" -> "joined"
    [] e = "leave" -> "left"
    [] e = "kick_me" -> "kicked"
    [] e = "disband" -> "disbanded"
    [] e = "unclear" -> "uncertain"

Explicit(e) == e \in {"leave", "kick_me", "disband"}

(* update_group_membership.                                                *)
MembershipWritten ==
  LET e == collector.event
      now == [group EXCEPT !.membership = MembershipAfter(e)]
  IN
  /\ collector.step = "membership"
  /\ IF Explicit(e) /\ collector.listed
       THEN /\ group' = Archived(now, "membership_event")
            /\ job' = CancelledJob
            /\ late' = FALSE
       ELSE /\ group' = IF e = "increase" /\ collector.reopens THEN Reopened(now) ELSE now
            /\ UNCHANGED <<job, late>>
  /\ byHand' = IF byHand = "stands" /\ Explicit(e) /\ collector.listed THEN "over" ELSE byHand
  /\ collector' = IF e = "increase" THEN [step |-> "recover"] ELSE Idle
  /\ UNCHANGED <<gap, seen, inGroup, wire, spent, page, api, tick>>

(* A group the account is back in is recovered, unless it is archived.     *)
RecoveryRead ==
  /\ collector.step = "recover"
  /\ collector' = [step |-> "queue", wanted |-> Wanted]
  /\ UNCHANGED <<group, job, gap, seen, inGroup, wire, spent, page, api, tick, byHand,
                 late>>

RecoveryQueued ==
  /\ collector.step = "queue"
  /\ job' = Queued(collector.wanted)
  /\ late' = (late \/ (collector.wanted /\ group.archived))
  /\ collector' = Idle
  /\ UNCHANGED <<group, gap, seen, inGroup, wire, spent, page, api, tick, byHand>>

(* The watchdog recovers the session after a new login, which has a job of *)
(* its own (what is still to be written to the earlier login's is not      *)
(* seen here); or the first tick of a new process recovers the same login. *)
Recovers ==
  /\ collector = Idle
  /\ \/ job' = "none" /\ tick' = FALSE
     \/ UNCHANGED <<job, tick>>
  /\ collector' = [step |-> "recover"]
  /\ UNCHANGED <<group, gap, seen, inGroup, wire, spent, page, api, byHand, late>>

(* The automatic recovery takes up the job of a group that is neither      *)
(* archived nor removed ...                                                *)
TickPicks ==
  /\ collector = Idle
  /\ ~tick
  /\ job = "active"
  /\ group.whitelisted
  /\ ~group.archived
  /\ tick' = TRUE
  /\ UNCHANGED <<group, job, gap, seen, inGroup, wire, spent, page, api, collector,
                 byHand, late>>

(* ... and writes what became of it, after the wait for the write lock of  *)
(* the budget or for QQ's page, without another look at the group or the   *)
(* job: "active" for waiting_budget, queued (again from the newest page)   *)
(* and repairing, "cancelled" for paused_error and unverified as well.     *)
TickWrites ==
  /\ collector = Idle
  /\ tick
  /\ \/ /\ job' \in {"active", "cancelled"}
        /\ late' = (late \/ (job' = "active" /\ group.archived))
        /\ UNCHANGED gap
     \/ job' = "complete" /\ gap' = FALSE /\ UNCHANGED late
  /\ tick' = FALSE
  /\ UNCHANGED <<group, seen, inGroup, wire, spent, page, api, collector, byHand>>

-----------------------------------------------------------------------------
(* The pages of the API process                                            *)

(* MessageStore.capability.                                                *)
Valid(l) == l \notin spent

(* The link is checked, then the form is awaited.                          *)
Opens(p, l) ==
  /\ api = Idle
  /\ page[p] = NoPage
  /\ Valid(l)
  /\ \E a \in Actions : page' = [page EXCEPT ![p] = [step |-> "form", link |-> l, action |-> a]]
  /\ UNCHANGED <<group, job, gap, seen, inGroup, wire, spent, api, collector, tick,
                 byHand, late>>

(* The page is answered with an error.                                     *)
Fails(p) ==
  /\ page' = [page EXCEPT ![p] = NoPage]
  /\ UNCHANGED <<group, job, gap, inGroup, wire, spent, api, collector, tick, byHand,
                 late>>

(* probe_group: a candidate known by its own events needs no question.     *)
Adds(p) ==
  /\ api = Idle
  /\ page[p].step = "form"
  /\ page[p].action = "add"
  /\ IF seen
       THEN api' = [step |-> "add", page |-> p] /\ UNCHANGED page
       ELSE page' = [page EXCEPT ![p].step = "asked"] /\ UNCHANGED api
  /\ UNCHANGED <<group, job, gap, seen, inGroup, wire, spent, collector, tick, byHand,
                 late>>

(* QQ answers the probe by what holds now; the answer arrives later.       *)
QQAnswers(p) ==
  /\ page[p].step = "asked"
  /\ page' = [page EXCEPT ![p].step = IF inGroup THEN "member" ELSE "stranger"]
  /\ UNCHANGED <<group, job, gap, seen, inGroup, wire, spent, api, collector, tick,
                 byHand, late>>

ProbeAnswered(p) ==
  /\ api = Idle
  /\ page[p].step = "member"
  /\ seen' = FALSE
  /\ api' = [step |-> "add", page |-> p]
  /\ UNCHANGED <<group, job, gap, inGroup, wire, spent, page, collector, tick, byHand,
                 late>>

(* The account is not in the group, the request fails, or the collection   *)
(* is paused.                                                              *)
ProbeFails(p) ==
  /\ api = Idle
  /\ page[p].step \in {"asked", "member", "stranger"}
  /\ seen' = (seen /\ page[p].step # "stranger")
  /\ Fails(p)

(* The other actions first read the group, which must be whitelisted.      *)
Submits(p) ==
  /\ api = Idle
  /\ page[p].step = "form"
  /\ page[p].action # "add"
  /\ IF group.whitelisted
       THEN /\ api' = [step |-> page[p].action, page |-> p]
            /\ UNCHANGED <<group, job, gap, seen, inGroup, wire, spent, page,
                           collector, tick, byHand, late>>
       ELSE Fails(p) /\ UNCHANGED seen

AddWritten ==
  /\ api.step = "add"
  /\ group' = Admitted(group)
  /\ byHand' = "no"
  /\ late' = FALSE
  /\ api' = [step |-> "consume", page |-> api.page]
  /\ UNCHANGED <<job, gap, seen, inGroup, wire, spent, page, collector, tick>>

RemoveWritten ==
  /\ api.step = "remove"
  /\ group' = [group EXCEPT !.whitelisted = FALSE, !.roleplay = FALSE]
  /\ api' = [step |-> "consume", page |-> api.page]
  /\ UNCHANGED <<job, gap, seen, inGroup, wire, spent, page, collector, tick, byHand,
                 late>>

(* set_group_archived.  An event that is being handled decided before.     *)
ArchiveWritten ==
  /\ api.step = "archive"
  /\ group' = Archived(group, "manual")
  /\ job' = CancelledJob
  /\ byHand' = IF collector.step = "membership" THEN "no" ELSE "stands"
  /\ late' = FALSE
  /\ api' = [step |-> "consume", page |-> api.page]
  /\ UNCHANGED <<gap, seen, inGroup, wire, spent, page, collector, tick>>

RestoreWritten ==
  /\ api.step = "restore"
  /\ group' = Reopened(group)
  /\ byHand' = "no"
  /\ late' = FALSE
  /\ api' = [step |-> "recover", page |-> api.page]
  /\ UNCHANGED <<job, gap, seen, inGroup, wire, spent, page, collector, tick>>

RestoreRead ==
  /\ api.step = "recover"
  /\ api' = [step |-> "queue", page |-> api.page, wanted |-> Wanted]
  /\ UNCHANGED <<group, job, gap, seen, inGroup, wire, spent, page, collector, tick,
                 byHand, late>>

RestoreQueued ==
  /\ api.step = "queue"
  /\ job' = Queued(api.wanted)
  /\ late' = (late \/ (api.wanted /\ group.archived))
  /\ api' = [step |-> "consume", page |-> api.page]
  /\ UNCHANGED <<group, gap, seen, inGroup, wire, spent, page, collector, tick,
                 byHand>>

(* The link is consumed last; if it is no longer valid the page answers    *)
(* with an error, although it acted.                                       *)
Consumed ==
  /\ api.step = "consume"
  /\ page' = [page EXCEPT ![api.page] = NoPage]
  /\ api' = Idle
  /\ spent' = spent \cup {page[api.page].link}
  /\ UNCHANGED <<group, job, gap, seen, inGroup, wire, collector, tick, byHand, late>>

LinkExpires ==
  /\ \E l \in Links \ spent : spent' = spent \cup {l}
  /\ UNCHANGED <<group, job, gap, seen, inGroup, wire, page, api, collector, tick,
                 byHand, late>>

-----------------------------------------------------------------------------
(* The roleplay switch                                                     *)

(* The tool, set_group_enabled and _expect_version all look first.         *)
SwitchRead ==
  /\ api = Idle
  /\ group.whitelisted
  /\ ~group.archived
  /\ \E on \in BOOLEAN : api' = [step |-> "switch", on |-> on]
  /\ UNCHANGED <<group, job, gap, seen, inGroup, wire, spent, page, collector, tick,
                 byHand, late>>

SwitchWritten ==
  /\ api.step = "switch"
  /\ group' = [group EXCEPT !.roleplay = api.on]
  /\ late' = (late \/ (api.on /\ group.archived))
  /\ api' = Idle
  /\ UNCHANGED <<job, gap, seen, inGroup, wire, spent, page, collector, tick, byHand>>

(* The API process dies.                                                   *)
ApiDies ==
  /\ page # [p \in Pages |-> NoPage] \/ api # Idle
  /\ page' = [p \in Pages |-> NoPage]
  /\ api' = Idle
  /\ UNCHANGED <<group, job, gap, seen, inGroup, wire, spent, collector, tick, byHand,
                 late>>

-----------------------------------------------------------------------------
Environment == QQDeparts \/ QQReturns \/ QQMessage \/ EventsLost \/ GapChanges \/ LinkExpires

Collector ==
  \/ EventRead \/ MembershipWritten \/ RecoveryRead \/ RecoveryQueued
  \/ Recovers \/ TickPicks \/ TickWrites

Page(p) ==
  \/ \E l \in Links : Opens(p, l)
  \/ Adds(p) \/ QQAnswers(p) \/ ProbeAnswered(p) \/ ProbeFails(p) \/ Submits(p)

Api ==
  \/ AddWritten \/ RemoveWritten \/ ArchiveWritten
  \/ RestoreWritten \/ RestoreRead \/ RestoreQueued \/ Consumed
  \/ SwitchRead \/ SwitchWritten \/ ApiDies

Next == Environment \/ Collector \/ (\E p \in Pages : Page(p)) \/ Api

Spec == Init /\ [][Next]_vars

-----------------------------------------------------------------------------
(* Properties                                                              *)

Groups == [whitelisted : BOOLEAN, archived : BOOLEAN,
           source : {"none", "manual", "membership_event"}, roleplay : BOOLEAN,
           membership : {"joined", "left", "kicked", "disbanded", "uncertain"}]

(* The row keeps its shape; it names a source exactly when it is archived. *)
TypeOK ==
  /\ group \in Groups
  /\ group.archived <=> group.source # "none"
  /\ job \in {"none", "active", "cancelled", "complete"}
  /\ gap \in BOOLEAN
  /\ seen \in BOOLEAN
  /\ wire \in Seq(Events)
  /\ spent \subseteq Links
  /\ tick \in BOOLEAN
  /\ byHand \in {"no", "stands", "over"}
  /\ late \in BOOLEAN

(* docs: archiving stops roleplay and recovery.  It does, whoever archives *)
(* and whatever the other process does, except for a write whose check     *)
(* came before the archiving and whose transaction came after: roleplay    *)
(* switched on, the job queued, or the job taken up before the archiving   *)
(* and kept on by the tick that had taken it up.                           *)
ArchivedIsQuiet ==
  group.archived /\ ~late => ~group.roleplay /\ job # "active"

(* What an administrator archived by hand stays archived until a page      *)
(* restores or adds the group, however often the account leaves unnoticed  *)
(* and returns; unless an event archived the group over it, or was being   *)
(* handled when the administrator did.                                     *)
ManualArchiveStands == byHand = "stands" => group.archived

(* An automatic archiving does not outlive the return of the account.      *)
ReturnEndsArchive ==
  group.whitelisted /\ group.source = "membership_event" => group.membership # "joined"

(* tests/test_store.py: a membership event only reopens automatic archives *)
(* (it does reopen one the administrator made, once an event archived the  *)
(* group over it).                                                         *)
(* The code does not keep it (README, section 7), so no run requires it.   *)
EventsReopenOnlyTheirOwn ==
  [][ collector.step = "membership" /\ MembershipWritten /\ group.archived
        => byHand = "no" \/ group'.archived ]_vars

=============================================================================
