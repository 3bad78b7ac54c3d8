------------------------- MODULE CollectionControl -------------------------
(***************************************************************************)
(* The persisted circuit breaker of QQ collection and the session state    *)
(* machine around it.                                                      *)
(*                                                                         *)
(* The collector process runs one event loop: the session watchdog and the *)
(* handler of NapCat's events.  Between two awaits it makes a sequence of  *)
(* store calls, `todo` here, each a SQLite transaction of its own: nothing *)
(* else runs in the collector until the sequence is done, but the API      *)
(* process and the command line write the same rows between two of them,   *)
(* and a crash loses the rest.  Administrators act through the API; what   *)
(* they read before an await may be stale after it.                        *)
(*                                                                         *)
(* Time is counted in watchdog periods (60 seconds, at most two).          *)
(***************************************************************************)
EXTENDS Integers, Sequences

CONSTANTS
  Admins,       (* concurrent administrator requests                       *)
  Quiet,        (* RECOVERY_QUIET_SECONDS, in watchdog periods             *)
  MaxRestarts   (* bound: restarts of the collector                        *)

ASSUME ControlAssumption ==
  /\ Quiet \in Nat \ {0}
  /\ MaxRestarts \in Nat

Statuses == {"active", "paused_manual", "paused_session", "paused_configuration"}

(* What NapCat answers: `other` is a login of another QQ account.          *)
Sessions == {"online", "other", "offline", "unreachable", "misconfigured"}

NoTime == -1

VARIABLES
  napcat,     (* the state of NapCat and of its QQ session                 *)
  event,      (* an event NapCat sent and the collector has not handled    *)
  control,    (* runtime_status["collection_control"].status               *)
  health,     (* runtime_status["session_health"]                          *)
  gapOpen,    (* an automatic gap without end is registered                *)
  todo,       (* the store calls left before the collector's next await    *)
  watchdog,   (* where the watchdog is, and the health it read             *)
  admin,      (* what each administrator request is doing                  *)
  restarts,   (* bounds the restarts of the collector                      *)
  streak,     (* history: successive online answers of get_status          *)
  calm        (* history: periods since the collector last saw an outage   *)

vars == <<napcat, event, control, health, gapOpen, todo, watchdog, admin, restarts,
          streak, calm>>

-----------------------------------------------------------------------------
(* The health record: whether QQ is online, the consecutive online checks  *)
(* (capped at the two that matter), the age of online_since in periods     *)
(* (capped at Quiet), and recovery_state.                                  *)
Health(online, checks, age, recovery) ==
  [online |-> online, checks |-> checks, age |-> age, recovery |-> recovery]

Unknown == Health(FALSE, 0, NoTime, "none")
Offline == Health(FALSE, 0, NoTime, "offline")
ConfigurationError == Health(FALSE, 0, NoTime, "configuration_error")

AtMost(n, m) == IF n > m THEN m ELSE n

Older(age, d) == IF age = NoTime THEN NoTime ELSE AtMost(age + d, Quiet)

(* Mutant: online_since is written anew by every check.                    *)
OnlineCheckForgets(read, recovery) ==
  Health(TRUE, AtMost(read.checks + 1, 2), 0, recovery)

(* What a check that found QQ online writes, from the record it read       *)
(* before it asked NapCat.                                                 *)
OnlineCheck(read, recovery) ==
  Health(TRUE, AtMost(read.checks + 1, 2), IF read.age = NoTime THEN 0 ELSE read.age, recovery)

(* Mutant: two checks are enough.                                          *)
StableSoon(h) == h.checks >= 2

Stable(h) == h.checks >= 2 /\ h.age >= Quiet

(* Store calls: a call by name, or the writing of a health record.         *)
Call(name) == [name |-> name, health |-> Unknown]
WriteHealth(h) == [name |-> "write_health", health |-> h]

Sleeping == [pc |-> "sleep", read |-> Unknown]

Init ==
  /\ napcat \in Sessions
  /\ event = "none"
  /\ control \in {"active", "paused_manual"}
  /\ health = Unknown
  /\ gapOpen = FALSE
  /\ todo = <<>>
  /\ watchdog = Sleeping
  /\ admin = [a \in Admins |-> "idle"]
  /\ restarts = 0
  /\ streak = [checks |-> 0, age |-> NoTime]
  /\ calm = Quiet

(* The environment: NapCat's session changes at any moment.                *)
NapCatChanges ==
  /\ napcat' \in Sessions \ {napcat}
  /\ UNCHANGED <<event, control, health, gapOpen, todo, watchdog, admin, restarts, streak, calm>>

-----------------------------------------------------------------------------
(* The store calls of the collector, one transaction each                  *)

Ahead(name) == todo # <<>> /\ Head(todo).name = name

(* create_message_gaps_for_all.                                            *)
OpenGaps ==
  /\ Ahead("open_gaps")
  /\ gapOpen' = TRUE
  /\ todo' = Tail(todo)
  /\ UNCHANGED <<napcat, event, control, health, watchdog, admin, restarts, streak, calm>>

(* Mutant: the filter on the sources of automatic gaps matches none.       *)
CloseNoGaps ==
  /\ Ahead("close_gaps")
  /\ todo' = Tail(todo)
  /\ UNCHANGED <<napcat, event, control, health, gapOpen, watchdog, admin, restarts, streak,
                 calm>>

(* close_open_message_gaps.                                                *)
CloseGaps ==
  /\ Ahead("close_gaps")
  /\ gapOpen' = FALSE
  /\ todo' = Tail(todo)
  /\ UNCHANGED <<napcat, event, control, health, watchdog, admin, restarts, streak, calm>>

(* The calls made only if the collection is active, by the name of the     *)
(* question.                                                               *)
WhenActive ==
  [if_active_pause_session |-> "paused_session",
   if_active_pause_configuration |-> "paused_configuration",
   if_active_close_gaps |-> "close_gaps"]

(* Mutant: nothing asks whether the collection is active.                  *)
IfActiveUnasked ==
  /\ todo # <<>>
  /\ Head(todo).name \in DOMAIN WhenActive
  /\ todo' = <<Call(WhenActive[Head(todo).name])>> \o Tail(todo)
  /\ UNCHANGED <<napcat, event, control, health, gapOpen, watchdog, admin, restarts, streak, calm>>

(* is_active, read before the calls that depend on it.                     *)
IfActive ==
  /\ todo # <<>>
  /\ Head(todo).name \in DOMAIN WhenActive
  /\ todo' = IF control = "active"
               THEN <<Call(WhenActive[Head(todo).name])>> \o Tail(todo)
               ELSE Tail(todo)
  /\ UNCHANGED <<napcat, event, control, health, gapOpen, watchdog, admin, restarts, streak, calm>>

(* _set_control: it overwrites whatever status it finds.                   *)
SetControl ==
  /\ todo # <<>>
  /\ Head(todo).name \in Statuses
  /\ control' = Head(todo).name
  /\ todo' = Tail(todo)
  /\ UNCHANGED <<napcat, event, health, gapOpen, watchdog, admin, restarts, streak, calm>>

(* _write_session_health; the last two keep what they do not name.         *)
SetHealth ==
  /\ \/ Ahead("write_health") /\ health' = Head(todo).health
     \/ Ahead("verification_failed") /\ health' = [health EXCEPT !.recovery = "verification_failed"]
     \/ Ahead("recovered") /\ health' = [health EXCEPT !.online = TRUE, !.recovery = "active"]
  /\ todo' = Tail(todo)
  /\ UNCHANGED <<napcat, event, control, gapOpen, watchdog, admin, restarts, streak, calm>>

StoreCall == OpenGaps \/ CloseGaps \/ IfActive \/ SetControl \/ SetHealth

-----------------------------------------------------------------------------
(* The session watchdog                                                    *)

(* The loop wakes up after a period: it registers the outage a stale       *)
(* heartbeat is, reads session_health and asks NapCat for its status.      *)
WatchdogWakes ==
  /\ watchdog.pc = "sleep"
  /\ todo = <<>>
  /\ \E d \in 1 .. 2 :
       /\ health' = [health EXCEPT !.age = Older(@, d)]
       /\ streak' = [streak EXCEPT !.age = Older(@, d)]
       /\ calm' = Older(calm, d)
  /\ watchdog' = [pc |-> "status", read |-> health']
  /\ todo' \in {<<>>, <<Call("open_gaps")>>}
  /\ UNCHANGED <<napcat, event, control, gapOpen, admin, restarts>>

(* Mutant: a configuration error registers no outage.                      *)
StatusNotOnlineUncovered ==
  /\ watchdog.pc = "status"
  /\ todo = <<>>
  /\ \/ /\ napcat = "misconfigured"
        /\ todo' = <<Call("if_active_pause_configuration"), WriteHealth(ConfigurationError)>>
     \/ /\ napcat \in {"offline", "unreachable"}
        /\ todo' = <<Call("if_active_pause_session"), Call("open_gaps"), WriteHealth(Offline)>>
  /\ watchdog' = [watchdog EXCEPT !.pc = "recovery"]
  /\ streak' = [checks |-> 0, age |-> NoTime]
  /\ calm' = 0
  /\ UNCHANGED <<napcat, event, control, health, gapOpen, admin, restarts>>

(* get_status fails or reports that QQ is offline.                         *)
StatusNotOnline ==
  /\ watchdog.pc = "status"
  /\ todo = <<>>
  /\ \/ /\ napcat = "misconfigured"
        /\ todo' = <<Call("if_active_pause_configuration"), Call("open_gaps"),
                     WriteHealth(ConfigurationError)>>
     \/ /\ napcat \in {"offline", "unreachable"}
        /\ todo' = <<Call("if_active_pause_session"), Call("open_gaps"), WriteHealth(Offline)>>
  /\ watchdog' = [watchdog EXCEPT !.pc = "recovery"]
  /\ streak' = [checks |-> 0, age |-> NoTime]
  /\ calm' = 0
  /\ UNCHANGED <<napcat, event, control, health, gapOpen, admin, restarts>>

(* Mutant: the recovery state is always the status of the breaker.         *)
RawRecoveryState == control

(* The recovery state of an online session.                                *)
RecoveryState == IF control = "paused_session" THEN "stabilizing" ELSE control

(* get_status reports online.  A paused session is only observed, and when *)
(* it was stable long enough its account is asked for.                     *)
StatusOnline ==
  LET check == OnlineCheck(watchdog.read, RecoveryState) IN
  /\ watchdog.pc = "status"
  /\ todo = <<>>
  /\ napcat \in {"online", "other"}
  /\ todo' = <<WriteHealth(check)>>
  /\ watchdog' = [watchdog EXCEPT
       !.pc = IF control = "paused_session" /\ Stable(check) THEN "login" ELSE "recovery"]
  /\ streak' = [checks |-> AtMost(streak.checks + 1, 2),
                age |-> IF streak.age = NoTime THEN 0 ELSE streak.age]
  /\ UNCHANGED <<napcat, event, control, health, gapOpen, admin, restarts, calm>>

(* get_login_info answers: the configured account reopens the collection,  *)
(* anything else pauses it.                                                *)
LoginAnswered ==
  /\ watchdog.pc = "login"
  /\ todo = <<>>
  /\ todo' = IF napcat = "online"
               THEN <<Call("active"), Call("close_gaps"), Call("recovered")>>
               ELSE <<Call("paused_session"), Call("verification_failed")>>
  /\ watchdog' = [watchdog EXCEPT !.pc = "recovery"]
  /\ UNCHANGED <<napcat, event, control, health, gapOpen, admin, restarts, streak, calm>>

MayRecoverHistory ==
  control = "active" /\ health.online /\ health.recovery \in {"none", "active"}

(* _automatic_history_recovery_tick asks for one page, or has nothing to   *)
(* ask for.                                                                *)
RecoveryTick ==
  /\ watchdog.pc = "recovery"
  /\ todo = <<>>
  /\ \/ MayRecoverHistory /\ watchdog' = [watchdog EXCEPT !.pc = "history"]
     \/ watchdog' = Sleeping
  /\ UNCHANGED <<napcat, event, control, health, gapOpen, todo, admin, restarts, streak, calm>>

(* The page arrives or fails; a session error pauses the collection.       *)
HistoryAnswered ==
  /\ watchdog.pc = "history"
  /\ todo = <<>>
  /\ todo' = IF napcat = "offline" THEN <<Call("paused_session")>> ELSE <<>>
  /\ watchdog' = Sleeping
  /\ UNCHANGED <<napcat, event, control, health, gapOpen, admin, restarts, streak, calm>>

-----------------------------------------------------------------------------
(* The events of NapCat                                                    *)

(* NapCat sends a heartbeat, a lifecycle event or a message; it arrives    *)
(* later, when the session may have changed.                               *)
NapCatSends ==
  /\ event = "none"
  /\ \/ napcat = "online" /\ event' = "healthy"
     \/ napcat = "offline" /\ event' = "degraded"
     \/ napcat = "other" /\ event' = "foreign"
  /\ UNCHANGED <<napcat, control, health, gapOpen, todo, watchdog, admin, restarts, streak, calm>>

AllowsEvents == control \notin {"paused_manual", "paused_configuration"}

(* handle_event, up to its store calls: a paused collection drops the      *)
(* event; one of another account pauses; a heartbeat with online or good   *)
(* false is an outage; any other ends the open gaps.                       *)
HandleEvent ==
  /\ event # "none"
  /\ todo = <<>>
  /\ event' = "none"
  /\ todo' = CASE ~AllowsEvents -> <<>>
               [] AllowsEvents /\ event = "foreign" -> <<Call("paused_session")>>
               [] AllowsEvents /\ event = "degraded" ->
                    <<Call("open_gaps"), Call("if_active_pause_session"), WriteHealth(Offline)>>
               [] AllowsEvents /\ event = "healthy" -> <<Call("if_active_close_gaps")>>
  /\ calm' = IF AllowsEvents /\ event = "degraded" THEN 0 ELSE calm
  /\ UNCHANGED <<napcat, control, health, gapOpen, watchdog, admin, restarts, streak>>

(* The WebSocket of the running session is closed.                         *)
Disconnected ==
  /\ todo = <<>>
  /\ todo' = <<Call("open_gaps")>>
  /\ event' = "none"
  /\ UNCHANGED <<napcat, control, health, gapOpen, watchdog, admin, restarts, streak, calm>>

-----------------------------------------------------------------------------
(* The administrators                                                      *)

(* pause_collection registers the outage, then pauses.                     *)
PauseBegins(a) ==
  /\ admin[a] = "idle"
  /\ gapOpen' = TRUE
  /\ admin' = [admin EXCEPT ![a] = "pausing"]
  /\ UNCHANGED <<napcat, event, control, health, todo, watchdog, restarts, streak, calm>>

PauseEnds(a) ==
  /\ admin[a] = "pausing"
  /\ control' = "paused_manual"
  /\ admin' = [admin EXCEPT ![a] = "idle"]
  /\ UNCHANGED <<napcat, event, health, gapOpen, todo, watchdog, restarts, streak, calm>>

(* The command `pause-collection` writes the status from its own process.  *)
CommandLinePause(a) ==
  /\ admin[a] = "idle"
  /\ control' = "paused_manual"
  /\ UNCHANGED <<napcat, event, health, gapOpen, todo, watchdog, admin, restarts, streak, calm>>

(* resume_collection refuses an unstable paused session and then asks      *)
(* NapCat who is logged in.                                                *)
ResumeBegins(a) ==
  /\ admin[a] = "idle"
  /\ ~(control = "paused_session" /\ health.recovery # "active")
  /\ admin' = [admin EXCEPT ![a] = "resuming"]
  /\ UNCHANGED <<napcat, event, control, health, gapOpen, todo, watchdog, restarts, streak, calm>>

ResumeEnds(a) ==
  /\ admin[a] = "resuming"
  /\ control' = CASE napcat = "online" -> "active"
                  [] napcat \in {"offline", "other"} -> "paused_session"
                  [] napcat = "misconfigured" -> "paused_configuration"
                  [] napcat = "unreachable" -> control
  /\ admin' = [admin EXCEPT ![a] = "idle"]
  /\ UNCHANGED <<napcat, event, health, gapOpen, todo, watchdog, restarts, streak, calm>>

(* refresh_registry and probe_group require an active collection, and then *)
(* pause it on what NapCat answers.                                        *)
QueryBegins(a) ==
  /\ admin[a] = "idle"
  /\ control = "active"
  /\ admin' = [admin EXCEPT ![a] = "querying"]
  /\ UNCHANGED <<napcat, event, control, health, gapOpen, todo, watchdog, restarts, streak, calm>>

QueryEnds(a) ==
  /\ admin[a] = "querying"
  /\ control' = CASE napcat \in {"offline", "other"} -> "paused_session"
                  [] napcat = "misconfigured" -> "paused_configuration"
                  [] OTHER -> control
  /\ admin' = [admin EXCEPT ![a] = "idle"]
  /\ UNCHANGED <<napcat, event, health, gapOpen, todo, watchdog, restarts, streak, calm>>

-----------------------------------------------------------------------------
(* Crashes and restarts                                                    *)

(* The collector starts again; a session it finds unclosed is registered   *)
(* as an outage.                                                           *)
CollectorRestarts ==
  /\ restarts < MaxRestarts
  /\ restarts' = restarts + 1
  /\ watchdog' = Sleeping
  /\ event' = "none"
  /\ todo' \in {<<>>, <<Call("open_gaps")>>}
  /\ UNCHANGED <<napcat, control, health, gapOpen, admin, streak, calm>>

(* The API process starts again; its requests are lost.                    *)
ApiRestarts ==
  /\ \E a \in Admins : admin[a] # "idle"
  /\ admin' = [a \in Admins |-> "idle"]
  /\ UNCHANGED <<napcat, event, control, health, gapOpen, todo, watchdog, restarts, streak, calm>>

WatchdogStep ==
  \/ WatchdogWakes
  \/ StatusNotOnline
  \/ StatusOnline
  \/ LoginAnswered
  \/ RecoveryTick
  \/ HistoryAnswered

Next ==
  \/ NapCatChanges
  \/ StoreCall
  \/ WatchdogStep
  \/ NapCatSends
  \/ HandleEvent
  \/ Disconnected
  \/ \E a \in Admins : \/ PauseBegins(a)
                       \/ PauseEnds(a)
                       \/ CommandLinePause(a)
                       \/ ResumeBegins(a)
                       \/ ResumeEnds(a)
                       \/ QueryBegins(a)
                       \/ QueryEnds(a)
  \/ CollectorRestarts
  \/ ApiRestarts

Spec == Init /\ [][Next]_vars

(* asyncio runs every ready coroutine in turn, an HTTP request ends in an  *)
(* answer or a timeout, and NapCat sends heartbeats while it is connected. *)
(* The queue of ready coroutines is first in, first out: one that is ready *)
(* again and again runs in the end.                                        *)
Fairness ==
  /\ WF_vars(StoreCall)
  /\ SF_vars(WatchdogStep)
  /\ WF_vars(NapCatSends)
  /\ SF_vars(HandleEvent)

FairSpec == Spec /\ Fairness

-----------------------------------------------------------------------------
(* Properties                                                              *)

HealthType ==
  [online : BOOLEAN, checks : 0 .. 2, age : {NoTime} \cup 0 .. Quiet,
   recovery : {"none", "active", "offline", "configuration_error", "stabilizing",
               "verification_failed", "paused_manual", "paused_configuration"}]

CallNames ==
  Statuses \cup {"open_gaps", "close_gaps", "write_health", "verification_failed", "recovered",
                 "if_active_pause_session", "if_active_pause_configuration",
                 "if_active_close_gaps"}

CallType == [name : CallNames, health : HealthType]

(* Every persisted record and every coroutine is in a state of its type.   *)
TypeOK ==
  /\ napcat \in Sessions
  /\ event \in {"none", "healthy", "degraded", "foreign"}
  /\ control \in Statuses
  /\ health \in HealthType
  /\ gapOpen \in BOOLEAN
  /\ todo \in Seq(CallType)
  /\ watchdog \in [pc : {"sleep", "status", "login", "recovery", "history"}, read : HealthType]
  /\ admin \in [Admins -> {"idle", "pausing", "resuming", "querying"}]
  /\ restarts \in 0 .. MaxRestarts
  /\ streak \in [checks : 0 .. 2, age : {NoTime} \cup 0 .. Quiet]
  /\ calm \in 0 .. Quiet

(* While session_health says that QQ is offline, the collection is paused  *)
(* and a gap covers what may be missing, whatever events and answers       *)
(* crossed: no later event closes the gap of an outage it knows nothing    *)
(* of.  A crash while the collection is reopened can break it.             *)
OfflineIsPausedAndCovered ==
  restarts = 0 /\ todo = <<>> /\ health.recovery = "offline" => control # "active" /\ gapOpen

(* Events dropped because of a configuration error of NapCat fall into a   *)
(* gap, unless the collector crashed between its two store calls.          *)
ConfigurationPauseIsCovered ==
  restarts = 0 /\ todo = <<>> /\ control = "paused_configuration" => gapOpen

(* The watchdog reopens the collection only after two successive answers   *)
(* of get_status that find QQ online, the first of them a quiet period ago *)
(* or earlier.                                                             *)
StableRecovery ==
  [][ Ahead("active") /\ SetControl => streak.checks >= 2 /\ streak.age >= Quiet ]_vars

StaysOnline == <>[](napcat = "online")

(* A session pause ends by itself once QQ stays online.                    *)
PauseEndsWhenOnline ==
  StaysOnline => [](control = "paused_session" => <>(control # "paused_session"))

(* An active collection of a session that stays online closes its gaps.    *)
GapsCloseWhenOnline ==
  StaysOnline => [](control = "active" /\ gapOpen => <>(control # "active" \/ ~gapOpen))

(* docs/architecture.md: QQ back online, the collector first keeps a quiet *)
(* period of five minutes.  No step reopens the collection sooner after an *)
(* outage it was told of.                                                  *)
(* The code does not keep it (README, section 7), so no run requires it.   *)
QuietPeriod ==
  [][ Ahead("active") /\ SetControl => calm >= Quiet ]_vars

(* README.md: a manual pause is persisted.  Only a resume ends it.         *)
(* The code does not keep it (README, section 7), so no run requires it.   *)
ManualPauseHolds ==
  [][ control = "paused_manual" /\ control' # "paused_manual"
        => \E a \in Admins : admin[a] = "resuming" ]_vars
=============================================================================
