--------------------------- MODULE AccountSwitch ---------------------------
(***************************************************************************)
(* Moving the service to another registered QQ account: an administrator   *)
(* begins a switch, confirms it on a page, the host replaces NapCat and    *)
(* the API process, the user logs in, and the administrator completes it.  *)
(*                                                                         *)
(* Three parties write without a lock of their own: the tools and the page *)
(* in the API process, which a completion leaves to wait for NapCat; the   *)
(* script of the host, which talks to the API by two files; and the        *)
(* collector, which a switch does not restart.  The pause of the           *)
(* collection that goes with a switch is in CollectionControl.             *)
(*                                                                         *)
(* Time is counted in quarters of an hour.                                 *)
(***************************************************************************)
EXTENDS Integers, FiniteSets

CONSTANTS
  Accounts,
  First,         (* the account the service was installed with             *)
  Switches,      (* the switches that may be begun                         *)
  Calls,         (* completions that may run at one time                   *)
  None,
  Stale,         (* a confirmation page nobody used blocks this long       *)
  Cooldown,      (* after a failure the target is refused this long        *)
  Day, Failures, (* and refused after so many failures within a day        *)
  MaxTime        (* bound on the clock                                     *)

ASSUME SwitchAssumption ==
  /\ First \in Accounts
  /\ None \notin Accounts \cup Switches
  /\ {Stale, Cooldown, Day, Failures, MaxTime} \subseteq Nat
  /\ Failures > 0

VARIABLES
  account,     (* qq_accounts: the status of each account                  *)
  switch,      (* qq_account_switches                                      *)
  request,     (* switch-napcat-account.request: a switch, or None         *)
  confirming,  (* a page that wrote the request and is not done            *)
  host,        (* how far the script of the host is, and with what         *)
  report,      (* switch-napcat-account.status.json                        *)
  env,         (* QQ_ACCOUNT_ID in .env                                    *)
  app,         (* the account of the running API process, or None          *)
  login,       (* the account NapCat is logged in with, or None            *)
  stable,      (* session_health: online long enough and checked twice     *)
  call,        (* the completions                                          *)
  now,
  overtaken,   (* history: switches a completion ended a second time       *)
  unrecorded   (* history: switches whose confirmation was interrupted     *)

vars == <<account, switch, request, confirming, host, report, env, app, login, stable, call,
          now, overtaken, unrecorded>>

NoSwitch == [status |-> "none", target |-> First, at |-> 0]
NoCall == [step |-> "idle", switch |-> None]
HostIdle == [at |-> "idle", switch |-> None]

Init ==
  /\ account = [a \in Accounts |-> IF a = First THEN "active" ELSE "unregistered"]
  /\ switch = [s \in Switches |-> NoSwitch]
  /\ request = None
  /\ confirming = None
  /\ host = HostIdle
  /\ report = [switch |-> None, status |-> "not_started"]
  /\ env = First
  /\ app = First
  /\ login \in {None, First}
  /\ stable = FALSE
  /\ call = [c \in Calls |-> NoCall]
  /\ now = 0
  /\ overtaken = {}
  /\ unrecorded = {}

-----------------------------------------------------------------------------
(* The rows                                                                *)

OpenStatuses == {"requested", "host_pending", "awaiting_login"}
Ended == {"completed", "failed", "cancelled"}

Open == {s \in Switches : switch[s].status \in OpenStatuses}
Active == {a \in Accounts : account[a] = "active"}

(* ensure_active_qq_account, when a process with account a starts.         *)
Ensured(a) ==
  CASE Active = {} -> [account EXCEPT ![a] = "active"]
    [] Active # {} /\ a \notin Active -> [account EXCEPT ![a] = "pending"]
    [] OTHER -> account

(* Mutant: the account that was active stays so.                           *)
ActivatedBeside(a) == [account EXCEPT ![a] = "active"]

(* A completed switch: its target is the one active account.               *)
Activated(a) ==
  [b \in Accounts |-> IF b = a THEN "active"
                      ELSE IF b \in Active THEN "registered" ELSE account[b]]

(* update_qq_account_switch: whatever the status was.                      *)
Writes(s, status) ==
  /\ switch' = [switch EXCEPT ![s].status = status]
  /\ account' = CASE status = "awaiting_login" ->
                       [account EXCEPT ![switch[s].target] = "pending"]
                  [] status = "completed" -> Activated(switch[s].target)
                  [] OTHER -> account

(* A status written by a completion.                                       *)
Ends(s, status) ==
  /\ Writes(s, status)
  /\ overtaken' = IF switch[s].status \in Ended THEN overtaken \cup {s} ELSE overtaken

-----------------------------------------------------------------------------
(* The API process.  Only a completion waits; the others run alone.        *)

(* Mutant: a page is served whether the process runs or not.               *)
ServesAlways == confirming = None

Serves == app # None /\ confirming = None

(* The page that registers an account.                                     *)
Registers(a) ==
  /\ Serves
  /\ account[a] = "unregistered"
  /\ account' = [account EXCEPT ![a] = "registered"]
  /\ UNCHANGED <<switch, request, confirming, host, report, env, app, login, stable, call, now,
                 overtaken, unrecorded>>

Expired(s) == switch[s].status = "requested" /\ switch[s].at < now - Stale

FailedSince(t, d) ==
  {s \in Switches : /\ switch[s].status = "failed"
                    /\ switch[s].target = t
                    /\ switch[s].at >= now - d}

(* Mutant: failures are not counted.                                       *)
MayTryEvery(t) == FailedSince(t, Cooldown) = {}

MayTry(t) == FailedSince(t, Cooldown) = {} /\ Cardinality(FailedSince(t, Day)) < Failures

(* A page that was never confirmed gives way after a while.                *)
NoOtherOpen == \A s \in Open : Expired(s)

(* create_qq_account_switch: one write transaction.                        *)
Begin(s, t) ==
  /\ Serves
  /\ switch[s] = NoSwitch
  /\ account[t] \notin {"unregistered", "active"}
  /\ NoOtherOpen
  /\ MayTry(t)
  /\ switch' = [r \in Switches |->
                  IF r = s THEN [status |-> "requested", target |-> t, at |-> now]
                  ELSE IF Expired(r) THEN [switch[r] EXCEPT !.status = "cancelled"]
                  ELSE switch[r]]
  /\ UNCHANGED <<account, request, confirming, host, report, env, app, login, stable, call,
                 now, overtaken, unrecorded>>

(* request_account_switch: the request is written for the host ...         *)
ConfirmWritten(s) ==
  /\ Serves
  /\ switch[s].status = "requested"
  /\ request = None
  /\ request' = s
  /\ confirming' = s
  /\ UNCHANGED <<account, switch, host, report, env, app, login, stable, call, now, overtaken,
                 unrecorded>>

(* ... and then recorded.                                                  *)
ConfirmRecorded ==
  /\ confirming # None
  /\ Writes(confirming, "host_pending")
  /\ confirming' = None
  /\ UNCHANGED <<request, host, report, env, app, login, stable, call, now, overtaken,
                 unrecorded>>

(* Mutant: the report of the host is believed whatever the status is.      *)
ReportedAlways(s) == report = [switch |-> s, status |-> "awaiting_login"]

(* account_switch_status: the host reports that it is done.                *)
Reported(s) ==
  /\ switch[s].status = "host_pending"
  /\ report = [switch |-> s, status |-> "awaiting_login"]

Refresh(s) ==
  /\ Serves
  /\ Reported(s)
  /\ Writes(s, "awaiting_login")
  /\ UNCHANGED <<request, confirming, host, report, env, app, login, stable, call, now,
                 overtaken, unrecorded>>

(* Mutant: a switch the host is working on may be cancelled too.           *)
MayCancelOpen(s) == s \in Open

MayCancel(s) == switch[s].status \in {"requested", "awaiting_login"}

Cancel(s) ==
  /\ Serves
  /\ MayCancel(s)
  /\ Writes(s, "cancelled")
  /\ UNCHANGED <<request, confirming, host, report, env, app, login, stable, call, now,
                 overtaken, unrecorded>>

(* Mutant: the process is not asked which account it runs for.             *)
CompletesAnywhere(s) == switch[s].status \in {"host_pending", "awaiting_login"} /\ stable

MayComplete(s) ==
  /\ switch[s].status \in {"host_pending", "awaiting_login"}
  /\ app = switch[s].target
  /\ stable

(* complete_account_switch refreshes the status, checks it, and waits for  *)
(* the limiter that all requests to NapCat share.                          *)
CompleteBegins(c, s) ==
  /\ Serves
  /\ call[c] = NoCall
  /\ MayComplete(s)
  /\ call' = [call EXCEPT ![c] = [step |-> "waiting", switch |-> s]]
  /\ IF Reported(s) THEN Writes(s, "awaiting_login") ELSE UNCHANGED <<switch, account>>
  /\ UNCHANGED <<request, confirming, host, report, env, app, login, stable, now, overtaken,
                 unrecorded>>

CompleteAsks(c) ==
  /\ Serves
  /\ call[c].step = "waiting"
  /\ \A d \in Calls : call[d].step \notin {"login", "groups"}
  /\ call' = [call EXCEPT ![c].step = "login"]
  /\ UNCHANGED <<account, switch, request, confirming, host, report, env, app, login, stable,
                 now, overtaken, unrecorded>>

(* get_login_info answers, or fails, which leaves the switch as it is.     *)
LoginAnswers(c) ==
  LET s == call[c].switch IN
  /\ Serves
  /\ call[c].step = "login"
  /\ \/ /\ login = switch[s].target
        /\ call' = [call EXCEPT ![c].step = "groups"]
        /\ UNCHANGED <<switch, account, overtaken>>
     \/ /\ login \notin {None, switch[s].target}
        /\ Ends(s, "failed")
        /\ call' = [call EXCEPT ![c] = NoCall]
     \/ /\ call' = [call EXCEPT ![c] = NoCall]
        /\ UNCHANGED <<switch, account, overtaken>>
  /\ UNCHANGED <<request, confirming, host, report, env, app, login, stable, now, unrecorded>>

(* get_group_list answers, or fails: is the account in every group?        *)
GroupsAnswer(c) ==
  LET s == call[c].switch IN
  /\ Serves
  /\ call[c].step = "groups"
  /\ \/ \E status \in {"completed", "failed"} : Ends(s, status)
     \/ UNCHANGED <<switch, account, overtaken>>
  /\ call' = [call EXCEPT ![c] = NoCall]
  /\ UNCHANGED <<request, confirming, host, report, env, app, login, stable, now, unrecorded>>

-----------------------------------------------------------------------------
(* The processes and the script of the host                                *)

(* What an API process that ends loses.                                    *)
ApiLost ==
  /\ confirming' = None
  /\ unrecorded' = IF confirming = None THEN unrecorded ELSE unrecorded \cup {confirming}
  /\ call' = [c \in Calls |-> NoCall]

(* A crash: the container starts again with the account it has.            *)
ApiRestarts ==
  /\ app # None
  /\ ApiLost
  /\ account' = Ensured(app)
  /\ UNCHANGED <<switch, request, host, report, env, app, login, stable, now, overtaken>>

(* The administrator starts what the script left stopped, or left running  *)
(* for the account that .env no longer names.                              *)
ApiStarts ==
  /\ app # env
  /\ host = HostIdle
  /\ ApiLost
  /\ app' = env
  /\ login' = None
  /\ account' = Ensured(env)
  /\ UNCHANGED <<switch, request, host, report, env, stable, now, overtaken>>

(* The collector keeps its account until it is deployed again.             *)
CollectorRestarts ==
  /\ \E a \in {First, env} : account' = Ensured(a)
  /\ UNCHANGED <<switch, request, confirming, host, report, env, app, login, stable, call, now,
                 overtaken, unrecorded>>

HostTakes ==
  /\ host = HostIdle
  /\ request # None
  /\ request' = None
  /\ host' = [at |-> "taken", switch |-> request]
  /\ report' = [switch |-> request, status |-> "switching"]
  /\ UNCHANGED <<account, switch, confirming, env, app, login, stable, call, now, overtaken,
                 unrecorded>>

(* NapCat and the API process are stopped, though the script goes on when  *)
(* that fails and leaves them running ...                                  *)
HostStops ==
  /\ host.at = "taken"
  /\ host' = [host EXCEPT !.at = "stopped"]
  /\ \/ /\ app' = None
        /\ login' = None
        /\ ApiLost
     \/ UNCHANGED <<app, login, confirming, unrecorded, call>>
  /\ UNCHANGED <<account, switch, request, report, env, stable, now, overtaken>>

(* ... .env names the target ...                                           *)
HostMoves ==
  /\ host.at = "stopped"
  /\ host' = [host EXCEPT !.at = "moved"]
  /\ env' = switch[host.switch].target
  /\ UNCHANGED <<account, switch, request, confirming, report, app, login, stable, call, now,
                 overtaken, unrecorded>>

(* ... and they are created anew for it, if the host can.                  *)
HostStarts ==
  /\ host.at = "moved"
  /\ host' = [host EXCEPT !.at = "started"]
  /\ ApiLost
  /\ app' = env
  /\ login' = None
  /\ account' = Ensured(env)
  /\ UNCHANGED <<switch, request, report, env, stable, now, overtaken>>

HostFails ==
  /\ host.at = "moved"
  /\ host' = HostIdle
  /\ report' = [switch |-> host.switch, status |-> "failed"]
  /\ UNCHANGED <<account, switch, request, confirming, env, app, login, stable, call, now,
                 overtaken, unrecorded>>

HostReports ==
  /\ host.at = "started"
  /\ host' = HostIdle
  /\ report' = [switch |-> host.switch, status |-> "awaiting_login"]
  /\ UNCHANGED <<account, switch, request, confirming, env, app, login, stable, call, now,
                 overtaken, unrecorded>>

(* The host itself goes down in the middle of the script.                  *)
HostDies ==
  /\ host # HostIdle
  /\ host' = HostIdle
  /\ UNCHANGED <<account, switch, request, confirming, report, env, app, login, stable, call,
                 now, overtaken, unrecorded>>

-----------------------------------------------------------------------------
(* NapCat, its user and the watchdog                                       *)

(* The user logs in, perhaps with another account, or the login is lost.   *)
LoginChanges ==
  /\ login' \in (Accounts \cup {None}) \ {login}
  /\ login' # None => app # None
  /\ UNCHANGED <<account, switch, request, confirming, host, report, env, app, stable, call,
                 now, overtaken, unrecorded>>

(* The watchdog of the collector, at any time after the change.            *)
SessionObserved ==
  /\ stable' = (login # None)
  /\ UNCHANGED <<account, switch, request, confirming, host, report, env, app, login, call, now,
                 overtaken, unrecorded>>

Tick ==
  /\ now < MaxTime
  /\ now' = now + 1
  /\ UNCHANGED <<account, switch, request, confirming, host, report, env, app, login, stable,
                 call, overtaken, unrecorded>>

Next ==
  \/ \E a \in Accounts : Registers(a)
  \/ \E s \in Switches, t \in Accounts : Begin(s, t)
  \/ \E s \in Switches : ConfirmWritten(s) \/ Refresh(s) \/ Cancel(s)
  \/ ConfirmRecorded
  \/ \E c \in Calls : \/ \E s \in Switches : CompleteBegins(c, s)
                      \/ CompleteAsks(c) \/ LoginAnswers(c) \/ GroupsAnswer(c)
  \/ ApiRestarts \/ ApiStarts \/ CollectorRestarts
  \/ HostTakes \/ HostStops \/ HostMoves \/ HostStarts \/ HostFails \/ HostReports \/ HostDies
  \/ LoginChanges \/ SessionObserved \/ Tick

Spec == Init /\ [][Next]_vars

-----------------------------------------------------------------------------
(* Properties                                                              *)

SwitchType ==
  [status : {"none"} \cup OpenStatuses \cup Ended, target : Accounts, at : 0 .. MaxTime]

(* A page that wrote its request finds its switch still to be recorded,    *)
(* and the script works on a switch that was begun.                        *)
TypeOK ==
  /\ account \in [Accounts -> {"unregistered", "registered", "pending", "active"}]
  /\ switch \in [Switches -> SwitchType]
  /\ request \in Switches \cup {None}
  /\ confirming \in Switches \cup {None}
  /\ confirming # None => app # None
  /\ host \in [at : {"idle", "taken", "stopped", "moved", "started"}, switch : Switches \cup {None}]
  /\ host.at = "idle" <=> host.switch = None
  /\ report \in [switch : Switches \cup {None},
                 status : {"not_started", "switching", "failed", "awaiting_login"}]
  /\ env \in Accounts
  /\ app \in Accounts \cup {None}
  /\ login \in Accounts \cup {None}
  /\ stable \in BOOLEAN
  /\ call \in [Calls -> [step : {"idle", "waiting", "login", "groups"},
                         switch : Switches \cup {None}]]
  /\ \A c \in Calls : call[c].step = "idle" <=> call[c].switch = None
  /\ now \in 0 .. MaxTime
  /\ overtaken \in SUBSET Switches
  /\ unrecorded \in SUBSET Switches

(* There is never more than one switch under way, though no status is      *)
(* written with a look at the one it replaces: a report of the host read   *)
(* late does not reopen a switch that was cancelled and replaced.          *)
OneOpenSwitch == Cardinality(Open) <= 1

(* One account is active, through every restart of either process, unless  *)
(* a completion that was waiting ended a switch that had been cancelled.   *)
OneActiveAccount == overtaken = {} => Cardinality(Active) = 1

(* The failures of one target that count towards the limit of a day never  *)
(* exceed it, again but for switches a waiting completion ended twice.     *)
FailuresLimited ==
  \A s \in Switches :
    Cardinality({r \in Switches \ overtaken :
                   /\ switch[r].status = "failed"
                   /\ switch[r].target = switch[s].target
                   /\ switch[r].at \in switch[s].at .. switch[s].at + Day}) <= Failures

(* An account becomes active only where the process that serves it was     *)
(* started for it, or where none was active.                               *)
ActivatedIsConfigured ==
  [][ \A a \in Accounts : a \in Active' \ Active => app = a \/ Active = {} ]_vars

(* The host moves the service only to the target of a switch that is still *)
(* under way: a page whose switch was cancelled does not move it, unless a *)
(* process died before it had recorded a confirmation.  A request left     *)
(* behind so is not the only one to do harm: what the host does for it may *)
(* come between a later request and the end of that switch.                *)
HostMovesOnlyOpen ==
  [][ env' # env /\ unrecorded' = {} => host.switch \in Open ]_vars
=============================================================================
