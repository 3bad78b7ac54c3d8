--------------------------- MODULE HistoryBudget ---------------------------
(***************************************************************************)
(* The shared budget of QQ history requests and the path every history     *)
(* request takes: claim a slot in SQLite, wait for the process's limiter,  *)
(* call NapCat, record the action.                                         *)
(*                                                                         *)
(* Three kinds of requesters claim from two operating-system processes:    *)
(* explicit refreshes and the manual gap repair loop (API process), and    *)
(* the automatic recovery tick (collector process).  The slot table is     *)
(* the only thing they share; each process has a limiter of its own, and   *)
(* the manual repair loop does not use one.                                *)
(*                                                                         *)
(* Times are whole ticks of the wall clock.  Every time before 0 is before *)
(* the upgrade that created the budget (history_budget_started_at).        *)
(***************************************************************************)
EXTENDS Integers, FiniteSets

CONSTANTS
  Refreshers,     (* concurrent get_recent_messages(refresh=true) calls    *)
  RefreshGroup,   (* the group each of those calls asks for                *)
  Interval,       (* minimum_interval_seconds                              *)
  Window,         (* the rolling 24 hours                                  *)
  Limit,          (* daily_limit                                           *)
  Retention,      (* slots older than this are deleted (30 days)           *)
  Cooldown,       (* EXPLICIT_HISTORY_COOLDOWN_SECONDS                     *)
  LockWait,       (* busy_timeout: the longest wait for the write lock     *)
  Timeout,        (* history_timeout_seconds                               *)
  LegacyTimes,    (* possible times of requests audited before the budget  *)
  ClockSteps,     (* whether the wall clock may be set back                *)
  Horizon         (* bound: the last tick of the clock                     *)

ASSUME BudgetAssumption ==
  /\ Interval \in Nat \ {0}
  /\ Window \in Nat
  /\ Limit \in Nat \ {0}
  /\ Retention \in Nat
  /\ Cooldown \in Nat
  /\ Timeout \in Nat
  /\ LockWait \in Nat
  /\ Horizon \in Nat
  /\ Interval <= Window
  /\ Window <= Retention
  /\ ClockSteps \in BOOLEAN
  /\ LegacyTimes \subseteq Int
  /\ IsFiniteSet(LegacyTimes)
  /\ \A t \in LegacyTimes : t < 0
  /\ Refreshers \cap {"free", "login"} = {}

Requesters == Refreshers \cup {"manual", "automatic"}

Groups == {RefreshGroup[r] : r \in Refreshers}

Processes == {"api", "collector"}

ProcessOf(r) == IF r = "automatic" THEN "collector" ELSE "api"

(* The requesters that wait for their process's asyncio semaphore.         *)
UsesLimiter(r) == r # "manual"

NoTime == -1
Free == "free"

VARIABLES
  clock,      (* the wall clock both processes read                        *)
  audited,    (* times of get_group_msg_history audited before the budget  *)
  slots,      (* history_request_slots.claimed_at                          *)
  req,        (* where each requester is: pc, the stamp, the sending time  *)
  limiter,    (* the holder of each process's limiter                      *)
  refreshed,  (* per group: the last explicit refresh in the action audit  *)
  claims      (* history: every stamp ever granted                         *)

vars == <<clock, audited, slots, req, limiter, refreshed, claims>>

-----------------------------------------------------------------------------
(* The budget computed by history_request_budget and claim_history_request *)

(* Mutant: only slots up to `now` are counted.                             *)
TimesUntil(now) == {t \in audited \cup slots : t >= now - Window /\ t <= now}

(* The requests a transaction counts at `now`.  There is no upper bound:   *)
(* a slot stamped later than `now` is counted too.                         *)
Times(now) == {t \in audited \cup slots : t >= now - Window}

(* times[-n] of the sorted list: the n-th latest.                          *)
NthLatest(S, n) == CHOOSE t \in S : Cardinality({u \in S : u >= t}) = n

(* Mutant: the oldest counted request decides instead of times[-limit].    *)
NextTimesFromOldest(S) ==
  {t + Interval : t \in S}
    \cup {t + Window : t \in {u \in S : Cardinality(S) >= Limit /\ \A v \in S : u <= v}}

(* next_times, whose latest member decides: every counted request must be  *)
(* Interval old (times[-1] decides), and times[-daily_limit] a Window old. *)
NextTimes(S) ==
  {t + Interval : t \in S}
    \cup {t + Window : t \in {u \in S : Cardinality({v \in S : v >= u}) = Limit}}

(* Mutant: one request too many.                                           *)
ExhaustedLate(now) == Cardinality(Times(now)) > Limit

Exhausted(now) == Cardinality(Times(now)) >= Limit

Allowed(now) ==
  /\ ~Exhausted(now)
  /\ \A t \in NextTimes(Times(now)) : t <= now

(* next_eligible_at of a refusal: the latest of next_times.                *)
NextEligible(now) == NthLatest(NextTimes(Times(now)), 1)

-----------------------------------------------------------------------------
Idle == [pc |-> "idle", stamp |-> 0, sentAt |-> 0]

Init ==
  /\ clock = 0
  /\ audited \in SUBSET LegacyTimes
  /\ slots = {}
  /\ req = [r \in Requesters |-> Idle]
  /\ limiter = [p \in Processes |-> Free]
  /\ refreshed = [g \in Groups |-> NoTime]
  /\ claims = {}

(* A process waiting for SQLite's write lock blocks its whole event loop.  *)
LoopFree(p) == \A q \in Requesters : ProcessOf(q) = p => req[q].pc # "claiming"

(* Nothing but the limiter holds back a request whose slot was granted:    *)
(* there is no await between the claim and the call.                       *)
MustWait(r) == UsesLimiter(r) /\ limiter[ProcessOf(r)] # Free

(* A granted request that waits for nothing leaves before its process      *)
(* starts anything else.                                                   *)
LoopIdle(p) ==
  /\ LoopFree(p)
  /\ \A q \in Requesters : ProcessOf(q) = p /\ req[q].pc = "granted" => MustWait(q)

(* onebot_action_cooldown: only a finished refresh is in the audit.        *)
CooledDown(g) == refreshed[g] = NoTime \/ clock - refreshed[g] >= Cooldown

(* A requester reads the wall clock and then asks for the write lock; the  *)
(* other process may still commit before it gets the lock.                 *)
Begin(r) ==
  /\ req[r].pc = "idle"
  /\ LoopIdle(ProcessOf(r))
  /\ r \in Refreshers => CooledDown(RefreshGroup[r])
  /\ req' = [req EXCEPT ![r] = [Idle EXCEPT !.pc = "claiming", !.stamp = clock]]
  /\ UNCHANGED <<clock, audited, slots, limiter, refreshed, claims>>

(* claim_history_request, under BEGIN IMMEDIATE, granted: the slot is      *)
(* inserted and slots past their retention are deleted.                    *)
ClaimGranted(r) ==
  LET now == req[r].stamp IN
  /\ req[r].pc = "claiming"
  /\ Allowed(now)
  /\ slots' = {t \in slots \cup {now} : t >= now - Retention}
  /\ claims' = claims \cup {now}
  /\ req' = [req EXCEPT ![r].pc = "granted"]
  /\ UNCHANGED <<clock, audited, limiter, refreshed>>

(* Mutant: the requester does not look at `granted`.                       *)
ClaimRefusalIgnored(r) ==
  /\ req[r].pc = "claiming"
  /\ \/ ~Allowed(req[r].stamp)
     \/ clock - req[r].stamp >= LockWait
  /\ req' = [req EXCEPT ![r].pc = "granted"]
  /\ UNCHANGED <<clock, audited, slots, limiter, refreshed, claims>>

(* claim_history_request, refused or failed with "database is locked": the *)
(* requester gives up this round.                                          *)
ClaimRefused(r) ==
  /\ req[r].pc = "claiming"
  /\ \/ ~Allowed(req[r].stamp)
     \/ clock - req[r].stamp >= LockWait
  /\ req' = [req EXCEPT ![r] = Idle]
  /\ UNCHANGED <<clock, audited, slots, limiter, refreshed, claims>>

(* The request leaves for NapCat, once the limiter is free if one is used. *)
Send(r) ==
  LET p == ProcessOf(r) IN
  /\ req[r].pc = "granted"
  /\ LoopFree(p)
  /\ ~MustWait(r)
  /\ req' = [req EXCEPT ![r].pc = "inflight", ![r].sentAt = clock]
  /\ limiter' = IF UsesLimiter(r) THEN [limiter EXCEPT ![p] = r] ELSE limiter
  /\ UNCHANGED <<clock, audited, slots, refreshed, claims>>

(* Mutant: the limiter is released after an answer only, not by a failure  *)
(* (acquire and release in place of `async with`).                         *)
FinishHolding(r) ==
  LET p == ProcessOf(r) IN
  /\ req[r].pc = "inflight"
  /\ LoopFree(p)
  /\ req' = [req EXCEPT ![r] = Idle]
  /\ \/ limiter' = limiter
     \/ UsesLimiter(r) /\ limiter' = [limiter EXCEPT ![p] = Free]
  /\ refreshed' = IF r \in Refreshers
                    THEN [refreshed EXCEPT ![RefreshGroup[r]] = clock]
                    ELSE refreshed
  /\ UNCHANGED <<clock, audited, slots, claims>>

(* The answer or the failure of the request: the action is audited with    *)
(* its source, and the limiter is released.                                *)
Finish(r) ==
  LET p == ProcessOf(r) IN
  /\ req[r].pc = "inflight"
  /\ LoopFree(p)
  /\ req' = [req EXCEPT ![r] = Idle]
  /\ limiter' = IF UsesLimiter(r) THEN [limiter EXCEPT ![p] = Free] ELSE limiter
  /\ refreshed' = IF r \in Refreshers
                    THEN [refreshed EXCEPT ![RefreshGroup[r]] = clock]
                    ELSE refreshed
  /\ UNCHANGED <<clock, audited, slots, claims>>

(* verify_account of manual_collection_resume takes the API's limiter for  *)
(* a get_login_info.                                                       *)
VerifyLogin ==
  /\ LoopFree("api")
  /\ \/ /\ LoopIdle("api")
        /\ limiter["api"] = Free
        /\ limiter' = [limiter EXCEPT !["api"] = "login"]
     \/ limiter["api"] = "login" /\ limiter' = [limiter EXCEPT !["api"] = Free]
  /\ UNCHANGED <<clock, audited, slots, req, refreshed, claims>>

(* A process stops and starts again: its coroutines and its limiter are    *)
(* gone, what SQLite holds is not.                                         *)
Restart(p) ==
  /\ \E r \in Requesters : ProcessOf(r) = p /\ req[r] # Idle
  /\ req' = [r \in Requesters |-> IF ProcessOf(r) = p THEN Idle ELSE req[r]]
  /\ limiter' = [limiter EXCEPT ![p] = Free]
  /\ UNCHANGED <<clock, audited, slots, refreshed, claims>>

(* Time passes, but not beyond the timeout of a request in flight or of a  *)
(* wait for the lock, and not while a granted request could leave.         *)
Tick ==
  /\ clock < Horizon
  /\ \A r \in Requesters :
       /\ req[r].pc = "inflight" => clock - req[r].sentAt < Timeout
       /\ req[r].pc = "claiming" => clock - req[r].stamp < LockWait
       /\ req[r].pc = "granted" => MustWait(r)
  /\ clock' = clock + 1
  /\ UNCHANGED <<audited, slots, req, limiter, refreshed, claims>>

(* The wall clock is set back (NTP, an administrator).                     *)
StepBack ==
  /\ ClockSteps
  /\ clock > 0
  /\ clock' \in 0 .. clock - 1
  /\ UNCHANGED <<audited, slots, req, limiter, refreshed, claims>>

Next ==
  \/ \E r \in Requesters : \/ Begin(r)
                           \/ ClaimGranted(r)
                           \/ ClaimRefused(r)
                           \/ Send(r)
                           \/ Finish(r)
  \/ \E p \in Processes : Restart(p)
  \/ VerifyLogin
  \/ Tick
  \/ StepBack

Spec == Init /\ [][Next]_vars

-----------------------------------------------------------------------------
(* Properties                                                              *)

Request == [pc : {"idle", "claiming", "granted", "inflight"}, stamp : Nat, sentAt : Nat]

(* Every variable has the shape the tables and coroutines give it, and a   *)
(* process's limiter is held by exactly the request of its own that is in  *)
(* flight through it: two never are, and an answer, a failure or a restart *)
(* leaves nobody's hold behind.                                            *)
TypeOK ==
  /\ clock \in Nat
  /\ audited \in SUBSET LegacyTimes
  /\ slots \in SUBSET Nat
  /\ req \in [Requesters -> Request]
  /\ limiter \in [Processes -> Requesters \cup {Free, "login"}]
  /\ refreshed \in [Groups -> Nat \cup {NoTime}]
  /\ claims \in SUBSET Nat
  /\ \A r \in Requesters :
       limiter[ProcessOf(r)] = r <=> UsesLimiter(r) /\ req[r].pc = "inflight"

(* Two granted history requests, or a granted one and one made before the  *)
(* budget existed, are at least minimum_interval_seconds apart, whichever  *)
(* processes claimed them, however long a claim waited for the write lock  *)
(* and however the wall clock was set back.                                *)
Spacing ==
  \A c \in claims : \A r \in audited \cup claims :
    r # c => r <= c - Interval \/ r >= c + Interval

(* Whenever a request is granted, the rolling window that ends with it     *)
(* holds at most daily_limit requests, the earlier audited ones included,  *)
(* although old slots are deleted and processes restart.                   *)
WindowLimit ==
  \A c \in claims :
    Cardinality({r \in audited \cup claims : c - Window <= r /\ r <= c}) <= Limit

(* The next_eligible_at a refusal returns is a promise: from the tick      *)
(* after it on, unless another request was granted meanwhile, the budget   *)
(* allows the request (jobs sleep until that time and then try again).     *)
PromiseKept ==
  \A r \in Requesters :
    LET now == req[r].stamp IN
    req[r].pc = "claiming" /\ ~Allowed(now)
      => \A later \in 1 .. Window : Allowed(NextEligible(now) + later)

UnderWay(r) == req[r].pc \in {"granted", "inflight"}

(* Every request waiting to leave or in flight was paid for by a slot of   *)
(* its own: neither the wait for the write lock nor a restart lets two     *)
(* requests go out on one slot.                                            *)
SentIsPaid ==
  /\ \A r \in Requesters : UnderWay(r) => req[r].stamp \in claims
  /\ \A q, r \in Requesters :
       UnderWay(q) /\ UnderWay(r) /\ req[q].stamp = req[r].stamp => q = r

(* "每 60 秒最多一页": two pages are asked of QQ at least Interval apart,   *)
(* as docs/architecture.md says of all history sources.                    *)
(* The code does not keep it (README, section 7), so no run requires it.   *)
SentSpacing ==
  \A q, r \in Requesters :
    /\ q # r
    /\ req[q].pc = "inflight"
    /\ req[r].pc = "inflight"
    => \/ req[q].sentAt - req[r].sentAt >= Interval
       \/ req[r].sentAt - req[q].sentAt >= Interval

-----------------------------------------------------------------------------
(* The abstract budget: the requests granted and the earlier audited ones. *)
Promised == INSTANCE RollingWindow WITH granted <- audited \cup claims

(* Two processes, a table that forgets, stamps read before the lock is     *)
(* held, restarts and a clock that is set back implement one rolling       *)
(* window from which requests are granted in the order of their times.     *)
BudgetIsRollingWindow == Promised!Spec
=============================================================================
