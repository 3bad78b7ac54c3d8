------------------------ MODULE HistoryBudgetProofs ------------------------
(***************************************************************************)
(* What the shared history budget guarantees for every interval, window,   *)
(* limit, retention and set of requesters: the types, the spacing and the  *)
(* limit of what is granted, that whatever is sent was paid for, that a    *)
(* refusal names a time that will do, and the abstract rolling window.     *)
(***************************************************************************)
EXTENDS HistoryBudget, FiniteSetTheorems, NaturalsInduction, WellFoundedInduction, TLAPS

(* A stamp that is no longer in the table was deleted by the insertion of  *)
(* a slot more than Retention later, and a slot that late is still there.  *)
Kept ==
  /\ slots \subseteq claims
  /\ \A c \in claims : c \in slots \/ \E s \in slots : c < s - Retention

(* Only finitely many requests were ever made, so that counting them in    *)
(* Times and WindowLimit means something.                                  *)
FinitelyMany == IsFiniteSet(claims)

(* The inductive invariant: Spacing and WindowLimit speak of every stamp   *)
(* ever granted, the transaction only sees the slots it has kept.          *)
IInv == TypeOK /\ FinitelyMany /\ Kept /\ Spacing /\ WindowLimit /\ SentIsPaid

(* The model's variables stay within their types, and a limiter is always  *)
(* held by the one request of its process in flight through it, or by a    *)
(* get_login_info, or by nobody.                                           *)
THEOREM TypeCorrect == Spec => []TypeOK
<1> USE BudgetAssumption
<1> DEFINE HolderSends ==
      \A r \in Requesters :
        limiter[ProcessOf(r)] = r <=> UsesLimiter(r) /\ req[r].pc = "inflight"
<1>1. Init => TypeOK
  BY DEF Init, TypeOK, Idle, Request, NoTime, Free, Requesters, Processes, ProcessOf
<1>2. TypeOK /\ [Next]_vars => TypeOK'
  <2> SUFFICES ASSUME TypeOK, [Next]_vars PROVE TypeOK'
    OBVIOUS
  <2>0. /\ \A r \in Requesters : req[r] \in Request /\ ProcessOf(r) \in Processes
        /\ Free \notin Requesters /\ "login" \notin Requesters
    BY DEF TypeOK, ProcessOf, Processes, Free, Requesters
  <2>1. ASSUME NEW r \in Requesters, Begin(r) PROVE TypeOK'
    <3>1. req' \in [Requesters -> Request]
      BY <2>1 DEF TypeOK, Begin, Idle, Request
    <3>2. HolderSends'
      BY <2>0, <2>1 DEF TypeOK, Begin, Idle, UsesLimiter
    <3> QED
      BY <2>1, <3>1, <3>2 DEF TypeOK, Begin
  <2>2. ASSUME NEW r \in Requesters, ClaimGranted(r) PROVE TypeOK'
    <3>2. req' \in [Requesters -> Request]
      BY <2>0, <2>2 DEF TypeOK, ClaimGranted, Request
    <3>3. slots' \in SUBSET Nat /\ claims' \in SUBSET Nat
      BY <2>0, <2>2 DEF TypeOK, ClaimGranted, Request
    <3>4. HolderSends'
      BY <2>0, <2>2 DEF TypeOK, ClaimGranted, UsesLimiter
    <3> QED
      BY <2>2, <3>2, <3>3, <3>4 DEF TypeOK, ClaimGranted
  <2>3. ASSUME NEW r \in Requesters, ClaimRefused(r) PROVE TypeOK'
    <3>1. req' \in [Requesters -> Request]
      BY <2>3 DEF TypeOK, ClaimRefused, Idle, Request
    <3>2. HolderSends'
      BY <2>0, <2>3 DEF TypeOK, ClaimRefused, Idle, UsesLimiter
    <3> QED
      BY <2>3, <3>1, <3>2 DEF TypeOK, ClaimRefused
  <2>4. ASSUME NEW r \in Requesters, Send(r) PROVE TypeOK'
    <3>1. req' \in [Requesters -> Request]
      <4>1. req \in [Requesters -> Request] /\ clock \in Nat
        BY DEF TypeOK
      <4>2. req' = [req EXCEPT ![r].pc = "inflight", ![r].sentAt = clock]
        BY <2>4 DEF Send
      <4> QED
        BY <4>1, <4>2 DEF Request
    <3>2. limiter' \in [Processes -> Requesters \cup {Free, "login"}]
      BY <2>4 DEF TypeOK, Send, ProcessOf, Processes
    <3>3. HolderSends'
      BY <2>0, <2>4 DEF TypeOK, Send, MustWait, UsesLimiter
    <3> QED
      BY <2>4, <3>1, <3>2, <3>3 DEF TypeOK, Send
  <2>5. ASSUME NEW r \in Requesters, Finish(r) PROVE TypeOK'
    <3>1. req' \in [Requesters -> Request]
      BY <2>5 DEF TypeOK, Finish, Idle, Request
    <3>2. limiter' \in [Processes -> Requesters \cup {Free, "login"}]
      BY <2>5 DEF TypeOK, Finish, ProcessOf, Processes
    <3>3. refreshed' \in [Groups -> Nat \cup {NoTime}]
      BY <2>5 DEF TypeOK, Finish, Groups
    <3>4. HolderSends'
      BY <2>0, <2>5 DEF TypeOK, Finish, Idle, UsesLimiter
    <3> QED
      BY <2>5, <3>1, <3>2, <3>3, <3>4 DEF TypeOK, Finish
  <2>6. ASSUME NEW p \in Processes, Restart(p) PROVE TypeOK'
    <3>1. req' \in [Requesters -> Request]
      BY <2>6 DEF TypeOK, Restart, Idle, Request
    <3>2. HolderSends'
      BY <2>0, <2>6 DEF TypeOK, Restart, Idle, UsesLimiter
    <3> QED
      BY <2>6, <3>1, <3>2 DEF TypeOK, Restart
  <2>7. CASE VerifyLogin
    <3>1. HolderSends'
      BY <2>0, <2>7 DEF TypeOK, VerifyLogin, UsesLimiter, Processes
    <3> QED
      BY <2>7, <3>1 DEF TypeOK, VerifyLogin, Processes
  <2>8. CASE Tick
    BY <2>8 DEF TypeOK, Tick
  <2>9. CASE StepBack
    BY <2>9 DEF TypeOK, StepBack
  <2>10. CASE UNCHANGED vars
    BY <2>10 DEF TypeOK, vars
  <2> QED
    BY <2>1, <2>2, <2>3, <2>4, <2>5, <2>6, <2>7, <2>8, <2>9, <2>10 DEF Next
<1> QED
  BY <1>1, <1>2, PTL DEF Spec

-----------------------------------------------------------------------------
(* The order of the constants, as the arithmetic below uses it.            *)
LEMMA ConstantOrder ==
  /\ Interval \in Int /\ Window \in Int /\ Retention \in Int /\ Limit \in Int
  /\ 0 < Interval /\ Interval <= Window /\ Window <= Retention
BY BudgetAssumption

(* A granted request is younger by Interval than every request ever made,  *)
(* the deleted slots included: the clock cannot go back behind them.       *)
LEMMA GrantedIsLatest ==
  ASSUME IInv, NEW r \in Requesters, ClaimGranted(r)
  PROVE  \A t \in audited \cup claims : t <= req[r].stamp - Interval
<1> DEFINE now == req[r].stamp
<1>0. now \in Nat /\ slots \subseteq Nat /\ claims \subseteq Nat /\ audited \subseteq Int
  BY BudgetAssumption DEF IInv, TypeOK, Request
<1>1. \A t \in Times(now) : t + Interval <= now
  BY DEF ClaimGranted, Allowed, NextTimes
<1>2. \A t \in audited \cup slots : t <= now - Interval
  <2> SUFFICES ASSUME NEW t \in audited \cup slots PROVE t <= now - Interval
    OBVIOUS
  <2>1. CASE t \in Times(now)
    BY <1>0, <1>1, <2>1, BudgetAssumption
  <2>2. CASE t \notin Times(now)
    <3>1. t \in Int
      BY <1>0
    <3>2. ~(t >= now - Window)
      BY <2>2 DEF Times
    <3> QED BY <1>0, <3>1, <3>2, ConstantOrder
  <2> QED BY <2>1, <2>2
<1>3. ASSUME NEW c \in claims, NEW s \in slots, c < s - Retention
      PROVE  c <= now - Interval
  BY <1>0, <1>2, <1>3, BudgetAssumption
<1> QED
  BY <1>2, <1>3 DEF IInv, Kept

(* The requests of the window ending with a granted one are those its      *)
(* transaction counted, and itself: nothing in the window was deleted.     *)
LEMMA GrantedWindow ==
  ASSUME IInv, NEW r \in Requesters, ClaimGranted(r)
  PROVE  LET now == req[r].stamp
         IN  {t \in audited \cup claims' : now - Window <= t /\ t <= now}
               \subseteq Times(now) \cup {now}
<1> DEFINE now == req[r].stamp
<1>0. now \in Nat /\ slots \subseteq Nat /\ claims \subseteq Nat /\ audited \subseteq Int
  BY BudgetAssumption DEF IInv, TypeOK, Request
<1>1. SUFFICES ASSUME NEW t \in audited \cup claims, now - Window <= t, t \notin slots, t \in claims
               PROVE  FALSE
  BY <1>0 DEF ClaimGranted, Times
<1>2. PICK s \in slots : t < s - Retention
  BY <1>1 DEF IInv, Kept
<1>3. s <= now - Interval
  BY <1>2, GrantedIsLatest DEF IInv, Kept
<1> QED
  BY <1>0, <1>1, <1>2, <1>3, BudgetAssumption

(* Granting a request preserves the whole invariant.                       *)
LEMMA GrantStep ==
  ASSUME IInv, TypeOK', NEW r \in Requesters, ClaimGranted(r)
  PROVE  IInv'
<1> DEFINE now == req[r].stamp
<1>0. now \in Nat /\ slots \subseteq Nat /\ claims \subseteq Nat /\ audited \subseteq Int
  BY BudgetAssumption DEF IInv, TypeOK, Request
<1>1. /\ claims' = claims \cup {now}
      /\ slots' = {t \in slots \cup {now} : t >= now - Retention}
      /\ audited' = audited
  BY DEF ClaimGranted
<1>2. \A t \in audited \cup claims : t <= now - Interval
  BY GrantedIsLatest
<1>3. FinitelyMany'
  BY <1>1, FS_AddElement DEF IInv, FinitelyMany
<1>4. Kept'
  <2>1. now \in slots'
    BY <1>0, <1>1, BudgetAssumption
  <2>2. slots' \subseteq claims'
    BY <1>1 DEF IInv, Kept
  <2>3. ASSUME NEW c \in claims', c \notin slots' PROVE c < now - Retention
    <3>1. c \in claims
      BY <1>1, <2>1, <2>3
    <3>2. CASE c \in slots
      BY <1>0, <1>1, <2>3, <3>2, BudgetAssumption
    <3>3. CASE c \notin slots
      <4>1. PICK s \in slots : c < s - Retention
        BY <3>1, <3>3 DEF IInv, Kept
      <4>2. s <= now - Interval
        BY <1>2, <4>1 DEF IInv, Kept
      <4> QED
        BY <1>0, <3>1, <4>1, <4>2, BudgetAssumption
    <3> QED BY <3>2, <3>3
  <2> QED
    BY <2>1, <2>2, <2>3 DEF Kept
<1>5. Spacing'
  <2> SUFFICES ASSUME NEW c \in claims', NEW t \in audited \cup claims', t # c
               PROVE  t <= c - Interval \/ t >= c + Interval
    BY <1>1 DEF Spacing
  <2>1. CASE c \in claims /\ t \in audited \cup claims
    BY <2>1 DEF IInv, Spacing
  <2>2. CASE c = now
    BY <1>1, <1>2, <2>2
  <2>3. CASE t = now
    <3>1. c \in claims /\ c \in Int /\ c <= now - Interval
      BY <1>0, <1>1, <1>2, <2>3
    <3> QED BY <1>0, <2>3, <3>1, ConstantOrder
  <2> QED
    BY <1>1, <2>1, <2>2, <2>3
<1>6. WindowLimit'
  <2> SUFFICES ASSUME NEW c \in claims'
               PROVE  Cardinality({t \in audited \cup claims' : c - Window <= t /\ t <= c}) <= Limit
    BY <1>1 DEF WindowLimit
  <2>1. CASE c \in claims
    <3>1. c \in Int /\ c <= now - Interval /\ c < now
      <4>1. c \in Int /\ now \in Int
        BY <1>0, <2>1
      <4>2. c <= now - Interval
        BY <1>2, <2>1
      <4> HIDE DEF now
      <4> QED
        BY <4>1, <4>2, ConstantOrder
    <3>2. {t \in audited \cup claims' : c - Window <= t /\ t <= c}
            = {t \in audited \cup claims : c - Window <= t /\ t <= c}
      BY <1>0, <1>1, <2>1, <3>1
    <3> QED
      BY <2>1, <3>2 DEF IInv, WindowLimit
  <2>2. CASE c = now
    <3> DEFINE W == {t \in audited \cup claims' : now - Window <= t /\ t <= now}
               T == Times(now)
    <3>1. W \subseteq T \cup {now}
      BY GrantedWindow
    <3>2. IsFiniteSet(T)
      <4>1. IsFiniteSet(audited) /\ IsFiniteSet(slots)
        BY BudgetAssumption, FS_Subset DEF IInv, TypeOK, FinitelyMany, Kept
      <4>2. IsFiniteSet(audited \cup slots)
        BY <4>1, FS_Union
      <4> QED
        BY <4>2, FS_Subset DEF Times
    <3>3. Cardinality(T) \in Nat /\ Cardinality(T) < Limit
      BY <3>2, FS_CardinalityType, BudgetAssumption DEF ClaimGranted, Allowed, Exhausted
    <3>4. /\ IsFiniteSet(T \cup {now})
          /\ Cardinality(T \cup {now}) \in {Cardinality(T), Cardinality(T) + 1}
      BY <3>2, FS_AddElement
    <3>5. Cardinality(W) \in Nat /\ Cardinality(W) <= Cardinality(T \cup {now})
      BY <3>1, <3>4, FS_Subset, FS_CardinalityType
    <3> QED
      BY <2>2, <3>3, <3>4, <3>5, BudgetAssumption
  <2> QED
    BY <1>1, <2>1, <2>2
<1>7. SentIsPaid'
  <2>1. now \notin claims
    BY <1>0, <1>2, BudgetAssumption
  <2>2. \A q \in Requesters : req'[q] = IF q = r THEN [req[r] EXCEPT !.pc = "granted"] ELSE req[q]
    BY DEF ClaimGranted, IInv, TypeOK
  <2>3. req'[r].stamp = now
    BY <2>2 DEF IInv, TypeOK, Request
  <2>4. \A q \in Requesters : q # r => UnderWay(q)' = UnderWay(q) /\ req'[q].stamp = req[q].stamp
    BY <2>2 DEF UnderWay
  <2>5. \A q \in Requesters : q # r /\ UnderWay(q) => req[q].stamp \in claims
    BY DEF IInv, SentIsPaid
  <2>6. \A p, q \in Requesters :
          UnderWay(p) /\ UnderWay(q) /\ req[p].stamp = req[q].stamp => p = q
    BY DEF IInv, SentIsPaid
  <2>7. ASSUME NEW q \in Requesters, UnderWay(q)' PROVE req'[q].stamp \in claims'
    BY <1>1, <2>3, <2>4, <2>5, <2>7
  <2>8. ASSUME NEW p \in Requesters, NEW q \in Requesters, UnderWay(p)', UnderWay(q)',
               req'[p].stamp = req'[q].stamp
        PROVE  p = q
    BY <2>1, <2>3, <2>4, <2>5, <2>6, <2>8
  <2> QED
    BY <2>7, <2>8 DEF SentIsPaid
<1> QED
  BY <1>3, <1>4, <1>5, <1>6, <1>7 DEF IInv

(* Steps other than a grant leave the granted stamps and the table alone.  *)
LEMMA OtherStep ==
  ASSUME IInv, TypeOK', [Next]_vars, \A r \in Requesters : ~ClaimGranted(r)
  PROVE  IInv'
<1>1. UNCHANGED <<audited, slots, claims>>
  BY DEF Next, vars, Begin, ClaimRefused, Send, Finish, Restart, VerifyLogin, Tick, StepBack
<1>2. \A r \in Requesters : UnderWay(r)' => UnderWay(r) /\ req'[r].stamp = req[r].stamp
  <2> SUFFICES ASSUME NEW r \in Requesters, UnderWay(r)'
               PROVE  UnderWay(r) /\ req'[r].stamp = req[r].stamp
    OBVIOUS
  <2>0. req \in [Requesters -> Request]
    BY DEF IInv, TypeOK
  <2>1. ASSUME NEW q \in Requesters, Begin(q) \/ ClaimRefused(q) \/ Send(q) \/ Finish(q)
        PROVE  UnderWay(r) /\ req'[r].stamp = req[r].stamp
    <3>1. req[q] \in Request /\ req[r] \in Request
      BY <2>0
    <3>2. CASE Begin(q) \/ ClaimRefused(q) \/ Finish(q)
      <4> DEFINE B == [Idle EXCEPT !.pc = "claiming", !.stamp = clock]
      <4>1. req' = [req EXCEPT ![q] = B] \/ req' = [req EXCEPT ![q] = Idle]
        BY <3>2 DEF Begin, ClaimRefused, Finish
      <4>0. B.pc = "claiming" /\ Idle.pc = "idle"
        BY DEF Idle
      <4> HIDE DEF B
      <4>2. q # r
        BY <2>0, <4>1, <4>0 DEF UnderWay
      <4>3. req'[r] = req[r]
        BY <2>0, <4>1, <4>2
      <4> QED
        BY <4>3 DEF UnderWay
    <3>3. CASE Send(q)
      <4>1. req' = [req EXCEPT ![q].pc = "inflight", ![q].sentAt = clock]
        BY <3>3 DEF Send
      <4>2. req[q].pc = "granted" /\ req'[q].stamp = req[q].stamp
        BY <2>0, <3>1, <3>3, <4>1 DEF Send, Request
      <4>3. q # r => req'[r] = req[r]
        BY <2>0, <4>1
      <4> QED
        BY <4>2, <4>3 DEF UnderWay
    <3> QED
      BY <2>1, <3>2, <3>3
  <2>2. ASSUME NEW p \in Processes, Restart(p)
        PROVE  UnderWay(r) /\ req'[r].stamp = req[r].stamp
    BY <2>0, <2>2 DEF UnderWay, Restart, Idle
  <2>3. CASE UNCHANGED req
    BY <2>3 DEF UnderWay
  <2> QED
    BY <2>1, <2>2, <2>3 DEF Next, vars, VerifyLogin, Tick, StepBack
<1>3. FinitelyMany' /\ Kept' /\ Spacing' /\ WindowLimit'
  BY <1>1 DEF IInv, FinitelyMany, Kept, Spacing, WindowLimit
<1>4. SentIsPaid'
  BY <1>1, <1>2 DEF IInv, SentIsPaid
<1> QED
  BY <1>3, <1>4 DEF IInv

(* The invariant holds of the initial states: nothing was granted yet.     *)
LEMMA InitIInv ==
  ASSUME Init, TypeOK
  PROVE  IInv
<1>1. FinitelyMany
  BY FS_EmptySet DEF Init, FinitelyMany
<1>2. Kept /\ Spacing /\ WindowLimit
  BY DEF Init, Kept, Spacing, WindowLimit
<1>3. SentIsPaid
  BY DEF Init, SentIsPaid, UnderWay, Idle
<1> QED
  BY <1>1, <1>2, <1>3 DEF IInv

(* Every reachable state satisfies the inductive invariant.                *)
THEOREM InductiveInvariant == Spec => []IInv
<1>1. Init /\ TypeOK => IInv
  BY InitIInv
<1>2. IInv /\ TypeOK' /\ [Next]_vars => IInv'
  BY GrantStep, OtherStep
<1> QED
  BY <1>1, <1>2, TypeCorrect, PTL DEF Spec

(* claim_history_request keeps every two history requests of all sources   *)
(* minimum_interval_seconds apart, for every interleaving of the two       *)
(* processes' claims, every restart and every way the wall clock moves.    *)
THEOREM SpacingHolds == Spec => []Spacing
<1>1. IInv => Spacing
  BY DEF IInv
<1> QED
  BY <1>1, InductiveInvariant, PTL

(* claim_history_request never grants a request whose rolling window would *)
(* then hold more than daily_limit requests, although it deletes old slots.*)
THEOREM WindowLimitHolds == Spec => []WindowLimit
<1>1. IInv => WindowLimit
  BY DEF IInv
<1> QED
  BY <1>1, InductiveInvariant, PTL

(* No two requests leave on one slot, and none leaves without a slot.      *)
THEOREM SentIsPaidHolds == Spec => []SentIsPaid
<1>1. IInv => SentIsPaid
  BY DEF IInv
<1> QED
  BY <1>1, InductiveInvariant, PTL

-----------------------------------------------------------------------------
(* A granted claim is a grant of the abstract budget: the requests of the  *)
(* window before it are all among those the transaction counted.           *)
LEMMA GrantRefines ==
  ASSUME IInv, NEW r \in Requesters, ClaimGranted(r)
  PROVE  Promised!Next
<1> DEFINE now == req[r].stamp
           W == {t \in audited \cup claims : t >= now - Window}
<1>0. now \in Nat /\ slots \subseteq Nat /\ claims \subseteq Nat /\ audited \subseteq Int
  BY BudgetAssumption DEF IInv, TypeOK, Request
<1>1. \A t \in audited \cup claims : t \in Int /\ t <= now - Interval /\ t + Interval <= now /\ t < now
  <2>1. \A t \in audited \cup claims : t <= now - Interval
    BY GrantedIsLatest
  <2> QED
    BY <1>0, <2>1, ConstantOrder
<1>2. W \subseteq Times(now)
  <2>1. {t \in audited \cup claims' : now - Window <= t /\ t <= now} \subseteq Times(now) \cup {now}
    BY GrantedWindow
  <2>2. claims \subseteq claims'
    BY DEF ClaimGranted
  <2> QED
    BY <1>0, <1>1, <2>1, <2>2, ConstantOrder
<1>3. IsFiniteSet(Times(now))
  <2>1. IsFiniteSet(audited) /\ IsFiniteSet(slots)
    BY BudgetAssumption, FS_Subset DEF IInv, TypeOK, FinitelyMany, Kept
  <2>2. IsFiniteSet(audited \cup slots)
    BY <2>1, FS_Union
  <2> QED
    BY <2>2, FS_Subset DEF Times
<1>4. Cardinality(Times(now)) \in Nat /\ Cardinality(Times(now)) < Limit
  BY <1>3, FS_CardinalityType, BudgetAssumption DEF ClaimGranted, Allowed, Exhausted
<1>5. Cardinality(W) \in Nat /\ Cardinality(W) <= Cardinality(Times(now))
  BY <1>2, <1>3, FS_Subset, FS_CardinalityType
<1>6. Cardinality(W) < Limit
  BY <1>4, <1>5, BudgetAssumption
<1>7. (audited \cup claims)' = (audited \cup claims) \cup {now}
  BY DEF ClaimGranted
<1>8. now \in (audited \cup claims)' \ (audited \cup claims)
  BY <1>0, <1>1, <1>7
<1>9. Promised!Grant(now)
  <2>1. Promised!Cardinality(W) = Cardinality(W)
    BY DEF Promised!Cardinality, Cardinality
  <2> QED
    BY <1>1, <1>6, <1>7, <2>1 DEF Promised!Grant
<1> QED
  BY <1>8, <1>9 DEF Promised!Next

(* The budget of the two processes implements the abstract rolling window: *)
(* it grants in the order of the times, each Interval after all earlier    *)
(* ones and never beyond Limit, for all values of the constants.           *)
THEOREM ImplementsRollingWindow == Spec => BudgetIsRollingWindow
<1>1. Init => Promised!Init
  <2> SUFFICES ASSUME Init PROVE Promised!Init
    OBVIOUS
  <2>1. audited \cup claims \subseteq LegacyTimes
    BY DEF Init
  <2>2. IsFiniteSet(audited \cup claims)
    BY <2>1, BudgetAssumption, FS_Subset
  <2>3. Promised!IsFiniteSet(audited \cup claims)
    BY <2>2 DEF Promised!IsFiniteSet, IsFiniteSet
  <2> QED
    BY <2>1, <2>3, BudgetAssumption DEF Promised!Init
<1>2. IInv /\ [Next]_vars => [Promised!Next]_(audited \cup claims)
  <2> SUFFICES ASSUME IInv, [Next]_vars, \A r \in Requesters : ~ClaimGranted(r)
               PROVE  UNCHANGED (audited \cup claims)
    BY GrantRefines
  <2> QED
    BY DEF Next, vars, Begin, ClaimRefused, Send, Finish, Restart, VerifyLogin, Tick, StepBack
<1> QED
  BY <1>1, <1>2, InductiveInvariant, PTL DEF Spec, BudgetIsRollingWindow, Promised!Spec


-----------------------------------------------------------------------------
(* The promise of a refusal                                                *)

(* A set of natural numbers has a least one.                               *)
LEMMA LeastExists ==
  ASSUME NEW T \in SUBSET Nat, T # {}
  PROVE  \E x \in T : \A y \in T : x <= y
<1> DEFINE R == OpToRel(<, Nat)
<1>1. IsWellFoundedOn(R, Nat)
  BY NatLessThanWellFounded
<1>2. \A x, y \in Nat : <<x, y>> \in R <=> x < y
  BY DEF OpToRel
<1> HIDE DEF R
<1>3. \E x \in T : \A y \in T : ~(<<y, x>> \in R)
  BY <1>1, WFMin
<1>4. \E x \in T : \A y \in T : ~(y < x)
  BY <1>2, <1>3, Zenon
<1> QED
  BY <1>4

(* A finite set of times has an earliest one: the one with the fewest      *)
(* before it.                                                              *)
LEMMA EarliestExists ==
  ASSUME NEW S \in SUBSET Int, IsFiniteSet(S), S # {}
  PROVE  \E x \in S : \A y \in S : x <= y
<1> DEFINE Before(u) == {v \in S : v < u}
           Ranks == {Cardinality(Before(u)) : u \in S}
<1>1. \A u \in S : IsFiniteSet(Before(u)) /\ Cardinality(Before(u)) \in Nat
  BY FS_Subset, FS_CardinalityType
<1>2. Ranks \in SUBSET Nat /\ Ranks # {}
  BY <1>1
<1>3. PICK k \in Ranks : \A m \in Ranks : k <= m
  <2> HIDE DEF Ranks
  <2> QED
    BY <1>2, LeastExists
<1>4. PICK x \in S : k = Cardinality(Before(x))
  OBVIOUS
<1>5. ASSUME NEW y \in S, y < x
      PROVE  FALSE
  <2>0. x \in Int /\ y \in Int /\ \A v \in S : v \in Int
    OBVIOUS
  <2>1. Before(y) \subseteq Before(x) /\ y \in Before(x) /\ y \notin Before(y)
    <3>1. \A v \in S : v < y => v < x
      BY <1>5, <2>0
    <3>2. ~(y < y)
      BY <2>0
    <3> QED
      BY <1>5, <3>1, <3>2
  <2>2. Cardinality(Before(y)) <= Cardinality(Before(x))
    BY <1>1, <2>1, FS_Subset
  <2>3. Cardinality(Before(y)) # Cardinality(Before(x))
    BY <1>1, <2>1, FS_Subset
  <2>4. Cardinality(Before(x)) <= Cardinality(Before(y))
    BY <1>3, <1>4
  <2>5. Cardinality(Before(x)) \in Nat /\ Cardinality(Before(y)) \in Nat
    BY <1>1
  <2> HIDE DEF Before
  <2> QED
    BY <2>2, <2>3, <2>4, <2>5
<1> QED
  BY <1>5

(* times[-n] is there when at least n times are.                           *)
LEMMA NthLatestExists ==
  ASSUME NEW S \in SUBSET Int, IsFiniteSet(S), NEW n \in Nat \ {0}, n <= Cardinality(S)
  PROVE  \E u \in S : Cardinality({v \in S : v >= u}) = n
<1> DEFINE From(u) == {v \in S : v >= u}
           Enough == {u \in S : Cardinality(From(u)) >= n}
           Ranks == {Cardinality(From(u)) : u \in Enough}
<1>1. \A u \in S : IsFiniteSet(From(u)) /\ Cardinality(From(u)) \in Nat
  BY FS_Subset, FS_CardinalityType
<1>2. Cardinality(S) \in Nat /\ S # {}
  BY FS_CardinalityType, FS_EmptySet
<1>3. Enough # {}
  <2>1. PICK x \in S : \A y \in S : x <= y
    BY <1>2, EarliestExists
  <2>2. From(x) = S
    BY <2>1
  <2> QED
    BY <1>2, <2>2
<1>4. Ranks \in SUBSET Nat /\ Ranks # {}
  BY <1>1, <1>3
<1>5. PICK k \in Ranks : \A m \in Ranks : k <= m
  <2> HIDE DEF Ranks
  <2> QED
    BY <1>4, LeastExists
<1>6. PICK u \in Enough : k = Cardinality(From(u))
  OBVIOUS
<1>7. CASE k > n
  <2> DEFINE Later == From(u) \ {u}
  <2>0. u \in S /\ u \in Int /\ u \in From(u) /\ \A v \in S : v \in Int
    <3>1. u \in S
      BY <1>6
    <3>2. \A v \in S : v \in Int
      OBVIOUS
    <3>3. u \in Int /\ u >= u
      BY <3>1, <3>2
    <3> QED
      BY <3>1, <3>2, <3>3
  <2>1. /\ Later \in SUBSET Int
        /\ IsFiniteSet(Later) /\ Cardinality(Later) = k - 1
        /\ \A v \in S : v \in Later <=> v > u
    <3>1. IsFiniteSet(From(u)) /\ u \in From(u)
      BY <1>1, <2>0
    <3>2. IsFiniteSet(Later) /\ Cardinality(Later) = Cardinality(From(u)) - 1
      <4> HIDE DEF From
      <4> QED
        BY <3>1, FS_RemoveElement
    <3>3. \A v \in S : v \in Later <=> v > u
      BY <2>0
    <3> QED
      BY <1>6, <2>0, <3>2, <3>3
  <2>2. k - 1 \in Nat /\ k - 1 >= n /\ k - 1 # 0 /\ k - 1 < k
    <3>1. k \in Nat
      BY <1>4
    <3> QED
      BY <1>7, <3>1
  <2>3. Later # {}
    BY <2>1, <2>2, FS_EmptySet
  <2>4. PICK w \in Later : \A y \in Later : w <= y
    <3> HIDE DEF Later
    <3> QED
      BY <2>1, <2>3, EarliestExists
  <2>5. From(w) = Later
    <3>1. w \in S /\ w > u /\ w \in Int
      BY <2>0, <2>1
    <3>2. \A v \in S : v \in Later <=> v >= w
      <4> SUFFICES ASSUME NEW v \in S PROVE v \in Later <=> v >= w
        OBVIOUS
      <4>1. v \in Later => v >= w
        BY <2>0, <2>4, <3>1
      <4>2. v >= w => v > u
        BY <2>0, <3>1
      <4> QED
        BY <2>1, <4>1, <4>2
    <3> QED
      BY <3>2
  <2>6. w \in Enough
    <3>1. Cardinality(From(w)) = k - 1 /\ w \in S
      BY <2>1, <2>5
    <3> QED
      BY <2>2, <3>1
  <2>7. k <= k - 1
    <3>1. Cardinality(From(w)) = k - 1
      BY <2>1, <2>5
    <3>2. k - 1 \in Ranks
      BY <2>6, <3>1
    <3> QED
      BY <1>5, <3>2
  <2>8. k \in Nat
    BY <1>4
  <2> HIDE DEF Ranks
  <2> QED
    BY <2>7, <2>8
<1>8. k >= n /\ k \in Nat
  BY <1>4, <1>6
<1> QED
  BY <1>6, <1>7, <1>8


(* The next times of finitely many requests are finitely many.             *)
LEMMA NextTimesAreTimes ==
  ASSUME NEW S \in SUBSET Int, IsFiniteSet(S)
  PROVE  NextTimes(S) \in SUBSET Int /\ IsFiniteSet(NextTimes(S))
<1> DEFINE Last == {u \in S : Cardinality({v \in S : v >= u}) = Limit}
           Spaced == {t + Interval : t \in S}
           Past == {t + Window : t \in Last}
<1>1. IsFiniteSet(Spaced)
  <2>1. [t \in S |-> t + Interval] \in Surjection(S, Spaced)
    BY DEF Surjection
  <2> QED
    BY <2>1, FS_Surjection
<1>2. IsFiniteSet(Past)
  <2>1. IsFiniteSet(Last)
    BY FS_Subset
  <2>2. [t \in Last |-> t + Window] \in Surjection(Last, Past)
    BY DEF Surjection
  <2> QED
    BY <2>1, <2>2, FS_Surjection
<1>3. NextTimes(S) = Spaced \cup Past
  BY DEF NextTimes
<1>4. IsFiniteSet(Spaced \cup Past)
  <2> HIDE DEF Spaced, Past
  <2> QED
    BY <1>1, <1>2, FS_Union
<1>5. Spaced \in SUBSET Int /\ Past \in SUBSET Int
  <2>1. \A t \in S : t \in Int /\ t + Interval \in Int /\ t + Window \in Int
    BY ConstantOrder
  <2>2. \A t \in Spaced : t \in Int
    BY <2>1
  <2>3. \A t \in Past : t \in Int
    BY <2>1
  <2> QED
    BY <2>2, <2>3
<1> QED
  BY <1>3, <1>4, <1>5

(* next_eligible_at is the latest of the next times.                       *)
LEMMA EligibleIsLatest ==
  ASSUME NEW S \in SUBSET Int, IsFiniteSet(S), S # {}
  PROVE  NthLatest(S, 1) \in S /\ \A t \in S : t <= NthLatest(S, 1)
<1> DEFINE From(u) == {v \in S : v >= u}
           last == NthLatest(S, 1)
<1>1. 1 <= Cardinality(S)
  <2>1. Cardinality(S) \in Nat /\ Cardinality(S) # 0
    BY FS_CardinalityType, FS_EmptySet
  <2> QED
    BY <2>1
<1>2. \E u \in S : Cardinality(From(u)) = 1
  BY <1>1, NthLatestExists
<1>3. last \in S /\ Cardinality(From(last)) = 1
  BY <1>2 DEF NthLatest
<1>4. IsFiniteSet(From(last)) /\ last \in From(last)
  <2>1. last \in S /\ last \in Int
    BY <1>3
  <2>2. last >= last
    BY <2>1
  <2> QED
    BY <2>1, <2>2, FS_Subset
<1>5. PICK x : From(last) = {x}
  <2> HIDE DEF From
  <2> QED
    BY <1>3, <1>4, FS_Singleton
<1>6. ASSUME NEW t \in S
      PROVE  t <= last
  <2>1. t \in Int /\ last \in Int
    BY <1>3
  <2>2. t >= last => t = last
    BY <1>4, <1>5
  <2> HIDE DEF last
  <2> QED
    BY <2>1, <2>2
<1> QED
  BY <1>3, <1>6

(* Once next_eligible_at has passed, the requests the refusal counted no   *)
(* longer forbid anything: they are Interval old, and if they filled the   *)
(* budget the Limit-th latest of them has left the window.                 *)
LEMMA EligibleIsAllowed ==
  ASSUME IInv, NEW now \in Int, ~Allowed(now), NEW later \in Nat \ {0}
  PROVE  Allowed(NextEligible(now) + later)
<1> DEFINE S == Times(now)
           next == NextEligible(now)
           L == next + later
           T == Times(L)
<1>1. S \in SUBSET Int /\ IsFiniteSet(S)
  <2>1. IsFiniteSet(audited) /\ IsFiniteSet(slots)
    BY BudgetAssumption, FS_Subset DEF IInv, TypeOK, FinitelyMany, Kept
  <2>2. IsFiniteSet(audited \cup slots)
    BY <2>1, FS_Union
  <2>3. audited \subseteq Int /\ slots \subseteq Int
    BY BudgetAssumption DEF IInv, TypeOK
  <2> QED
    BY <2>2, <2>3, FS_Subset DEF Times
<1>2. Cardinality(S) \in Nat /\ \A t \in S : t >= now - Window
  BY <1>1, FS_CardinalityType DEF Times
<1>3. NextTimes(S) \in SUBSET Int /\ IsFiniteSet(NextTimes(S))
  <2> HIDE DEF S
  <2> QED
    BY <1>1, NextTimesAreTimes
<1>4. Limit \in Nat \ {0}
  BY BudgetAssumption
<1>5. Cardinality(S) >= Limit
        => \E u \in S : Cardinality({v \in S : v >= u}) = Limit
  <2> HIDE DEF S
  <2> QED
    BY <1>1, <1>2, <1>4, NthLatestExists
<1>6. /\ Cardinality(S) >= Limit
           => \E u \in S : /\ Cardinality({v \in S : v >= u}) = Limit
                           /\ u + Window \in NextTimes(S) /\ u + Window >= now
      /\ \A t \in S : t + Interval \in NextTimes(S)
  <2>1. \A u \in S : u + Window >= now
    BY <1>1, <1>2, ConstantOrder
  <2> HIDE DEF S
  <2> QED
    BY <1>5, <2>1 DEF NextTimes
<1>7. \E t \in NextTimes(S) : t >= now
  <2>1. CASE Exhausted(now)
    BY <1>6, <2>1 DEF Exhausted
  <2>2. CASE ~Exhausted(now)
    <3>1. PICK t \in NextTimes(S) : ~(t <= now)
      BY <2>2 DEF Allowed
    <3>2. t \in Int
      BY <1>3
    <3> QED
      BY <3>1, <3>2
  <2> QED
    BY <2>1, <2>2
<1>8. next \in NextTimes(S) /\ \A t \in NextTimes(S) : t <= next
  <2>1. NextTimes(S) # {}
    BY <1>7
  <2>2. next = NthLatest(NextTimes(S), 1)
    BY DEF NextEligible
  <2> HIDE DEF S, next
  <2> QED
    BY <1>3, <2>1, <2>2, EligibleIsLatest
<1>9. next \in Int /\ next >= now /\ L \in Int /\ L > next /\ L > now
  <2>1. next \in Int /\ L = next + later
    BY <1>3, <1>8
  <2>2. PICK t \in NextTimes(S) : t >= now
    BY <1>7
  <2>3. t \in Int /\ t <= next
    BY <1>3, <1>8
  <2> HIDE DEF next, L
  <2> QED
    BY <2>1, <2>2, <2>3
<1>10. T = {t \in S : t >= L - Window}
  <2>1. audited \subseteq Int /\ slots \subseteq Int
    BY BudgetAssumption DEF IInv, TypeOK
  <2> HIDE DEF L
  <2>2. L - Window >= now - Window
    BY <1>9, ConstantOrder
  <2>3. \A t \in audited \cup slots : t \in Int /\ (t >= L - Window => t >= now - Window)
    BY <1>9, <2>1, <2>2, ConstantOrder
  <2> QED
    BY <2>3 DEF Times
<1>11. T \in SUBSET S /\ IsFiniteSet(T) /\ Cardinality(T) \in Nat
  <2>1. T \in SUBSET S
    BY <1>10
  <2> HIDE DEF S, T
  <2> QED
    BY <1>1, <2>1, FS_Subset, FS_CardinalityType
<1>12. Cardinality(T) < Limit
  <2>1. CASE Cardinality(S) < Limit
    <3>1. Cardinality(T) <= Cardinality(S)
      <4> HIDE DEF S, T
      <4> QED
        BY <1>1, <1>11, FS_Subset
    <3> HIDE DEF S, T
    <3> QED
      BY <1>2, <1>4, <1>11, <2>1, <3>1
  <2>2. CASE Cardinality(S) >= Limit
    <3>1. PICK u \in S : /\ Cardinality({v \in S : v >= u}) = Limit
                         /\ u + Window \in NextTimes(S)
      BY <1>6, <2>2
    <3> DEFINE Newest == {v \in S : v >= u}
               Left == Newest \ {u}
    <3>2. u \in Int /\ u + Window <= next /\ \A v \in S : v \in Int
      BY <1>1, <1>8, <3>1
    <3>3. IsFiniteSet(Newest) /\ u \in Newest
      BY <1>1, <3>2, FS_Subset
    <3>4. IsFiniteSet(Left) /\ Cardinality(Left) = Limit - 1
      <4>1. Cardinality(Newest) = Limit
        BY <3>1
      <4> HIDE DEF Newest
      <4> QED
        BY <3>3, <4>1, FS_RemoveElement
    <3>5. T \in SUBSET Left
      <4> HIDE DEF S, T, L, next
      <4>1. \A v \in S : v >= L - Window => v >= u /\ v # u
        BY <1>9, <3>2, ConstantOrder
      <4> QED
        BY <1>10, <4>1
    <3>6. Cardinality(T) <= Limit - 1
      <4> HIDE DEF T, Left
      <4> QED
        BY <3>4, <3>5, FS_Subset
    <3> HIDE DEF T
    <3> QED
      BY <1>4, <1>11, <3>6
  <2> HIDE DEF S
  <2> QED
    BY <1>2, <1>4, <2>1, <2>2
<1>13. \A t \in NextTimes(T) : t <= L
  <2> HIDE DEF S, T, L, next
  <2>1. \A u \in T : Cardinality({v \in T : v >= u}) # Limit
    <3> SUFFICES ASSUME NEW u \in T PROVE Cardinality({v \in T : v >= u}) # Limit
      OBVIOUS
    <3> DEFINE Newest == {v \in T : v >= u}
    <3>1. IsFiniteSet(Newest) /\ Cardinality(Newest) <= Cardinality(T)
      BY <1>11, FS_Subset
    <3>2. Cardinality(Newest) \in Nat
      BY <3>1, FS_CardinalityType
    <3> HIDE DEF Newest
    <3>3. Cardinality(Newest) # Limit
      BY <1>4, <1>11, <1>12, <3>1, <3>2
    <3> QED
      BY <3>3 DEF Newest
  <2>2. \A t \in T : t + Interval <= L
    <3> SUFFICES ASSUME NEW t \in T PROVE t + Interval <= L
      OBVIOUS
    <3>1. t \in Int /\ t + Interval <= next
      BY <1>1, <1>6, <1>8, <1>11
    <3> QED
      BY <1>9, <3>1, ConstantOrder
  <2> QED
    BY <2>1, <2>2 DEF NextTimes
<1>14. ~Exhausted(L)
  <2>1. Cardinality(Times(L)) < Limit
    BY <1>12
  <2>2. Cardinality(Times(L)) \in Nat
    BY <1>11
  <2> HIDE DEF L
  <2> QED
    BY <1>4, <2>1, <2>2 DEF Exhausted
<1> QED
  BY <1>13, <1>14 DEF Allowed

(* The next_eligible_at that claim_history_request returns with a refusal  *)
(* is a promise: from the tick after it on the budget allows the request,  *)
(* unless another one was granted meanwhile.                               *)
THEOREM PromiseKeptHolds == Spec => []PromiseKept
<1>1. IInv => PromiseKept
  <2> SUFFICES ASSUME IInv, NEW r \in Requesters, ~Allowed(req[r].stamp),
                      NEW later \in 1 .. Window
               PROVE  Allowed(NextEligible(req[r].stamp) + later)
    BY DEF PromiseKept
  <2>1. req[r].stamp \in Int
    BY DEF IInv, TypeOK, Request
  <2>2. later \in Nat \ {0}
    BY ConstantOrder
  <2> QED
    BY <2>1, <2>2, EligibleIsAllowed
<1> QED
  BY <1>1, InductiveInvariant, PTL
=============================================================================
