------------------------ MODULE AccountSwitchProofs -------------------------
(***************************************************************************)
(* For any accounts, any number of switches and completions and any        *)
(* limits: the types, that one switch is under way and one account active, *)
(* that the failures of a target stay within their limit, that an account  *)
(* becomes active only in the process configured for it, and that the host *)
(* moves the service only for a switch under way.                          *)
(***************************************************************************)
EXTENDS AccountSwitch, FiniteSetTheorems, TLAPS

-----------------------------------------------------------------------------
(* The inductive invariant                                                 *)

Begun == {s \in Switches : switch[s].status # "none"}

(* The switch a file, a page, the script or a completion names was begun.  *)
NamedAreBegun ==
  {request, confirming, host.switch, report.switch} \cup {call[c].switch : c \in Calls}
    \subseteq Begun \cup {None}

OneOpen == \A r, s \in Open : r = s

(* The failures that count against a switch begun for the target t at time *)
(* x, and those within a day that begins at x.                             *)
CountedSince(t, x) ==
  {r \in Switches \ overtaken : /\ switch[r].status = "failed"
                                /\ switch[r].target = t
                                /\ switch[r].at >= x - Day}

CountedWithin(t, x) ==
  {r \in Switches \ overtaken : /\ switch[r].status = "failed"
                                /\ switch[r].target = t
                                /\ switch[r].at \in x .. x + Day}

(* A switch under way was begun within the limit, and no other has failed  *)
(* since: there was none to fail.                                          *)
FailuresCounted ==
  /\ IsFiniteSet(Begun)
  /\ \A s \in Open : Cardinality(CountedSince(switch[s].target, switch[s].at)) < Failures
  /\ \A s \in Switches : Cardinality(CountedWithin(switch[s].target, switch[s].at)) <= Failures

(* The target of the switch under way is not the active account.           *)
TargetsNotActive ==
  overtaken = {} =>
    /\ \E a \in Accounts : Active = {a}
    /\ \A s \in Open : account[switch[s].target] # "active"

(* A page is confirming a switch that is still only requested: whatever    *)
(* could change it waits for the page.                                     *)
ConfirmingRequested == confirming # None => switch[confirming].status = "requested"

(* The process has a completion only for a switch to its own account, and  *)
(* the script has said what it works on.                                   *)
ProcessConfigured ==
  /\ host.at = "started" => app = env
  /\ \A c \in Calls : call[c].switch # None => app = switch[call[c].switch].target
  /\ host.at # "idle" => report = [switch |-> host.switch, status |-> "switching"]

(* The switches the host has yet to move the service for.                  *)
Outstanding ==
  {s \in Switches : \/ s = request
                    \/ s = host.switch /\ host.at \in {"taken", "stopped"}}

(* Where every confirmation was recorded, one is asked for once; the host  *)
(* has done nothing for it while its request waits; and it is still under  *)
(* way, or ended in the process that already runs for its target.          *)
ConfirmationsStand ==
  unrecorded = {} =>
    /\ \A s \in Switches : switch[s].status = "requested" /\ s # confirming =>
         s \notin {request, host.switch, report.switch}
    /\ request # None => request \notin {host.switch, report.switch}
    /\ request # None => host.switch \notin Open
    /\ \A s \in Outstanding : /\ switch[s].status # "awaiting_login"
                              /\ s \in Open \/ env = switch[s].target

(* A process that runs for another account than .env names is one the host *)
(* failed to stop for a switch that is still under way: nothing but the    *)
(* process that has yet to be started can end that switch.                 *)
LeftForOpen ==
  unrecorded = {} /\ app \notin {None, env} =>
    \E s \in Open : /\ switch[s].target = env
                    /\ switch[s].status = "host_pending" \/ s = confirming
                    /\ s \notin Outstanding
                    /\ report # [switch |-> s, status |-> "awaiting_login"]

IInv ==
  /\ TypeOK /\ NamedAreBegun /\ OneOpen /\ FailuresCounted /\ TargetsNotActive
  /\ ConfirmingRequested /\ ProcessConfigured /\ ConfirmationsStand /\ LeftForOpen

(* The constants, one by one.                                              *)
LEMMA Limits ==
  /\ First \in Accounts /\ None \notin Accounts /\ None \notin Switches
  /\ Stale \in Nat /\ Cooldown \in Nat /\ Day \in Nat /\ Failures \in Nat /\ MaxTime \in Nat
  /\ Failures > 0
<1>1. {Stale, Cooldown, Day, Failures, MaxTime} \subseteq Nat
  BY SwitchAssumption DEF SwitchAssumption
<1> QED
  BY <1>1, SwitchAssumption DEF SwitchAssumption

(* What a file, a page, the script or a completion names, one by one.      *)
LEMMA Named ==
  ASSUME TypeOK, NamedAreBegun
  PROVE  /\ request # None => request \in Begun
         /\ confirming # None => confirming \in Begun
         /\ host.at # "idle" => host.switch \in Begun
         /\ report.switch # None => report.switch \in Begun
         /\ \A c \in Calls : call[c].switch # None => call[c].switch \in Begun
         /\ \A c \in Calls : call[c] # NoCall => call[c].switch # None
  BY DEF TypeOK, NamedAreBegun, NoCall

(* The initial states.                                                     *)
LEMMA InitSatisfies == Init => IInv
<1> SUFFICES ASSUME Init PROVE IInv
  OBVIOUS
<1>1. /\ \A s \in Switches : switch[s] = NoSwitch
      /\ \A c \in Calls : call[c] = NoCall
      /\ overtaken = {} /\ Begun = {} /\ Open = {} /\ Outstanding = {} /\ Active = {First}
  BY Limits DEF Init, Begun, Open, OpenStatuses, Outstanding, Active, NoSwitch, HostIdle
<1>2. TypeOK
  <2>1. NoSwitch \in SwitchType
    BY Limits DEF NoSwitch, SwitchType
  <2>2. /\ account \in [Accounts -> {"unregistered", "registered", "pending", "active"}]
        /\ switch \in [Switches -> SwitchType]
    BY <2>1 DEF Init
  <2>3. /\ request = None /\ confirming = None /\ env \in Accounts /\ app \in Accounts
        /\ login \in Accounts \cup {None}
        /\ overtaken \in SUBSET Switches /\ unrecorded \in SUBSET Switches
    BY Limits DEF Init
  <2>6. stable \in BOOLEAN
    BY DEF Init
  <2>7. now \in 0 .. MaxTime
    BY Limits DEF Init
  <2>4. /\ host \in [at : {"idle", "taken", "stopped", "moved", "started"},
                    switch : Switches \cup {None}]
        /\ host.at = "idle" /\ host.switch = None
        /\ report \in [switch : Switches \cup {None},
                      status : {"not_started", "switching", "failed", "awaiting_login"}]
    BY DEF Init, HostIdle
  <2>5. /\ call \in [Calls -> [step : {"idle", "waiting", "login", "groups"},
                              switch : Switches \cup {None}]]
        /\ \A c \in Calls : call[c].step = "idle" /\ call[c].switch = None
    BY DEF Init, NoCall
  <2> QED
    BY <2>2, <2>3, <2>4, <2>5, <2>6, <2>7 DEF TypeOK
<1>3. NamedAreBegun /\ OneOpen
  BY <1>1 DEF Init, NamedAreBegun, OneOpen, NoCall, HostIdle
<1>4. FailuresCounted
  <2>1. \A s \in Switches : CountedWithin(switch[s].target, switch[s].at) = {}
    BY <1>1 DEF CountedWithin, NoSwitch
  <2> QED
    BY <1>1, <2>1, FS_EmptySet, Limits DEF FailuresCounted
<1>5. TargetsNotActive /\ ConfirmingRequested /\ ProcessConfigured /\ ConfirmationsStand
  BY <1>1, Limits DEF Init, TargetsNotActive, ConfirmingRequested, ProcessConfigured, ConfirmationsStand,
     NoCall, NoSwitch, HostIdle
<1>6. LeftForOpen
  BY DEF Init, LeftForOpen
<1> QED
  BY <1>2, <1>3, <1>4, <1>5, <1>6 DEF IInv

-----------------------------------------------------------------------------
(* Statuses that are written                                               *)

(* Only the status of the switch changes, and the accounts keep their      *)
(* shape.                                                                  *)
LEMMA RowWritten ==
  ASSUME TypeOK, NEW s \in Switches, NEW status \in OpenStatuses \cup Ended, Writes(s, status)
  PROVE  /\ switch' \in [Switches -> SwitchType]
         /\ \A r \in Switches : /\ switch'[r].target = switch[r].target
                                /\ switch'[r].at = switch[r].at
                                /\ switch'[r].status = IF r = s THEN status ELSE switch[r].status
         /\ account' \in [Accounts -> {"unregistered", "registered", "pending", "active"}]
<1>1. switch' = [switch EXCEPT ![s].status = status]
  BY DEF Writes
<1>2. \A r \in Switches : switch[r] \in SwitchType
  BY DEF TypeOK
<1>3. \A r \in Switches : /\ switch'[r].target = switch[r].target
                          /\ switch'[r].at = switch[r].at
                          /\ switch'[r].status = IF r = s THEN status ELSE switch[r].status
  BY <1>1, <1>2 DEF TypeOK, SwitchType
<1>4. switch' \in [Switches -> SwitchType]
  BY <1>1, <1>2 DEF TypeOK, SwitchType
<1>5. account' \in [Accounts -> {"unregistered", "registered", "pending", "active"}]
  <2>1. switch[s].target \in Accounts
    BY <1>2 DEF SwitchType
  <2> QED
    BY <2>1 DEF Writes, Activated, TypeOK
<1> QED
  BY <1>3, <1>4, <1>5

(* What is counted is finite.                                              *)
LEMMA CountedFinite ==
  ASSUME IsFiniteSet(Begun), NEW t, NEW x
  PROVE  /\ CountedSince(t, x) \subseteq Begun /\ IsFiniteSet(CountedSince(t, x))
         /\ CountedWithin(t, x) \subseteq Begun /\ IsFiniteSet(CountedWithin(t, x))
<1>1. CountedSince(t, x) \subseteq Begun /\ CountedWithin(t, x) \subseteq Begun
  BY DEF CountedSince, CountedWithin, Begun
<1> QED
  BY <1>1, FS_Subset

(* A status that opens nothing, and fails only what was under way or is    *)
(* exempt.  The failure of the switch under way is one more than those     *)
(* counted when it was begun.                                              *)
LEMMA WrittenKeepsRows ==
  ASSUME TypeOK, OneOpen, FailuresCounted,
         NEW s \in Begun, NEW status \in OpenStatuses \cup Ended, Writes(s, status),
         status \in OpenStatuses => s \in Open,
         overtaken \subseteq overtaken',
         status = "failed" => s \in Open \cup overtaken'
  PROVE  OneOpen' /\ FailuresCounted' /\ Begun' = Begun /\ Open' \subseteq Open
<1> s \in Switches /\ status # "none"
  BY DEF Begun, OpenStatuses, Ended
<1>1. \A r \in Switches : /\ switch'[r].target = switch[r].target
                          /\ switch'[r].at = switch[r].at
                          /\ switch'[r].status = IF r = s THEN status ELSE switch[r].status
  BY RowWritten
<1>2. Begun' = Begun
  BY <1>1 DEF Begun
<1>3. Open' \subseteq Open /\ (status \notin OpenStatuses => s \notin Open')
  BY <1>1 DEF Open
<1>4. OneOpen'
  BY <1>3 DEF OneOpen
<1>5. ASSUME NEW t, NEW x
      PROVE  /\ CountedSince(t, x)' \subseteq CountedSince(t, x) \cup {s}
             /\ CountedWithin(t, x)' \subseteq CountedWithin(t, x) \cup {s}
             /\ s \in CountedSince(t, x)' \cup CountedWithin(t, x)' =>
                  status = "failed" /\ s \in Open
  BY <1>1 DEF CountedSince, CountedWithin
<1>6. ASSUME NEW t, NEW x
      PROVE  /\ Cardinality(CountedSince(t, x)) \in Nat
             /\ Cardinality(CountedSince(t, x)') \in Nat
             /\ Cardinality(CountedWithin(t, x)) \in Nat
             /\ Cardinality(CountedWithin(t, x)') \in Nat
             /\ s \notin CountedSince(t, x)' =>
                  Cardinality(CountedSince(t, x)') <= Cardinality(CountedSince(t, x))
             /\ s \notin CountedWithin(t, x)' =>
                  Cardinality(CountedWithin(t, x)') <= Cardinality(CountedWithin(t, x))
  <2>1. /\ IsFiniteSet(CountedSince(t, x)) /\ IsFiniteSet(CountedWithin(t, x))
        /\ IsFiniteSet(CountedSince(t, x) \cup {s}) /\ IsFiniteSet(CountedWithin(t, x) \cup {s})
    BY CountedFinite, FS_AddElement DEF FailuresCounted
  <2>2. IsFiniteSet(CountedSince(t, x)') /\ IsFiniteSet(CountedWithin(t, x)')
    BY <1>5, <2>1, FS_Subset
  <2>3. s \notin CountedSince(t, x)' => CountedSince(t, x)' \subseteq CountedSince(t, x)
    BY <1>5
  <2>4. s \notin CountedWithin(t, x)' => CountedWithin(t, x)' \subseteq CountedWithin(t, x)
    BY <1>5
  <2> QED
    BY <2>1, <2>2, <2>3, <2>4, FS_CardinalityType, FS_Subset
<1>7. ASSUME NEW r \in Open'
      PROVE  Cardinality(CountedSince(switch[r].target, switch[r].at)') < Failures
  <2>1. PICK t, x : t = switch[r].target /\ x = switch[r].at
    OBVIOUS
  <2>2. r \in Open /\ r \in Switches /\ t = switch'[r].target /\ x = switch'[r].at
    BY <1>1, <1>3, <2>1 DEF Open
  <2>3. s \notin CountedSince(t, x)'
    BY <1>3, <1>5, <2>2 DEF OneOpen, OpenStatuses
  <2>4. Cardinality(CountedSince(t, x)) < Failures
    BY <2>1, <2>2 DEF FailuresCounted
  <2>5. Cardinality(CountedSince(t, x)') < Failures
    BY <1>6, <2>3, <2>4, Limits
  <2> QED
    BY <2>2, <2>5
<1>8. ASSUME NEW r \in Switches
      PROVE  Cardinality(CountedWithin(switch[r].target, switch[r].at)') <= Failures
  <2>1. PICK t, x : t = switch[r].target /\ x = switch[r].at
    OBVIOUS
  <2>2. t = switch'[r].target /\ x = switch'[r].at /\ x \in 0 .. MaxTime
    BY <1>1, <2>1 DEF TypeOK, SwitchType
  <2>3. Cardinality(CountedWithin(t, x)) <= Failures
    BY <2>1 DEF FailuresCounted
  <2>4. CASE s \notin CountedWithin(t, x)'
    BY <1>6, <2>2, <2>3, <2>4, Limits
  <2>5. CASE s \in CountedWithin(t, x)'
    <3>1. PICK u, y : u = switch[s].target /\ y = switch[s].at
      OBVIOUS
    <3>2. /\ status = "failed" /\ s \in Open
          /\ u = t /\ y \in x .. x + Day /\ y \in 0 .. MaxTime
      BY <1>1, <1>5, <2>5, <3>1 DEF CountedWithin, TypeOK, SwitchType
    <3>3. Cardinality(CountedSince(u, y)) < Failures
      BY <3>1, <3>2 DEF FailuresCounted
    <3>4. CountedWithin(t, x) \subseteq CountedSince(u, y)
      BY <2>2, <3>2, Limits DEF CountedWithin, CountedSince, TypeOK, SwitchType
    <3>5. CountedWithin(t, x)' \subseteq CountedSince(u, y) \cup {s}
      BY <1>5, <3>4
    <3>6. /\ IsFiniteSet(CountedSince(u, y) \cup {s})
          /\ Cardinality(CountedSince(u, y) \cup {s}) <= Cardinality(CountedSince(u, y)) + 1
          /\ Cardinality(CountedSince(u, y) \cup {s}) \in Nat
      <4> DEFINE C == CountedSince(u, y)
      <4>1. IsFiniteSet(C)
        BY CountedFinite DEF FailuresCounted
      <4> HIDE DEF C
      <4>2. /\ IsFiniteSet(C \cup {s}) /\ Cardinality(C) \in Nat
            /\ Cardinality(C \cup {s}) = IF s \in C THEN Cardinality(C) ELSE Cardinality(C) + 1
        BY <4>1, FS_AddElement, FS_CardinalityType
      <4> QED
        BY <4>2 DEF C
    <3>7. Cardinality(CountedWithin(t, x)') <= Cardinality(CountedSince(u, y) \cup {s})
      BY <3>5, <3>6, FS_Subset
    <3>8. Cardinality(CountedWithin(t, x)') <= Failures
      BY <1>6, <3>3, <3>6, <3>7, Limits
    <3> QED
      BY <2>2, <3>8
  <2> QED
    BY <2>4, <2>5
<1>9. FailuresCounted'
  <2>1. IsFiniteSet(Begun')
    BY <1>2 DEF FailuresCounted
  <2> QED
    BY <1>7, <1>8, <2>1 DEF FailuresCounted
<1> QED
  BY <1>2, <1>3, <1>4, <1>9

(* Steps that write no status.                                             *)
LEMMA RowsStand ==
  ASSUME OneOpen, FailuresCounted, UNCHANGED <<switch, overtaken>>
  PROVE  OneOpen' /\ FailuresCounted' /\ Begun' = Begun /\ Open' = Open
<1>1. Begun' = Begun /\ Open' = Open
  BY DEF Begun, Open
<1>2. OneOpen'
  BY <1>1 DEF OneOpen
<1>3. \A t, x : /\ CountedSince(t, x)' = CountedSince(t, x)
                /\ CountedWithin(t, x)' = CountedWithin(t, x)
  BY DEF CountedSince, CountedWithin
<1>4. FailuresCounted'
  BY <1>1, <1>3 DEF FailuresCounted
<1> QED
  BY <1>1, <1>2, <1>4

(* A process that starts leaves the account that is active so.             *)
LEMMA EnsuredKeepsAccounts ==
  ASSUME TypeOK, TargetsNotActive, NEW a \in Accounts, account' = Ensured(a),
         UNCHANGED <<switch, overtaken>>
  PROVE  /\ account' \in [Accounts -> {"unregistered", "registered", "pending", "active"}]
         /\ TargetsNotActive'
<1>1. account' \in [Accounts -> {"unregistered", "registered", "pending", "active"}]
  BY DEF Ensured, TypeOK
<1>2. overtaken = {} => Active' = Active
  <2> SUFFICES ASSUME overtaken = {} PROVE Active' = Active
    OBVIOUS
  <2>1. PICK b \in Accounts : Active = {b}
    BY DEF TargetsNotActive
  <2>2. \A c \in Accounts : account'[c] = "active" <=> account[c] = "active"
    BY <2>1 DEF Ensured, Active, TypeOK
  <2> QED
    BY <2>2 DEF Active
<1>3. \A s \in Open : switch[s].target \in Accounts
  BY DEF Open, TypeOK, SwitchType
<1>4. TargetsNotActive'
  <2>1. Open' = Open
    BY DEF Open
  <2> QED
    BY <1>2, <1>3, <2>1 DEF TargetsNotActive, Active
<1> QED
  BY <1>1, <1>4

-----------------------------------------------------------------------------
(* The steps                                                               *)

(* Steps of the user, the clock, the watchdog and the page that registers  *)
(* an account, and the start of the collector.                             *)
LEMMA QuietKeeps ==
  ASSUME IInv,
         \/ \E a \in Accounts : Registers(a)
         \/ CollectorRestarts \/ LoginChanges \/ SessionObserved \/ Tick
         \/ UNCHANGED vars
  PROVE  IInv'
<1>1. UNCHANGED <<switch, request, confirming, host, report, env, app, call, overtaken, unrecorded>>
  BY DEF Registers, CollectorRestarts, LoginChanges, SessionObserved, Tick, vars
<1>2. /\ account' \in [Accounts -> {"unregistered", "registered", "pending", "active"}]
      /\ TargetsNotActive'
  <2>1. CASE account' = account
    BY <1>1, <2>1 DEF IInv, TypeOK, TargetsNotActive, Active, Open
  <2>2. ASSUME NEW a \in Accounts, Registers(a)
        PROVE  /\ account' \in [Accounts -> {"unregistered", "registered", "pending", "active"}]
               /\ TargetsNotActive'
    <3>1. /\ account' = [account EXCEPT ![a] = "registered"]
          /\ \A b \in Accounts : account'[b] = "active" <=> account[b] = "active"
      BY <2>2 DEF Registers, IInv, TypeOK
    <3>2. Active' = Active /\ Open' = Open
      BY <1>1, <3>1 DEF Active, Open
    <3>3. \A s \in Open : switch[s].target \in Accounts
      BY DEF Open, IInv, TypeOK, SwitchType
    <3> QED
      BY <1>1, <3>1, <3>2, <3>3 DEF IInv, TypeOK, TargetsNotActive
  <2>3. ASSUME CollectorRestarts
        PROVE  /\ account' \in [Accounts -> {"unregistered", "registered", "pending", "active"}]
               /\ TargetsNotActive'
    <3>1. PICK a \in {First, env} : account' = Ensured(a)
      BY <2>3 DEF CollectorRestarts
    <3>2. a \in Accounts
      BY Limits DEF IInv, TypeOK
    <3> QED
      BY <1>1, <3>1, <3>2, EnsuredKeepsAccounts DEF IInv
  <2> QED
    BY <2>1, <2>2, <2>3 DEF LoginChanges, SessionObserved, Tick, vars
<1>3. login' \in Accounts \cup {None}
  BY DEF Registers, CollectorRestarts, LoginChanges, SessionObserved, Tick, vars, IInv, TypeOK
<1>4. stable' \in BOOLEAN
  BY DEF Registers, CollectorRestarts, LoginChanges, SessionObserved, Tick, vars, IInv, TypeOK
<1>5. now' \in 0 .. MaxTime
  BY Limits DEF Registers, CollectorRestarts, LoginChanges, SessionObserved, Tick, vars, IInv,
     TypeOK
<1>6. TypeOK'
  BY <1>1, <1>2, <1>3, <1>4, <1>5 DEF IInv, TypeOK
<1>7. OneOpen' /\ FailuresCounted' /\ Begun' = Begun /\ Open' = Open
  BY <1>1, RowsStand DEF IInv
<1>8. NamedAreBegun' /\ ConfirmingRequested' /\ ProcessConfigured'
  BY <1>1, <1>7 DEF IInv, NamedAreBegun, ConfirmingRequested, ProcessConfigured
<1>9. ConfirmationsStand'
  BY <1>1, <1>7 DEF IInv, ConfirmationsStand, Outstanding
<1>10. LeftForOpen'
  BY <1>1, <1>7 DEF IInv, LeftForOpen, Outstanding
<1> QED
  BY <1>2, <1>6, <1>7, <1>8, <1>9, <1>10 DEF IInv

(* The switch that is begun.  Those it finds under way have expired and    *)
(* are cancelled, and the failures that count against it are what the      *)
(* limits look at.                                                         *)
LEMMA BeginKeeps ==
  ASSUME IInv, NEW s \in Switches, NEW t \in Accounts, Begin(s, t)
  PROVE  IInv'
<1>1. /\ \A r \in Switches : switch[r] \in SwitchType
      /\ switch[s].status = "none" /\ s \notin Begun /\ s \notin Open
      /\ now \in 0 .. MaxTime
  BY DEF Begin, IInv, TypeOK, NoSwitch, Begun, Open, OpenStatuses
<1>2. \A r \in Switches : /\ switch'[r] \in SwitchType
                          /\ r = s => /\ switch'[r].status = "requested"
                                      /\ switch'[r].target = t
                                      /\ switch'[r].at = now
                          /\ r # s => /\ switch'[r].target = switch[r].target
                                      /\ switch'[r].at = switch[r].at
                          /\ r # s /\ Expired(r) => switch'[r].status = "cancelled"
                          /\ r # s /\ ~Expired(r) => switch'[r].status = switch[r].status
  BY <1>1 DEF Begin, SwitchType, OpenStatuses, Ended
<1>3. UNCHANGED <<account, request, confirming, host, report, env, app, login, stable, call, now,
                  overtaken, unrecorded>>
  BY DEF Begin
<1>4. switch' \in [Switches -> SwitchType]
  BY <1>2 DEF Begin
<1>5. TypeOK'
  BY <1>3, <1>4 DEF IInv, TypeOK
<1>6. Begun' = Begun \cup {s}
  BY <1>1, <1>2 DEF Begun, Expired
<1>7. Open' = {s}
  BY <1>1, <1>2 DEF Open, Begin, NoOtherOpen, OpenStatuses
<1>8. OneOpen'
  BY <1>7 DEF OneOpen
<1>9. FailuresCounted'
  <2>1. IsFiniteSet(Begun')
    BY <1>6, FS_AddElement DEF IInv, FailuresCounted
  <2>2. \A r \in Switches : switch'[r].status = "failed" => r # s /\ switch[r].status = "failed"
    BY <1>2
  <2>3. CountedSince(t, now)' \subseteq FailedSince(t, Day)
    BY <1>2, <1>3, <2>2 DEF CountedSince, FailedSince
  <2>4. CountedWithin(t, now)' \subseteq FailedSince(t, Day)
    BY <1>1, <1>2, <1>3, <2>2, Limits DEF CountedWithin, FailedSince, SwitchType
  <2>5. FailedSince(t, Day) \subseteq Begun
    BY DEF FailedSince, Begun
  <2>6. IsFiniteSet(FailedSince(t, Day)) /\ Cardinality(FailedSince(t, Day)) < Failures
    BY <2>5, FS_Subset DEF IInv, FailuresCounted, Begin, MayTry
  <2>7. /\ Cardinality(CountedSince(t, now)') < Failures
        /\ Cardinality(CountedWithin(t, now)') < Failures
    BY <2>3, <2>4, <2>6, Limits, FS_Subset, FS_CardinalityType
  <2>8. ASSUME NEW r \in Switches \ {s}
        PROVE  Cardinality(CountedWithin(switch[r].target, switch[r].at)') <= Failures
    <3>1. PICK u, x : u = switch[r].target /\ x = switch[r].at
      OBVIOUS
    <3>2. u = switch'[r].target /\ x = switch'[r].at
      BY <1>2, <3>1
    <3>3. CountedWithin(u, x)' \subseteq CountedWithin(u, x)
      BY <1>2, <1>3, <2>2 DEF CountedWithin
    <3>4. IsFiniteSet(CountedWithin(u, x)) /\ Cardinality(CountedWithin(u, x)) <= Failures
      BY <3>1, CountedFinite DEF IInv, FailuresCounted
    <3>5. Cardinality(CountedWithin(u, x)') <= Failures
      BY <3>3, <3>4, Limits, FS_Subset, FS_CardinalityType
    <3> QED
      BY <3>2, <3>5
  <2>9. switch'[s].target = t /\ switch'[s].at = now' /\ now' = now
    BY <1>2, <1>3
  <2>10. /\ Cardinality(CountedSince(switch[s].target, switch[s].at)') < Failures
         /\ Cardinality(CountedWithin(switch[s].target, switch[s].at)') <= Failures
    BY <2>7, <2>9, Limits, FS_Subset, FS_CardinalityType, <2>3, <2>4, <2>6
       DEF CountedSince, CountedWithin
  <2> QED
    BY <1>7, <2>1, <2>8, <2>10 DEF FailuresCounted
<1>10. NamedAreBegun'
  BY <1>3, <1>6 DEF IInv, NamedAreBegun
<1>11. TargetsNotActive'
  <2>1. Active' = Active
    BY <1>3 DEF Active
  <2> QED
    BY <1>2, <1>3, <1>7, <2>1 DEF IInv, TargetsNotActive, Begin
<1>12. confirming = None
  BY DEF Begin, Serves
<1>13. ConfirmingRequested'
  BY <1>3, <1>12 DEF ConfirmingRequested
<1>14. s \notin {request, host.switch, report.switch} /\ \A c \in Calls : call[c].switch # s
  BY <1>1, Limits DEF IInv, NamedAreBegun
<1>15. ProcessConfigured'
  <2>1. \A c \in Calls : call[c].switch # None =>
          switch'[call[c].switch].target = switch[call[c].switch].target
    BY <1>2, <1>14, Named DEF IInv, Begun
  <2> QED
    BY <1>3, <2>1 DEF IInv, ProcessConfigured
<1>16. ConfirmationsStand'
  <2> SUFFICES ASSUME unrecorded = {} PROVE ConfirmationsStand'
    BY <1>3 DEF ConfirmationsStand
  <2>1. Outstanding' = Outstanding /\ s \notin Outstanding
    BY <1>3, <1>14 DEF Outstanding
  <2>2. \A r \in Switches : switch'[r].status = "requested" =>
          r \notin {request, host.switch, report.switch}
    BY <1>2, <1>12, <1>14, Limits DEF IInv, ConfirmationsStand
  <2>3. \A r \in Outstanding : switch[r].status # "requested" /\ r # s
    BY <1>12, <2>1, Limits DEF IInv, ConfirmationsStand, Outstanding
  <2>4. \A r \in Outstanding : r \notin Open
    BY <2>3 DEF Begin, NoOtherOpen, Expired
  <2>5. \A r \in Outstanding : switch'[r].status # "awaiting_login" /\ env = switch'[r].target
    BY <1>2, <2>3, <2>4 DEF IInv, ConfirmationsStand, Expired, Outstanding
  <2> QED
    BY <1>3, <1>7, <1>14, <2>1, <2>2, <2>5 DEF IInv, ConfirmationsStand
<1>17. LeftForOpen'
  BY <1>3, <1>12, Limits DEF IInv, LeftForOpen, Begin, NoOtherOpen, Expired, Open
<1> QED
  BY <1>5, <1>8, <1>9, <1>10, <1>11, <1>13, <1>15, <1>16, <1>17 DEF IInv

(* The request is written: the one switch under way is asked for, and what *)
(* the host may still be working on is not.                                *)
LEMMA ConfirmWrittenKeeps ==
  ASSUME IInv, NEW s \in Switches, ConfirmWritten(s)
  PROVE  IInv'
<1>1. /\ UNCHANGED <<account, switch, host, report, env, app, login, stable, call, now, overtaken,
                     unrecorded>>
      /\ request' = s /\ confirming' = s /\ request = None /\ confirming = None /\ app # None
      /\ switch[s].status = "requested" /\ s \in Begun /\ s \in Open
  BY DEF ConfirmWritten, Serves, Begun, Open, OpenStatuses
<1>2. TypeOK'
  BY <1>1 DEF IInv, TypeOK
<1>3. OneOpen' /\ FailuresCounted' /\ Begun' = Begun /\ Open' = Open
  BY <1>1, RowsStand DEF IInv
<1>4. NamedAreBegun' /\ ConfirmingRequested' /\ ProcessConfigured'
  BY <1>1, <1>3 DEF IInv, NamedAreBegun, ConfirmingRequested, ProcessConfigured
<1>5. TargetsNotActive'
  BY <1>1, <1>3 DEF IInv, TargetsNotActive, Active
<1>6. ConfirmationsStand'
  <2> SUFFICES ASSUME unrecorded = {} PROVE ConfirmationsStand'
    BY <1>1 DEF ConfirmationsStand
  <2>1. s # None /\ s \notin {host.switch, report.switch}
    BY <1>1, Limits DEF IInv, ConfirmationsStand
  <2>2. host.switch \notin Open
    BY <1>1, <2>1 DEF IInv, OneOpen
  <2>3. Outstanding' \subseteq Outstanding \cup {s}
    BY <1>1 DEF Outstanding
  <2>4. \A r \in Switches : switch[r].status = "requested" /\ r # s =>
          r \notin {s, host.switch, report.switch}
    BY <1>1, Limits DEF IInv, ConfirmationsStand
  <2> QED
    BY <1>1, <1>3, <2>1, <2>2, <2>3, <2>4 DEF IInv, ConfirmationsStand
<1>7. LeftForOpen'
  BY <1>1, Limits DEF IInv, LeftForOpen, OneOpen, Open
<1> QED
  BY <1>2, <1>3, <1>4, <1>5, <1>6, <1>7 DEF IInv

(* A status of the switch under way, or of one that is exempt, keeps the   *)
(* target apart from the active account.                                   *)
LEMMA WrittenKeepsTargets ==
  ASSUME TypeOK, OneOpen, TargetsNotActive,
         NEW s \in Switches, NEW status \in OpenStatuses \cup Ended, Writes(s, status),
         overtaken \subseteq overtaken', Open' \subseteq Open,
         overtaken' = {} => s \in Open
  PROVE  TargetsNotActive'
<1> SUFFICES ASSUME overtaken' = {} PROVE TargetsNotActive'
  BY DEF TargetsNotActive
<1>1. overtaken = {} /\ s \in Open /\ switch[s].target \in Accounts
  BY DEF TypeOK, SwitchType
<1>2. account[switch[s].target] # "active" /\ \E a \in Accounts : Active = {a}
  BY <1>1 DEF TargetsNotActive
<1>3. \A r \in Switches : /\ switch'[r].target = switch[r].target
                          /\ switch'[r].status = IF r = s THEN status ELSE switch[r].status
  BY RowWritten
<1>4. CASE status = "completed"
  <2>1. s \notin Open'
    BY <1>3, <1>4 DEF Open, OpenStatuses
  <2>2. Open' = {}
    BY <1>1, <2>1 DEF OneOpen
  <2>3. account' = Activated(switch[s].target)
    BY <1>4 DEF Writes
  <2>4. Active' = {switch[s].target}
    BY <1>1, <2>3 DEF Activated, Active
  <2> QED
    BY <1>1, <2>2, <2>4 DEF TargetsNotActive
<1>5. CASE status # "completed"
  <2>1. \A a \in Accounts : account'[a] = "active" <=> account[a] = "active"
    BY <1>1, <1>2, <1>5 DEF Writes, TypeOK
  <2>2. Active' = Active
    BY <2>1 DEF Active
  <2>3. \A r \in Open' : switch'[r].target \in Accounts /\ account[switch'[r].target] # "active"
    BY <1>1, <1>3 DEF TargetsNotActive, Open, TypeOK, SwitchType
  <2> QED
    BY <1>2, <2>1, <2>2, <2>3 DEF TargetsNotActive
<1> QED
  BY <1>4, <1>5

(* The request is recorded for a switch that is still only requested.      *)
LEMMA ConfirmRecordedKeeps ==
  ASSUME IInv, ConfirmRecorded
  PROVE  IInv'
<1> DEFINE s == confirming
<1>1. /\ UNCHANGED <<request, host, report, env, app, login, stable, call, now, overtaken,
                     unrecorded>>
      /\ confirming' = None /\ Writes(s, "host_pending") /\ s # None
      /\ s \in Switches /\ s \in Begun /\ s \in Open /\ switch[s].status = "requested"
  BY DEF ConfirmRecorded, IInv, TypeOK, ConfirmingRequested, Begun, Open, OpenStatuses
<1>2. /\ switch' \in [Switches -> SwitchType]
      /\ account' \in [Accounts -> {"unregistered", "registered", "pending", "active"}]
      /\ \A r \in Switches :
           /\ switch'[r].target = switch[r].target
           /\ switch'[r].status = IF r = s THEN "host_pending" ELSE switch[r].status
  BY <1>1, RowWritten DEF IInv, OpenStatuses
<1>3. TypeOK'
  BY <1>1, <1>2 DEF IInv, TypeOK
<1>4. OneOpen' /\ FailuresCounted' /\ Begun' = Begun /\ Open' \subseteq Open
  BY <1>1, WrittenKeepsRows DEF IInv, OpenStatuses
<1>5. TargetsNotActive'
  BY <1>1, <1>4, WrittenKeepsTargets DEF IInv, OpenStatuses
<1>6. NamedAreBegun' /\ ConfirmingRequested'
  BY <1>1, <1>4 DEF IInv, NamedAreBegun, ConfirmingRequested
<1>7. ProcessConfigured'
  <2>1. \A c \in Calls : call[c].switch # None => call[c].switch \in Switches
    BY DEF IInv, TypeOK
  <2> QED
    BY <1>1, <1>2, <2>1 DEF IInv, ProcessConfigured
<1>8. ConfirmationsStand'
  <2> SUFFICES ASSUME unrecorded = {} PROVE ConfirmationsStand'
    BY <1>1 DEF ConfirmationsStand
  <2>1. Outstanding' = Outstanding /\ Open' = Open
    BY <1>1, <1>2 DEF Outstanding, Open, OpenStatuses
  <2>2. \A r \in Switches : switch'[r].status = "requested" =>
          switch[r].status = "requested" /\ r # confirming
    BY <1>1, <1>2
  <2> QED
    BY <1>1, <1>2, <2>1, <2>2 DEF IInv, ConfirmationsStand, Outstanding
<1>9. LeftForOpen'
  <2>1. Outstanding' = Outstanding /\ Open' = Open
    BY <1>1, <1>2 DEF Outstanding, Open, OpenStatuses
  <2> SUFFICES ASSUME unrecorded = {}, app \notin {None, env} PROVE LeftForOpen'
    BY <1>1 DEF LeftForOpen
  <2>2. PICK t \in Open : /\ switch[t].target = env
                          /\ switch[t].status = "host_pending" \/ t = confirming
                          /\ t \notin Outstanding
                          /\ report # [switch |-> t, status |-> "awaiting_login"]
    BY DEF IInv, LeftForOpen
  <2>3. t \in Switches /\ switch'[t].target = env /\ switch'[t].status = "host_pending"
    BY <1>2, <2>2 DEF Open
  <2> QED
    BY <1>1, <2>1, <2>2, <2>3 DEF LeftForOpen
<1> QED
  BY <1>3, <1>4, <1>5, <1>6, <1>7, <1>8, <1>9 DEF IInv

(* What a completion does to the completions.                              *)
CallsFit ==
  /\ call' \in [Calls -> [step : {"idle", "waiting", "login", "groups"},
                          switch : Switches \cup {None}]]
  /\ \A c \in Calls : call'[c].step = "idle" <=> call'[c].switch = None
  /\ \A c \in Calls : call'[c].switch # None =>
       call'[c].switch \in Begun /\ app = switch[call'[c].switch].target

(* Completions alone.                                                      *)
LEMMA CallsKeep ==
  ASSUME IInv, CallsFit,
         UNCHANGED <<account, switch, request, confirming, host, report, env, app, login, stable,
                     now, overtaken, unrecorded>>
  PROVE  IInv'
<1>1. TypeOK'
  BY DEF IInv, TypeOK, CallsFit
<1>2. OneOpen' /\ FailuresCounted' /\ Begun' = Begun /\ Open' = Open
  BY RowsStand DEF IInv
<1>3. NamedAreBegun' /\ ConfirmingRequested' /\ ProcessConfigured'
  BY <1>2 DEF IInv, NamedAreBegun, ConfirmingRequested, ProcessConfigured, CallsFit
<1>4. TargetsNotActive' /\ ConfirmationsStand' /\ LeftForOpen'
  BY <1>2 DEF IInv, TargetsNotActive, Active, ConfirmationsStand, Outstanding, LeftForOpen
<1> QED
  BY <1>1, <1>2, <1>3, <1>4 DEF IInv

(* A status written by a page or a completion while no page is confirming. *)
(* The switch is not one the host has yet to act on; or it ends where the  *)
(* process runs for its target already.                                    *)
LEMMA WrittenKeeps ==
  ASSUME IInv, CallsFit, confirming = None,
         UNCHANGED <<request, confirming, host, report, env, app, login, stable, now, unrecorded>>,
         NEW s \in Begun, NEW status \in {"awaiting_login"} \cup Ended, Writes(s, status),
         overtaken' \in SUBSET Switches, overtaken \subseteq overtaken',
         s \in Open \/ (status \in Ended /\ s \in overtaken'),
         unrecorded = {} => s \notin Outstanding \/ (status \in Ended /\ env = switch[s].target),
         unrecorded = {} /\ app \notin {None, env} => s \notin Open
  PROVE  IInv'
<1> s \in Switches /\ status \in OpenStatuses \cup Ended /\ (status \in OpenStatuses => s \in Open)
  BY DEF Begun, OpenStatuses, Ended
<1>1. /\ switch' \in [Switches -> SwitchType]
      /\ account' \in [Accounts -> {"unregistered", "registered", "pending", "active"}]
      /\ \A r \in Switches :
           /\ switch'[r].target = switch[r].target
           /\ switch'[r].status = IF r = s THEN status ELSE switch[r].status
  BY RowWritten DEF IInv
<1>2. TypeOK'
  BY <1>1 DEF IInv, TypeOK, CallsFit
<1>3. OneOpen' /\ FailuresCounted' /\ Begun' = Begun /\ Open' \subseteq Open
  BY WrittenKeepsRows DEF IInv
<1>4. TargetsNotActive'
  BY <1>3, WrittenKeepsTargets DEF IInv
<1>5. NamedAreBegun' /\ ConfirmingRequested'
  BY <1>3 DEF IInv, NamedAreBegun, ConfirmingRequested, CallsFit
<1>6. ProcessConfigured'
  <2>1. \A c \in Calls : call'[c].switch # None => call'[c].switch \in Switches
    BY DEF CallsFit, Begun
  <2> QED
    BY <1>1, <2>1 DEF IInv, ProcessConfigured, CallsFit
<1>7. ConfirmationsStand'
  <2> SUFFICES ASSUME unrecorded = {} PROVE ConfirmationsStand'
    BY DEF ConfirmationsStand
  <2>1. Outstanding' = Outstanding
    BY DEF Outstanding
  <2>2. \A r \in Switches : switch'[r].status = "requested" => switch[r].status = "requested"
    BY <1>1 DEF Ended
  <2>3. \A r \in Switches \ {s} : r \in Open' <=> r \in Open
    BY <1>1 DEF Open
  <2>4. \A r \in Outstanding : /\ switch'[r].status # "awaiting_login"
                               /\ r \in Open' \/ env = switch'[r].target
    BY <1>1, <2>3 DEF IInv, ConfirmationsStand, Outstanding, Ended
  <2> QED
    BY <1>3, <2>1, <2>2, <2>4 DEF IInv, ConfirmationsStand
<1>8. LeftForOpen'
  <2> SUFFICES ASSUME unrecorded = {}, app \notin {None, env} PROVE LeftForOpen'
    BY DEF LeftForOpen
  <2>1. PICK t \in Open : /\ switch[t].target = env
                          /\ switch[t].status = "host_pending" \/ t = confirming
                          /\ t \notin Outstanding
                          /\ report # [switch |-> t, status |-> "awaiting_login"]
    BY DEF IInv, LeftForOpen
  <2>2. t \in Switches /\ t # s
    BY DEF Open
  <2>4. Outstanding' = Outstanding
    BY DEF Outstanding
  <2>3. t \in Open' /\ switch'[t].target = env /\ switch'[t].status = switch[t].status
    BY <1>1, <2>1, <2>2 DEF Open
  <2> QED
    BY <2>1, <2>3, <2>4 DEF LeftForOpen
<1> QED
  BY <1>2, <1>3, <1>4, <1>5, <1>6, <1>7, <1>8 DEF IInv

(* A switch the host has reported is not one it has yet to act on.         *)
LEMMA ReportedIsDone ==
  ASSUME IInv, NEW s \in Switches, Reported(s)
  PROVE  /\ s \in Begun /\ s \in Open
         /\ unrecorded = {} => s \notin Outstanding
         /\ unrecorded = {} => app \in {None, env}
<1>1. s \in Begun /\ s \in Open
  BY DEF Reported, Begun, Open, OpenStatuses
<1>2. report.switch = s /\ report.status = "awaiting_login"
  BY DEF Reported
<1>3. ASSUME unrecorded = {} PROVE s # request
  BY <1>2, <1>3, Limits DEF IInv, ConfirmationsStand
<1>4. host.at = "idle"
  BY <1>2 DEF IInv, ProcessConfigured
<1>5. ASSUME unrecorded = {} PROVE app \in {None, env}
  BY <1>1, <1>5 DEF Reported, IInv, OneOpen, LeftForOpen
<1> QED
  BY <1>1, <1>3, <1>4, <1>5 DEF Outstanding

(* The page learns what the host reported, or gives a switch up.           *)
LEMMA RefreshKeeps ==
  ASSUME IInv, NEW s \in Switches, Refresh(s)
  PROVE  IInv'
<1>1. CallsFit
  BY Named DEF Refresh, CallsFit, IInv, TypeOK, ProcessConfigured
<1> QED
  BY <1>1, ReportedIsDone, WrittenKeeps DEF Refresh, Serves, IInv, TypeOK

(* The administrator gives the switch up.                                  *)
LEMMA CancelKeeps ==
  ASSUME IInv, NEW s \in Switches, Cancel(s)
  PROVE  IInv'
<1>1. CallsFit
  BY Named DEF Cancel, CallsFit, IInv, TypeOK, ProcessConfigured
<1>2. s \in Begun /\ s \in Open /\ confirming = None
  BY DEF Cancel, MayCancel, Serves, Begun, Open, OpenStatuses
<1>3. unrecorded = {} => s \notin Outstanding
  BY <1>2, Limits DEF Cancel, MayCancel, IInv, ConfirmationsStand, Outstanding
<1>4. unrecorded = {} => app \in {None, env}
  BY <1>2, Limits DEF Cancel, MayCancel, IInv, OneOpen, LeftForOpen
<1> QED
  BY <1>1, <1>2, <1>3, <1>4, WrittenKeeps DEF Cancel, IInv, TypeOK, Ended

(* The completions: one that begins names a switch to the account of the   *)
(* process, and goes on with that switch or ends.                          *)
LEMMA CallBegins ==
  ASSUME IInv, NEW c \in Calls, NEW s \in Begun, app = switch[s].target,
         call' = [call EXCEPT ![c] = [step |-> "waiting", switch |-> s]]
  PROVE  CallsFit
<1>1. s \in Switches /\ s # None
  BY Limits DEF Begun
<1>2. \A d \in Calls : call'[d] = IF d = c THEN [step |-> "waiting", switch |-> s] ELSE call[d]
  BY DEF IInv, TypeOK
<1>3. call' \in [Calls -> [step : {"idle", "waiting", "login", "groups"},
                           switch : Switches \cup {None}]]
  BY <1>1 DEF IInv, TypeOK
<1> QED
  BY <1>1, <1>2, <1>3, Named DEF CallsFit, IInv, TypeOK, ProcessConfigured

(* A completion goes on to its next wait for the same switch.              *)
LEMMA CallGoesOn ==
  ASSUME IInv, NEW c \in Calls, call[c].step # "idle", NEW step \in {"login", "groups"},
         call' = [call EXCEPT ![c].step = step]
  PROVE  CallsFit
<1>1. /\ call \in [Calls -> [step : {"idle", "waiting", "login", "groups"},
                             switch : Switches \cup {None}]]
      /\ call[c].switch # None
  BY DEF IInv, TypeOK
<1>2. \A d \in Calls : /\ call'[d].switch = call[d].switch
                       /\ call'[d].step = IF d = c THEN step ELSE call[d].step
  BY <1>1
<1>3. call' \in [Calls -> [step : {"idle", "waiting", "login", "groups"},
                           switch : Switches \cup {None}]]
  BY <1>1
<1> QED
  BY <1>1, <1>2, <1>3, Named DEF CallsFit, IInv, TypeOK, ProcessConfigured

(* A completion that is over is for no switch.                             *)
LEMMA CallEnds ==
  ASSUME IInv, NEW c \in Calls, call' = [call EXCEPT ![c] = NoCall]
  PROVE  CallsFit
<1>1. \A d \in Calls : call'[d] = IF d = c THEN [step |-> "idle", switch |-> None] ELSE call[d]
  BY DEF IInv, TypeOK, NoCall
<1>2. call' \in [Calls -> [step : {"idle", "waiting", "login", "groups"},
                           switch : Switches \cup {None}]]
  BY DEF IInv, TypeOK, NoCall
<1> QED
  BY <1>1, <1>2, Named DEF CallsFit, IInv, TypeOK, ProcessConfigured

(* The switch a completion ends is one to the account of the process.      *)
LEMMA EndsKeeps ==
  ASSUME IInv, CallsFit, Serves, NEW c \in Calls, call[c].step \in {"login", "groups"},
         NEW status \in {"completed", "failed"}, Ends(call[c].switch, status),
         UNCHANGED <<request, confirming, host, report, env, app, login, stable, now, unrecorded>>
  PROVE  IInv'
<1> DEFINE s == call[c].switch
<1>1. s \in Begun /\ s \in Switches /\ s # None
  BY Named DEF IInv, TypeOK, Begun
<1>2. app = switch[s].target /\ app # None /\ confirming = None
  BY <1>1 DEF Serves, IInv, ProcessConfigured
<1>3. switch[s].status \in OpenStatuses \cup Ended
  BY <1>1 DEF Begun, IInv, TypeOK, SwitchType
<1>4. overtaken' \in SUBSET Switches /\ overtaken \subseteq overtaken'
  BY <1>1 DEF Ends, IInv, TypeOK
<1>5. s \in Open \/ s \in overtaken'
  BY <1>1, <1>3 DEF Ends, Open
<1>6. ASSUME unrecorded = {}, app # env PROVE s \notin Open
  <2>1. PICK t \in Open : switch[t].target = env
    BY <1>2, <1>6 DEF IInv, LeftForOpen
  <2> QED
    BY <1>2, <1>6, <2>1 DEF IInv, OneOpen
<1>7. unrecorded = {} => s \notin Outstanding \/ env = switch[s].target
  BY <1>1, <1>2, <1>6 DEF IInv, ConfirmationsStand
<1> QED
  BY <1>1, <1>2, <1>4, <1>5, <1>6, <1>7, WrittenKeeps DEF Ends, Ended

(* A completion begins for a switch of the process's own account.          *)
LEMMA CompleteBeginsKeeps ==
  ASSUME IInv, NEW c \in Calls, NEW s \in Switches, CompleteBegins(c, s)
  PROVE  IInv'
<1>1. /\ UNCHANGED <<request, confirming, host, report, env, app, login, stable, now, overtaken,
                     unrecorded>>
      /\ app = switch[s].target /\ s \in Begun /\ confirming = None
      /\ call' = [call EXCEPT ![c] = [step |-> "waiting", switch |-> s]]
  BY DEF CompleteBegins, MayComplete, Serves, Begun
<1>2. CallsFit
  BY <1>1, CallBegins
<1>3. CASE Reported(s)
  BY <1>1, <1>2, <1>3, ReportedIsDone, WrittenKeeps DEF CompleteBegins, IInv, TypeOK
<1>4. CASE ~Reported(s)
  BY <1>1, <1>2, <1>4, CallsKeep DEF CompleteBegins
<1> QED
  BY <1>3, <1>4

(* It asks QQ who is logged in.                                            *)
LEMMA CompleteAsksKeeps ==
  ASSUME IInv, NEW c \in Calls, CompleteAsks(c)
  PROVE  IInv'
<1>1. CallsFit
  BY CallGoesOn DEF CompleteAsks
<1> QED
  BY <1>1, CallsKeep DEF CompleteAsks

(* The answer is the expected login, or ends the completion.               *)
LEMMA LoginAnswersKeeps ==
  ASSUME IInv, NEW c \in Calls, LoginAnswers(c)
  PROVE  IInv'
<1>1. /\ UNCHANGED <<request, confirming, host, report, env, app, login, stable, now, unrecorded>>
      /\ Serves /\ call[c].step = "login"
  BY DEF LoginAnswers
<1>2. CASE UNCHANGED <<switch, account, overtaken>>
  <2>1. CallsFit
    BY <1>1, CallGoesOn, CallEnds DEF LoginAnswers
  <2> QED
    BY <1>1, <1>2, <2>1, CallsKeep
<1>3. CASE Ends(call[c].switch, "failed") /\ call' = [call EXCEPT ![c] = NoCall]
  BY <1>1, <1>3, CallEnds, EndsKeeps
<1> QED
  BY <1>2, <1>3 DEF LoginAnswers

(* With the groups the switch is completed, whatever it has become.        *)
LEMMA GroupsAnswerKeeps ==
  ASSUME IInv, NEW c \in Calls, GroupsAnswer(c)
  PROVE  IInv'
<1>1. /\ UNCHANGED <<request, confirming, host, report, env, app, login, stable, now, unrecorded>>
      /\ Serves /\ call[c].step = "groups" /\ CallsFit
  BY CallEnds DEF GroupsAnswer
<1>2. CASE UNCHANGED <<switch, account, overtaken>>
  BY <1>1, <1>2, CallsKeep
<1>3. ASSUME NEW status \in {"completed", "failed"}, Ends(call[c].switch, status)
      PROVE  IInv'
  BY <1>1, <1>3, EndsKeeps
<1> QED
  BY <1>2, <1>3 DEF GroupsAnswer

-----------------------------------------------------------------------------
(* The processes and the host                                              *)

(* A process that ends: the confirmation it was recording is noted.        *)
LEMMA LostCalls ==
  ASSUME IInv, ApiLost
  PROVE  /\ \A c \in Calls : call'[c] = NoCall /\ call'[c].switch = None /\ call'[c].step = "idle"
         /\ call' \in [Calls -> [step : {"idle", "waiting", "login", "groups"},
                                 switch : Switches \cup {None}]]
         /\ confirming' = None /\ unrecorded' \in SUBSET Switches
         /\ unrecorded' = {} => unrecorded = {} /\ confirming = None
  BY DEF ApiLost, NoCall, IInv, TypeOK

(* The API process dies, and what it was in the middle of with it.         *)
LEMMA ApiRestartsKeeps ==
  ASSUME IInv, ApiRestarts
  PROVE  IInv'
<1>1. UNCHANGED <<switch, request, host, report, env, app, login, stable, now, overtaken>>
  BY DEF ApiRestarts
<1>2. account' = Ensured(app) /\ app \in Accounts
  BY DEF ApiRestarts, IInv, TypeOK
<1>3. /\ account' \in [Accounts -> {"unregistered", "registered", "pending", "active"}]
      /\ TargetsNotActive'
  BY <1>1, <1>2, EnsuredKeepsAccounts DEF IInv
<1>4. /\ \A c \in Calls : call'[c].switch = None /\ call'[c].step = "idle"
      /\ call' \in [Calls -> [step : {"idle", "waiting", "login", "groups"},
                              switch : Switches \cup {None}]]
      /\ confirming' = None /\ unrecorded' \in SUBSET Switches
      /\ unrecorded' = {} => unrecorded = {} /\ confirming = None
  BY LostCalls DEF ApiRestarts
<1>5. TypeOK'
  BY <1>1, <1>3, <1>4 DEF IInv, TypeOK
<1>6. OneOpen' /\ FailuresCounted' /\ Begun' = Begun /\ Open' = Open
  BY <1>1, RowsStand DEF IInv
<1>7. NamedAreBegun' /\ ConfirmingRequested' /\ ProcessConfigured'
  BY <1>1, <1>4, <1>6 DEF IInv, NamedAreBegun, ConfirmingRequested, ProcessConfigured
<1>8. ConfirmationsStand'
  BY <1>1, <1>4, <1>6 DEF IInv, ConfirmationsStand, Outstanding
<1>9. LeftForOpen'
  BY <1>1, <1>4, <1>6, Limits DEF IInv, LeftForOpen, Outstanding, Open
<1> QED
  BY <1>3, <1>5, <1>6, <1>7, <1>8, <1>9 DEF IInv

(* It starts for the account of .env, in the place of what was left        *)
(* running, and makes one active if none is.                               *)
LEMMA StartedFor ==
  ASSUME IInv, ApiLost, app' = env, login' = None, account' = Ensured(env),
         host'.at = host.at \/ host'.at = "started",
         host'.switch = host.switch,
         host' \in [at : {"idle", "taken", "stopped", "moved", "started"},
                    switch : Switches \cup {None}],
         host'.at = "idle" <=> host'.switch = None,
         UNCHANGED <<switch, request, report, env, stable, now, overtaken>>
  PROVE  IInv'
<1>1. /\ \A c \in Calls : call'[c].switch = None /\ call'[c].step = "idle"
      /\ call' \in [Calls -> [step : {"idle", "waiting", "login", "groups"},
                              switch : Switches \cup {None}]]
      /\ confirming' = None /\ unrecorded' \in SUBSET Switches
      /\ unrecorded' = {} => unrecorded = {} /\ confirming = None
  BY LostCalls
<1>2. /\ account' \in [Accounts -> {"unregistered", "registered", "pending", "active"}]
      /\ TargetsNotActive'
  BY EnsuredKeepsAccounts DEF IInv, TypeOK
<1>3. TypeOK'
  BY <1>1, <1>2 DEF IInv, TypeOK
<1>4. OneOpen' /\ FailuresCounted' /\ Begun' = Begun /\ Open' = Open
  BY RowsStand DEF IInv
<1>5. NamedAreBegun' /\ ConfirmingRequested'
  BY <1>1, <1>4 DEF IInv, NamedAreBegun, ConfirmingRequested
<1>6. ProcessConfigured'
  BY <1>1, <1>3 DEF IInv, TypeOK, ProcessConfigured
<1>7. ConfirmationsStand'
  <2>1. Outstanding' \subseteq Outstanding
    BY DEF Outstanding
  <2> QED
    BY <1>1, <1>4, <2>1 DEF IInv, ConfirmationsStand
<1>8. LeftForOpen'
  BY DEF LeftForOpen
<1> QED
  BY <1>2, <1>3, <1>4, <1>5, <1>6, <1>7, <1>8 DEF IInv

(* The administrator starts it, or the script does.                        *)
LEMMA ApiStartsKeeps ==
  ASSUME IInv, ApiStarts
  PROVE  IInv'
<1>1. host' = host
  BY DEF ApiStarts
<1> QED
  BY <1>1, StartedFor DEF ApiStarts, IInv, TypeOK

LEMMA HostStartsKeeps ==
  ASSUME IInv, HostStarts
  PROVE  IInv'
<1>1. /\ host'.at = "started" /\ host'.switch = host.switch /\ host.switch # None
      /\ host' \in [at : {"idle", "taken", "stopped", "moved", "started"},
                    switch : Switches \cup {None}]
  BY DEF HostStarts, IInv, TypeOK
<1> QED
  BY <1>1, StartedFor DEF HostStarts

(* The script takes the request.                                           *)
LEMMA HostTakesKeeps ==
  ASSUME IInv, HostTakes
  PROVE  IInv'
<1>1. /\ UNCHANGED <<account, switch, confirming, env, app, login, stable, call, now, overtaken,
                     unrecorded>>
      /\ request # None /\ request' = None
      /\ host' = [at |-> "taken", switch |-> request]
      /\ report' = [switch |-> request, status |-> "switching"]
      /\ request \in Switches /\ request \in Begun
  BY Named DEF HostTakes, IInv, TypeOK
<1>2. TypeOK'
  BY <1>1 DEF IInv, TypeOK
<1>3. OneOpen' /\ FailuresCounted' /\ Begun' = Begun /\ Open' = Open
  BY <1>1, RowsStand DEF IInv
<1>4. NamedAreBegun' /\ ConfirmingRequested' /\ ProcessConfigured' /\ TargetsNotActive'
  BY <1>1, <1>3
     DEF IInv, NamedAreBegun, ConfirmingRequested, ProcessConfigured, TargetsNotActive, Active
<1>5. ConfirmationsStand'
  <2>1. host'.switch = request /\ report'.switch = request
    BY <1>1
  <2>2. \A s \in Switches : s # None
    BY Limits
  <2>3. Outstanding' \subseteq Outstanding
    BY <1>1, <2>1, <2>2 DEF Outstanding
  <2> QED
    BY <1>1, <1>3, <2>1, <2>2, <2>3 DEF IInv, ConfirmationsStand
<1>6. LeftForOpen'
  <2>1. Outstanding' \subseteq Outstanding
    BY <1>1, Limits DEF Outstanding
  <2> QED
    BY <1>1, <1>3, <2>1 DEF IInv, LeftForOpen
<1> QED
  BY <1>2, <1>3, <1>4, <1>5, <1>6 DEF IInv

(* The script stops the service, or fails to.                              *)
LEMMA HostStopsKeeps ==
  ASSUME IInv, HostStops
  PROVE  IInv'
<1>1. /\ UNCHANGED <<account, switch, request, report, env, stable, now, overtaken>>
      /\ host.at = "taken" /\ host' = [host EXCEPT !.at = "stopped"]
  BY DEF HostStops
<1>2. /\ app' = None /\ login' = None /\ ApiLost
      \/ UNCHANGED <<app, login, confirming, unrecorded, call>>
  BY DEF HostStops
<1>3. /\ \A c \in Calls : /\ call'[c].step = "idle" <=> call'[c].switch = None
                          /\ call'[c].switch = None \/ (call'[c] = call[c] /\ app' = app)
      /\ call' \in [Calls -> [step : {"idle", "waiting", "login", "groups"},
                              switch : Switches \cup {None}]]
      /\ confirming' = None \/ (confirming' = confirming /\ app' = app)
      /\ unrecorded' \in SUBSET Switches
      /\ unrecorded' = {} => unrecorded = {} /\ confirming' = confirming
      /\ app' = None \/ app' = app
      /\ login' \in Accounts \cup {None} /\ app' \in Accounts \cup {None}
  <2>1. CASE app' = None /\ login' = None /\ ApiLost
    BY <2>1, LostCalls
  <2>2. CASE UNCHANGED <<app, login, confirming, unrecorded, call>>
    BY <2>2 DEF IInv, TypeOK
  <2> QED
    BY <1>2, <2>1, <2>2
<1>4. /\ host'.at = "stopped" /\ host'.switch = host.switch /\ host.switch # None
      /\ host' \in [at : {"idle", "taken", "stopped", "moved", "started"},
                    switch : Switches \cup {None}]
  BY <1>1 DEF IInv, TypeOK
<1>5. TypeOK'
  BY <1>1, <1>3, <1>4 DEF IInv, TypeOK
<1>6. OneOpen' /\ FailuresCounted' /\ Begun' = Begun /\ Open' = Open
  BY <1>1, RowsStand DEF IInv
<1>7. NamedAreBegun' /\ ConfirmingRequested' /\ ProcessConfigured' /\ TargetsNotActive'
  BY <1>1, <1>3, <1>4, <1>6
     DEF IInv, NamedAreBegun, ConfirmingRequested, ProcessConfigured, TargetsNotActive, Active
<1>8. Outstanding' = Outstanding
  BY <1>1, <1>4 DEF Outstanding
<1>9. ConfirmationsStand'
  BY <1>1, <1>3, <1>4, <1>6, <1>8 DEF IInv, ConfirmationsStand
<1>10. LeftForOpen'
  BY <1>1, <1>3, <1>6, <1>8 DEF IInv, LeftForOpen
<1> QED
  BY <1>5, <1>6, <1>7, <1>9, <1>10 DEF IInv

(* .env changes only for a switch under way; a later request is for one    *)
(* that is under way itself, and then it does not change.                  *)
LEMMA MovesOnlyOpen ==
  ASSUME IInv, HostMoves, unrecorded = {}
  PROVE  /\ env' # env => host.switch \in Open
         /\ request # None => env' = env
<1>1. host.switch \in Switches /\ host.switch # None /\ host.switch \in Outstanding
  BY DEF HostMoves, IInv, TypeOK, Outstanding
<1>2. host.switch \in Open \/ env = switch[host.switch].target
  BY <1>1 DEF IInv, ConfirmationsStand
<1> QED
  BY <1>2 DEF HostMoves, IInv, ConfirmationsStand

(* The script writes .env for the target of its switch.                    *)
LEMMA HostMovesKeeps ==
  ASSUME IInv, HostMoves
  PROVE  IInv'
<1>1. /\ UNCHANGED <<account, switch, request, confirming, report, app, login, stable, call, now,
                     overtaken, unrecorded>>
      /\ host.at = "stopped" /\ host' = [host EXCEPT !.at = "moved"]
      /\ env' = switch[host.switch].target
  BY DEF HostMoves
<1>2. /\ host'.at = "moved" /\ host'.switch = host.switch
      /\ host.switch # None /\ host.switch \in Switches
      /\ host' \in [at : {"idle", "taken", "stopped", "moved", "started"},
                    switch : Switches \cup {None}]
  BY <1>1 DEF IInv, TypeOK
<1>3. env' \in Accounts
  BY <1>1, <1>2 DEF IInv, TypeOK, SwitchType
<1>4. TypeOK'
  BY <1>1, <1>2, <1>3 DEF IInv, TypeOK
<1>5. OneOpen' /\ FailuresCounted' /\ Begun' = Begun /\ Open' = Open
  BY <1>1, RowsStand DEF IInv
<1>6. NamedAreBegun' /\ ConfirmingRequested' /\ ProcessConfigured' /\ TargetsNotActive'
  BY <1>1, <1>2, <1>3, <1>5
     DEF IInv, NamedAreBegun, ConfirmingRequested, ProcessConfigured, TargetsNotActive, Active
<1>7. ConfirmationsStand'
  <2>1. Outstanding' \subseteq Outstanding /\ (request = None => Outstanding' = {})
    BY <1>1, <1>2, Limits DEF Outstanding
  <2> QED
    BY <1>1, <1>2, <1>5, <2>1, MovesOnlyOpen DEF IInv, ConfirmationsStand
<1>8. LeftForOpen'
  <2> SUFFICES ASSUME unrecorded = {} PROVE LeftForOpen'
    BY <1>1 DEF LeftForOpen
  <2>1. Outstanding' \subseteq Outstanding
    BY <1>1, <1>2 DEF Outstanding
  <2>2. CASE env' = env
    BY <1>1, <1>5, <2>1, <2>2 DEF IInv, LeftForOpen
  <2>3. CASE env' # env
    <3>1. host.switch \in Open /\ request = None
      BY <2>3, MovesOnlyOpen
    <3>2. host.switch \in Outstanding /\ host.switch \notin Outstanding'
      BY <1>1, <1>2, <3>1 DEF Outstanding
    <3>3. switch[host.switch].status = "host_pending" \/ host.switch = confirming
      BY <1>2, <3>1, <3>2 DEF IInv, ConfirmationsStand, Open, OpenStatuses
    <3>4. report # [switch |-> host.switch, status |-> "awaiting_login"]
      BY <1>1 DEF IInv, ProcessConfigured
    <3> QED
      BY <1>1, <1>5, <3>1, <3>2, <3>3, <3>4 DEF LeftForOpen
  <2> QED
    BY <2>2, <2>3
<1> QED
  BY <1>4, <1>5, <1>6, <1>7, <1>8 DEF IInv

(* The script ends, however it does.                                       *)
LEMMA HostEndsKeeps ==
  ASSUME IInv, HostFails \/ HostReports \/ HostDies
  PROVE  IInv'
<1>1. /\ UNCHANGED <<account, switch, request, confirming, env, app, login, stable, call, now,
                     overtaken, unrecorded>>
      /\ host' = HostIdle /\ host.at # "idle"
  BY DEF HostFails, HostReports, HostDies, HostIdle, IInv, TypeOK
<1>2. report' = report \/ report'.switch = host.switch
  BY DEF HostFails, HostReports, HostDies
<1>3. report' \in [switch : Switches \cup {None},
                   status : {"not_started", "switching", "failed", "awaiting_login"}]
  BY DEF HostFails, HostReports, HostDies, IInv, TypeOK
<1>4. host'.at = "idle" /\ host'.switch = None /\ report'.switch \in {report.switch, host.switch}
  BY <1>1, <1>2 DEF HostIdle
<1>5. TypeOK'
  BY <1>1, <1>3 DEF IInv, TypeOK, HostIdle
<1>6. OneOpen' /\ FailuresCounted' /\ Begun' = Begun /\ Open' = Open
  BY <1>1, RowsStand DEF IInv
<1>7. NamedAreBegun' /\ ConfirmingRequested' /\ ProcessConfigured' /\ TargetsNotActive'
  BY <1>1, <1>4, <1>6
     DEF IInv, NamedAreBegun, ConfirmingRequested, ProcessConfigured, TargetsNotActive, Active
<1>8. ConfirmationsStand'
  <2>1. Outstanding' \subseteq Outstanding
    BY <1>1, <1>4 DEF Outstanding
  <2>2. None \notin Open
    BY Limits DEF Open
  <2> QED
    BY <1>1, <1>4, <1>6, <2>1, <2>2, Limits DEF IInv, ConfirmationsStand
<1>9. LeftForOpen'
  <2>1. Outstanding' \subseteq Outstanding
    BY <1>1, <1>4, Limits DEF Outstanding
  <2>2. \/ host.at = "started"
        \/ report' = report
        \/ report' = [switch |-> host.switch, status |-> "failed"]
    BY DEF HostFails, HostReports, HostDies
  <2>3. host.at = "started" => app = env
    BY DEF IInv, ProcessConfigured
  <2> QED
    BY <1>1, <1>6, <2>1, <2>2, <2>3 DEF IInv, LeftForOpen
<1> QED
  BY <1>5, <1>6, <1>7, <1>8, <1>9 DEF IInv

-----------------------------------------------------------------------------
(* The theorems                                                            *)

(* The invariant is inductive.                                             *)
LEMMA StepKeeps == IInv /\ [Next]_vars => IInv'
<1> SUFFICES ASSUME IInv, [Next]_vars PROVE IInv'
  OBVIOUS
<1>1. CASE \/ \E a \in Accounts : Registers(a)
           \/ CollectorRestarts \/ LoginChanges \/ SessionObserved \/ Tick
           \/ UNCHANGED vars
  BY <1>1, QuietKeeps
<1>2. CASE \E s \in Switches, t \in Accounts : Begin(s, t)
  BY <1>2, BeginKeeps
<1>3. CASE \E s \in Switches : ConfirmWritten(s) \/ Refresh(s) \/ Cancel(s)
  BY <1>3, ConfirmWrittenKeeps, RefreshKeeps, CancelKeeps
<1>4. CASE ConfirmRecorded
  BY <1>4, ConfirmRecordedKeeps
<1>5. CASE \E c \in Calls : \/ \E s \in Switches : CompleteBegins(c, s)
                            \/ CompleteAsks(c) \/ LoginAnswers(c) \/ GroupsAnswer(c)
  BY <1>5, CompleteBeginsKeeps, CompleteAsksKeeps, LoginAnswersKeeps, GroupsAnswerKeeps
<1>6. CASE ApiRestarts \/ ApiStarts
  BY <1>6, ApiRestartsKeeps, ApiStartsKeeps
<1>7. CASE HostTakes \/ HostStops \/ HostMoves \/ HostStarts \/ HostFails \/ HostReports \/ HostDies
  BY <1>7, HostTakesKeeps, HostStopsKeeps, HostMovesKeeps, HostStartsKeeps, HostEndsKeeps
<1> QED
  BY <1>1, <1>2, <1>3, <1>4, <1>5, <1>6, <1>7 DEF Next

(* The invariant of every reachable state of account switching.            *)
THEOREM InductiveInvariant == Spec => []IInv
<1>1. IInv /\ [Next]_vars => IInv'
  BY StepKeeps
<1> QED
  BY <1>1, InitSatisfies, PTL DEF Spec

(* Every variable keeps its type, whoever writes the row, the files and    *)
(* the account last.                                                       *)
THEOREM TypeCorrect == Spec => []TypeOK
<1>1. IInv => TypeOK
  BY DEF IInv
<1> QED
  BY <1>1, InductiveInvariant, PTL

(* create_qq_account_switch and update_qq_account_switch never leave two   *)
(* switches under way.                                                     *)
THEOREM OneOpenSwitchHolds == Spec => []OneOpenSwitch
<1>1. IInv => OneOpenSwitch
  <2> SUFFICES ASSUME IInv PROVE Cardinality(Open) <= 1
    BY DEF OneOpenSwitch
  <2>1. CASE Open = {}
    BY <2>1, FS_EmptySet
  <2>2. CASE Open # {}
    <3>1. PICK s \in Open : TRUE
      BY <2>2
    <3>2. Open = {s}
      BY <3>1 DEF IInv, OneOpen
    <3> QED
      BY <3>2, FS_Singleton
  <2> QED
    BY <2>1, <2>2
<1> QED
  BY <1>1, InductiveInvariant, PTL

(* One account is active in qq_accounts, through every start of a process, *)
(* as long as no completion ended a switch that had ended before.          *)
THEOREM OneActiveAccountHolds == Spec => []OneActiveAccount
<1>1. IInv => OneActiveAccount
  BY FS_Singleton DEF IInv, TargetsNotActive, OneActiveAccount
<1> QED
  BY <1>1, InductiveInvariant, PTL

(* The failures create_qq_account_switch counts for a target stay within   *)
(* the limit of a day although they are written long after they were       *)
(* counted.                                                                *)
THEOREM FailuresLimitedHolds == Spec => []FailuresLimited
<1>1. IInv => FailuresLimited
  BY DEF IInv, FailuresCounted, CountedWithin, FailuresLimited
<1> QED
  BY <1>1, InductiveInvariant, PTL

(* What makes an account active.                                           *)
LEMMA EnsuredActivates ==
  ASSUME TypeOK, NEW a, account' = Ensured(a)
  PROVE  Active' \ Active # {} => Active = {}
  BY DEF Ensured, Active, TypeOK

(* Writing a status activates the target of a switch that is completed,    *)
(* and no other account.                                                   *)
LEMMA WrittenActivates ==
  ASSUME TypeOK, NEW s \in Switches, NEW status \in OpenStatuses \cup Ended, Writes(s, status)
  PROVE  Active' \ Active \subseteq IF status = "completed" THEN {switch[s].target} ELSE {}
<1>1. switch[s].target \in Accounts
  BY DEF TypeOK, SwitchType
<1> QED
  BY <1>1 DEF Writes, Activated, Active, TypeOK

(* complete_account_switch activates an account only in the process that   *)
(* runs for it, though it checks before it waits and writes afterwards;    *)
(* ensure_active_qq_account does so only where none is active.             *)
THEOREM ActivatedIsConfiguredHolds == Spec => ActivatedIsConfigured
<1>1. IInv /\ [Next]_vars =>
        \A a \in Accounts : a \in Active' \ Active => app = a \/ Active = {}
  <2> SUFFICES ASSUME IInv, [Next]_vars, NEW a \in Accounts, a \in Active' \ Active, Active # {}
               PROVE  app = a
    OBVIOUS
  <2>1. account' # account
    BY DEF Active
  <2>2. \A b \in Accounts : ~Registers(b)
    BY DEF Registers, Active, IInv, TypeOK
  <2>3. ~CollectorRestarts /\ ~ApiRestarts /\ ~ApiStarts /\ ~HostStarts
    BY EnsuredActivates DEF CollectorRestarts, ApiRestarts, ApiStarts, HostStarts, IInv
  <2>4. ~ConfirmRecorded /\ \A s \in Switches : ~Refresh(s) /\ ~Cancel(s)
    BY WrittenActivates DEF ConfirmRecorded, Refresh, Cancel, IInv, TypeOK, OpenStatuses, Ended
  <2>5. ASSUME NEW c \in Calls, NEW s \in Switches, CompleteBegins(c, s)
        PROVE  FALSE
    BY <2>1, <2>5, WrittenActivates DEF CompleteBegins, IInv, OpenStatuses
  <2>6. ASSUME NEW c \in Calls, LoginAnswers(c) \/ GroupsAnswer(c)
        PROVE  app = a
    <3>1. PICK status \in {"completed", "failed"} : Ends(call[c].switch, status)
      BY <2>1, <2>6 DEF LoginAnswers, GroupsAnswer
    <3>2. call[c].switch \in Switches /\ call[c].switch # None
      BY <2>6, Limits DEF LoginAnswers, GroupsAnswer, IInv, TypeOK
    <3>3. a = switch[call[c].switch].target
      BY <3>1, <3>2, WrittenActivates DEF Ends, Ended, IInv
    <3> QED
      BY <3>2, <3>3 DEF IInv, ProcessConfigured
  <2> QED
    BY <2>1, <2>2, <2>3, <2>4, <2>5, <2>6 DEF Next, Begin, ConfirmWritten, CompleteAsks,
       HostTakes, HostStops, HostMoves, HostFails, HostReports, HostDies, LoginChanges,
       SessionObserved, Tick, vars
<1> QED
  BY <1>1, InductiveInvariant, PTL DEF Spec, ActivatedIsConfigured

(* switch-napcat-account.sh writes .env for the target of a switch under   *)
(* way, where no process died between the request and its recording.       *)
THEOREM HostMovesOnlyOpenHolds == Spec => HostMovesOnlyOpen
<1>1. IInv /\ [Next]_vars => (env' # env /\ unrecorded' = {} => host.switch \in Open)
  <2> SUFFICES ASSUME IInv, [Next]_vars, env' # env, unrecorded' = {}
               PROVE  host.switch \in Open
    OBVIOUS
  <2>1. HostMoves
    BY DEF Next, Registers, Begin, ConfirmWritten, ConfirmRecorded, Refresh, Cancel,
       CompleteBegins, CompleteAsks, LoginAnswers, GroupsAnswer, ApiRestarts, ApiStarts,
       CollectorRestarts, HostTakes, HostStops, HostStarts, HostFails, HostReports, HostDies,
       LoginChanges, SessionObserved, Tick, vars
  <2>2. unrecorded = {}
    BY <2>1 DEF HostMoves
  <2> QED
    BY <2>1, <2>2, MovesOnlyOpen
<1> QED
  BY <1>1, InductiveInvariant, PTL DEF Spec, HostMovesOnlyOpen
=============================================================================
