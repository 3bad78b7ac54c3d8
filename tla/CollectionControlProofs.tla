---------------------- MODULE CollectionControlProofs ----------------------
(***************************************************************************)
(* TypeOK for every instance, StableRecovery for a collector that does not *)
(* crash (with a crash it does not hold), and that outages and errors of   *)
(* NapCat's configuration are paused and covered by a gap.  The second     *)
(* rests on the comparison of every copy of the health record with the     *)
(* true streak of online answers: the persisted one, the one the watchdog  *)
(* read before its await, and the ones on their way to the store.  The     *)
(* others say what the store calls still to be made will leave behind.     *)
(***************************************************************************)
EXTENDS CollectionControl, TLAPS, SequenceTheorems

-----------------------------------------------------------------------------
(* What the calls and records are made of has its type.                    *)

(* A call by name is a call; so is the writing of a health record.         *)
LEMMA CallsAreTyped ==
  /\ \A n \in CallNames : Call(n) \in CallType
  /\ \A h \in HealthType : WriteHealth(h) \in CallType
  /\ Unknown \in HealthType
  /\ Offline \in HealthType
  /\ ConfigurationError \in HealthType
<1>1. Quiet \in Nat
  BY ControlAssumption
<1>2. Unknown \in HealthType /\ Offline \in HealthType /\ ConfigurationError \in HealthType
  BY <1>1 DEF Unknown, Offline, ConfigurationError, Health, HealthType, NoTime
<1> QED
  BY <1>2 DEF Call, WriteHealth, CallType, CallNames

(* Ageing keeps an age in its range and in its order.                      *)
LEMMA OlderIsTyped ==
  ASSUME NEW age \in {NoTime} \cup 0 .. Quiet, NEW d \in 1 .. 2
  PROVE  /\ Older(age, d) \in {NoTime} \cup 0 .. Quiet
         /\ age # NoTime => Older(age, d) \in 0 .. Quiet
  BY ControlAssumption DEF Older, AtMost, NoTime

(* The older of two records stays the older.                               *)
LEMMA OlderIsMonotone ==
  ASSUME NEW young \in {NoTime} \cup 0 .. Quiet, NEW old \in {NoTime} \cup 0 .. Quiet,
         NEW d \in 1 .. 2, young <= old
  PROVE  Older(young, d) <= Older(old, d)
  BY ControlAssumption DEF Older, AtMost, NoTime

(* A check that found QQ online writes a health record.                    *)
LEMMA OnlineCheckIsTyped ==
  ASSUME NEW read \in HealthType,
         NEW recovery \in {"active", "stabilizing", "paused_manual", "paused_configuration"}
  PROVE  OnlineCheck(read, recovery) \in HealthType
  BY ControlAssumption DEF OnlineCheck, Health, HealthType, AtMost, NoTime

-----------------------------------------------------------------------------
(* Sequences of calls                                                      *)

(* The first call and the rest.                                            *)
LEMMA TailOfCalls ==
  ASSUME NEW s \in Seq(CallType), s # <<>>
  PROVE  /\ Head(s) \in CallType
         /\ Head(s) = s[1]
         /\ Tail(s) \in Seq(CallType)
         /\ Len(Tail(s)) = Len(s) - 1
         /\ Len(s) \in Nat \ {0}
         /\ \A i \in 1 .. Len(s) - 1 : Tail(s)[i] = s[i + 1]
  OBVIOUS

(* The stretches of one to three calls the handlers schedule.              *)
LEMMA ShortSequences ==
  /\ <<>> \in Seq(CallType)
  /\ \A c \in CallType : <<c>> \in Seq(CallType)
  /\ \A c, d \in CallType : <<c, d>> \in Seq(CallType)
  /\ \A c, d, e \in CallType : <<c, d, e>> \in Seq(CallType)
  OBVIOUS

(* Replacing the first call.                                               *)
LEMMA ReplacedHead ==
  ASSUME NEW s \in Seq(CallType), s # <<>>, NEW c \in CallType
  PROVE  /\ <<c>> \o Tail(s) \in Seq(CallType)
         /\ Len(<<c>> \o Tail(s)) = Len(s)
         /\ (<<c>> \o Tail(s))[1] = c
         /\ \A i \in 2 .. Len(s) : (<<c>> \o Tail(s))[i] = s[i]
<1>1. /\ Tail(s) \in Seq(CallType)
      /\ Len(Tail(s)) = Len(s) - 1
      /\ \A i \in 1 .. Len(s) - 1 : Tail(s)[i] = s[i + 1]
  BY TailOfCalls
<1>2. <<c>> \in Seq(CallType) /\ Len(<<c>>) = 1 /\ <<c>>[1] = c
  OBVIOUS
<1> QED
  BY <1>1, <1>2

-----------------------------------------------------------------------------
(* Type correctness                                                        *)

(* The store calls keep every variable in its type.                        *)
LEMMA StoreCallType ==
  ASSUME TypeOK, StoreCall
  PROVE  TypeOK'
<1>1. todo \in Seq(CallType) /\ todo # <<>>
  BY DEF TypeOK, StoreCall, OpenGaps, CloseGaps, IfActive, SetControl, SetHealth, Ahead
<1>2. Head(todo) \in CallType /\ Tail(todo) \in Seq(CallType)
  BY <1>1, TailOfCalls
<1>3. CASE OpenGaps
  BY <1>2, <1>3 DEF OpenGaps, TypeOK
<1>4. CASE CloseGaps
  BY <1>2, <1>4 DEF CloseGaps, TypeOK
<1>5. CASE IfActive
  <2>1. WhenActive[Head(todo).name] \in CallNames
    BY <1>5 DEF IfActive, WhenActive, CallNames, Statuses
  <2>2. <<Call(WhenActive[Head(todo).name])>> \o Tail(todo) \in Seq(CallType)
    BY <1>1, <2>1, CallsAreTyped, ReplacedHead
  <2>3. todo' \in Seq(CallType)
    BY <1>2, <1>5, <2>2 DEF IfActive
  <2> QED
    BY <1>5, <2>3 DEF IfActive, TypeOK
<1>6. CASE SetControl
  BY <1>2, <1>6 DEF SetControl, TypeOK
<1>7. CASE SetHealth
  <2>1. health' \in HealthType
    BY <1>2, <1>7 DEF SetHealth, TypeOK, CallType, HealthType
  <2> QED
    BY <1>2, <1>7, <2>1 DEF SetHealth, TypeOK
<1> QED
  BY <1>3, <1>4, <1>5, <1>6, <1>7 DEF StoreCall

(* So do the steps of the watchdog.                                        *)
LEMMA WatchdogType ==
  ASSUME TypeOK, WatchdogStep
  PROVE  TypeOK'
<1>1. CASE WatchdogWakes
  <2> PICK d \in 1 .. 2 :
         /\ health' = [health EXCEPT !.age = Older(@, d)]
         /\ streak' = [streak EXCEPT !.age = Older(@, d)]
         /\ calm' = Older(calm, d)
    BY <1>1 DEF WatchdogWakes
  <2>1. health' \in HealthType
    BY OlderIsTyped DEF TypeOK, HealthType
  <2>2. streak' \in [checks : 0 .. 2, age : {NoTime} \cup 0 .. Quiet]
    BY OlderIsTyped DEF TypeOK
  <2>3. calm' \in 0 .. Quiet
    BY OlderIsTyped DEF TypeOK, NoTime
  <2>4. todo' \in Seq(CallType)
    <3>1. Call("open_gaps") \in CallType
      BY CallsAreTyped DEF CallNames
    <3>2. todo' \in {<<>>, <<Call("open_gaps")>>}
      BY <1>1 DEF WatchdogWakes
    <3> QED
      BY <3>1, <3>2, ShortSequences
  <2> QED
    BY <1>1, <2>1, <2>2, <2>3, <2>4 DEF WatchdogWakes, TypeOK
<1>2. CASE StatusNotOnline
  <2>1. todo' \in Seq(CallType)
    <3>1. /\ Call("if_active_pause_session") \in CallType
          /\ Call("if_active_pause_configuration") \in CallType
          /\ Call("open_gaps") \in CallType
          /\ WriteHealth(Offline) \in CallType
          /\ WriteHealth(ConfigurationError) \in CallType
      BY CallsAreTyped DEF CallNames
    <3>2. \/ todo' = <<Call("if_active_pause_configuration"), Call("open_gaps"),
                       WriteHealth(ConfigurationError)>>
          \/ todo' = <<Call("if_active_pause_session"), Call("open_gaps"),
                       WriteHealth(Offline)>>
      BY <1>2 DEF StatusNotOnline
    <3> QED
      BY <3>1, <3>2, ShortSequences
  <2> QED
    BY <1>2, <2>1, ControlAssumption DEF StatusNotOnline, TypeOK, NoTime
<1>3. CASE StatusOnline
  <2>1. RecoveryState \in {"active", "stabilizing", "paused_manual", "paused_configuration"}
    BY DEF TypeOK, RecoveryState, Statuses
  <2>2. OnlineCheck(watchdog.read, RecoveryState) \in HealthType
    BY <2>1, OnlineCheckIsTyped DEF TypeOK
  <2>3. todo' \in Seq(CallType)
    BY <1>3, <2>2, CallsAreTyped DEF StatusOnline
  <2>4. streak' \in [checks : 0 .. 2, age : {NoTime} \cup 0 .. Quiet]
    BY <1>3, ControlAssumption DEF StatusOnline, TypeOK, AtMost, NoTime
  <2> QED
    BY <1>3, <2>3, <2>4 DEF StatusOnline, TypeOK
<1>4. CASE LoginAnswered
  <2>1. todo' \in Seq(CallType)
    BY <1>4, CallsAreTyped DEF LoginAnswered, CallNames, Statuses
  <2> QED
    BY <1>4, <2>1 DEF LoginAnswered, TypeOK
<1>5. CASE RecoveryTick
  BY <1>5, CallsAreTyped DEF RecoveryTick, TypeOK, Sleeping
<1>6. CASE HistoryAnswered
  <2>1. todo' \in Seq(CallType)
    BY <1>6, CallsAreTyped DEF HistoryAnswered, CallNames, Statuses
  <2> QED
    BY <1>6, <2>1, CallsAreTyped DEF HistoryAnswered, TypeOK, Sleeping
<1> QED
  BY <1>1, <1>2, <1>3, <1>4, <1>5, <1>6 DEF WatchdogStep

(* TypeOK is inductive.                                                    *)
LEMMA TypeStep ==
  ASSUME TypeOK, [Next]_vars
  PROVE  TypeOK'
<1>1. CASE NapCatChanges
  BY <1>1 DEF NapCatChanges, TypeOK
<1>2. CASE StoreCall
  BY <1>2, StoreCallType
<1>3. CASE WatchdogStep
  BY <1>3, WatchdogType
<1>4. CASE NapCatSends
  BY <1>4 DEF NapCatSends, TypeOK
<1>5. CASE HandleEvent
  <2>1. todo' \in Seq(CallType)
    <3>1. /\ Call("paused_session") \in CallType
          /\ Call("open_gaps") \in CallType
          /\ Call("if_active_pause_session") \in CallType
          /\ Call("if_active_close_gaps") \in CallType
          /\ WriteHealth(Offline) \in CallType
      BY CallsAreTyped DEF CallNames, Statuses
    <3>2. \/ todo' = <<>>
          \/ todo' = <<Call("paused_session")>>
          \/ todo' = <<Call("open_gaps"), Call("if_active_pause_session"),
                       WriteHealth(Offline)>>
          \/ todo' = <<Call("if_active_close_gaps")>>
      BY <1>5 DEF HandleEvent, TypeOK
    <3> QED
      BY <3>1, <3>2, ShortSequences
  <2> QED
    BY <1>5, <2>1, ControlAssumption DEF HandleEvent, TypeOK
<1>6. CASE Disconnected
  <2>1. todo' \in Seq(CallType)
    BY <1>6, CallsAreTyped DEF Disconnected, CallNames
  <2> QED
    BY <1>6, <2>1 DEF Disconnected, TypeOK
<1>7. ASSUME NEW a \in Admins,
             \/ PauseBegins(a) \/ PauseEnds(a) \/ CommandLinePause(a)
             \/ ResumeBegins(a) \/ ResumeEnds(a) \/ QueryBegins(a) \/ QueryEnds(a)
      PROVE  TypeOK'
  <2>1. CASE PauseBegins(a) \/ PauseEnds(a) \/ CommandLinePause(a)
    BY <2>1 DEF PauseBegins, PauseEnds, CommandLinePause, TypeOK, Statuses
  <2>2. CASE ResumeBegins(a) \/ QueryBegins(a)
    BY <2>2 DEF ResumeBegins, QueryBegins, TypeOK
  <2>3. CASE ResumeEnds(a)
    <3>1. control' \in Statuses
      BY <2>3 DEF ResumeEnds, TypeOK, Statuses, Sessions
    <3> QED
      BY <2>3, <3>1 DEF ResumeEnds, TypeOK
  <2>4. CASE QueryEnds(a)
    <3>1. control' \in Statuses
      BY <2>4 DEF QueryEnds, TypeOK, Statuses
    <3> QED
      BY <2>4, <3>1 DEF QueryEnds, TypeOK
  <2> QED
    BY <1>7, <2>1, <2>2, <2>3, <2>4
<1>8. CASE CollectorRestarts
  <2>1. todo' \in Seq(CallType)
    <3>1. Call("open_gaps") \in CallType
      BY CallsAreTyped DEF CallNames
    <3>2. todo' \in {<<>>, <<Call("open_gaps")>>}
      BY <1>8 DEF CollectorRestarts
    <3> QED
      BY <3>1, <3>2, ShortSequences
  <2> QED
    BY <1>8, <2>1, CallsAreTyped, ControlAssumption DEF CollectorRestarts, TypeOK, Sleeping
<1>9. CASE ApiRestarts
  BY <1>9 DEF ApiRestarts, TypeOK
<1>10. CASE UNCHANGED vars
  BY <1>10 DEF vars, TypeOK
<1> QED
  BY <1>1, <1>2, <1>3, <1>4, <1>5, <1>6, <1>7, <1>8, <1>9, <1>10 DEF Next

(* The initial states are of their type.                                   *)
LEMMA InitType ==
  ASSUME Init
  PROVE  TypeOK
<1>1. health \in HealthType /\ todo \in Seq(CallType)
  BY CallsAreTyped, ShortSequences DEF Init
<1>2. watchdog \in [pc : {"sleep", "status", "login", "recovery", "history"},
                   read : HealthType]
  BY CallsAreTyped DEF Init, Sleeping
<1>3. streak \in [checks : 0 .. 2, age : {NoTime} \cup 0 .. Quiet] /\ calm \in 0 .. Quiet
  BY ControlAssumption DEF Init
<1> QED
  <2>1. restarts \in 0 .. MaxRestarts
    BY ControlAssumption DEF Init
  <2>2. admin \in [Admins -> {"idle", "pausing", "resuming", "querying"}]
    BY DEF Init
  <2>3. /\ napcat \in Sessions
        /\ event \in {"none", "healthy", "degraded", "foreign"}
        /\ control \in Statuses
        /\ gapOpen \in BOOLEAN
    BY DEF Init, Statuses
  <2> QED
    BY <1>1, <1>2, <1>3, <2>1, <2>2, <2>3 DEF TypeOK

(* Every record the processes persist and every coroutine is of its type   *)
(* in every reachable state.                                               *)
THEOREM TypeCorrect == Spec => []TypeOK
<1>1. Init => TypeOK
  BY InitType
<1>2. TypeOK /\ [Next]_vars => TypeOK'
  BY TypeStep
<1> QED
  BY <1>1, <1>2, PTL DEF Spec

-----------------------------------------------------------------------------
(* Stable recovery                                                         *)

(* The record h claims no more than the true streak of online answers.     *)
Below(h) == h.checks <= streak.checks /\ h.age <= streak.age

StableStreak == streak.checks >= 2 /\ streak.age >= Quiet

EndsInWrite(s) == s # <<>> /\ s[Len(s)].name = "write_health"

(* The inductive invariant: every copy of the health record is below the   *)
(* streak, except that the persisted one may be above it until the stretch *)
(* that ends in writing it has run; and the collection is about to be      *)
(* reopened, or its account is asked for, only after a stable streak.      *)
RecordsBelow ==
  /\ Below(health) \/ EndsInWrite(todo)
  /\ watchdog.pc = "status" => Below(watchdog.read)
  /\ \A i \in 1 .. Len(todo) : todo[i].name = "write_health" => Below(todo[i].health)

ReopeningIsStable ==
  /\ watchdog.pc = "login" => StableStreak
  /\ \A i \in 1 .. Len(todo) : todo[i].name = "active" => StableStreak

IInv == TypeOK /\ RecordsBelow /\ ReopeningIsStable

(* A store call preserves the invariant.                                   *)
LEMMA StoreCallStep ==
  ASSUME IInv, StoreCall
  PROVE  RecordsBelow' /\ ReopeningIsStable'
<1>1. todo \in Seq(CallType) /\ todo # <<>>
  BY DEF IInv, TypeOK, StoreCall, OpenGaps, CloseGaps, IfActive, SetControl, SetHealth, Ahead
<1>2. /\ Head(todo) \in CallType
      /\ Head(todo) = todo[1]
      /\ Tail(todo) \in Seq(CallType)
      /\ Len(Tail(todo)) = Len(todo) - 1
      /\ Len(todo) \in Nat \ {0}
      /\ \A i \in 1 .. Len(todo) - 1 : Tail(todo)[i] = todo[i + 1]
  BY <1>1, TailOfCalls
<1>3. UNCHANGED <<streak, watchdog>>
  BY DEF StoreCall, OpenGaps, CloseGaps, IfActive, SetControl, SetHealth
<1>4. CASE todo' = Tail(todo)
  <2>1. \A i \in 1 .. Len(todo') : i + 1 \in 1 .. Len(todo) /\ todo'[i] = todo[i + 1]
    BY <1>2, <1>4
  <2>2. /\ watchdog'.pc = "status" => Below(watchdog.read)'
        /\ \A i \in 1 .. Len(todo') : todo'[i].name = "write_health" => Below(todo[i].health)'
        /\ ReopeningIsStable'
    BY <1>3, <2>1 DEF IInv, RecordsBelow, ReopeningIsStable, Below, StableStreak
  <2>3. Below(health)' \/ EndsInWrite(todo)'
    <3>1. CASE Len(todo) > 1 /\ EndsInWrite(todo)
      <4>1. todo' # <<>> /\ Len(todo') = Len(todo) - 1 /\ Len(todo') \in Nat \ {0}
        <5>1. Len(todo') = Len(todo) - 1 /\ Len(todo') \in Nat \ {0}
          BY <1>2, <1>4, <3>1
        <5>2. todo' # <<>>
          BY <5>1
        <5> QED
          BY <5>1, <5>2
      <4>2. todo'[Len(todo')] = todo[Len(todo)]
        BY <2>1, <4>1, <1>2
      <4> QED
        BY <3>1, <4>1, <4>2 DEF EndsInWrite
    <3>2. CASE Len(todo) = 1 /\ EndsInWrite(todo)
      <4>1. Head(todo).name = "write_health"
        BY <1>2, <3>2 DEF EndsInWrite
      <4>2. health' = Head(todo).health
        BY <4>1 DEF StoreCall, OpenGaps, CloseGaps, IfActive, SetControl, SetHealth, Ahead,
                    WhenActive, Statuses
      <4>3. Below(Head(todo).health)
        BY <1>2, <4>1 DEF IInv, RecordsBelow
      <4> QED
        BY <1>3, <4>2, <4>3 DEF Below
    <3>3. CASE ~EndsInWrite(todo)
      <4>1. Below(health)
        BY <3>3 DEF IInv, RecordsBelow
      <4>2. CASE Head(todo).name = "write_health"
        <5>1. health' = Head(todo).health
          BY <4>2 DEF StoreCall, OpenGaps, CloseGaps, IfActive, SetControl, SetHealth, Ahead,
                      WhenActive, Statuses
        <5>2. Below(Head(todo).health)
          BY <1>2, <4>2 DEF IInv, RecordsBelow
        <5> QED
          BY <1>3, <5>1, <5>2 DEF Below
      <4>3. CASE Head(todo).name # "write_health"
        <5>1. health \in HealthType
          BY DEF IInv, TypeOK
        <5>2. health'.checks = health.checks /\ health'.age = health.age
          BY <4>3, <5>1 DEF StoreCall, OpenGaps, CloseGaps, IfActive, SetControl, SetHealth,
                            Ahead, HealthType
        <5> QED
          BY <1>3, <4>1, <5>2 DEF Below
      <4> QED
        BY <4>2, <4>3
    <3> QED
      BY <1>2, <3>1, <3>2, <3>3
  <2> QED
    BY <2>2, <2>3 DEF RecordsBelow
<1>5. CASE todo' # Tail(todo)
  <2>1. IfActive
    BY <1>5 DEF StoreCall, OpenGaps, CloseGaps, SetControl, SetHealth
  <2> DEFINE called == Call(WhenActive[Head(todo).name])
  <2>2. todo' = <<called>> \o Tail(todo) /\ health' = health
    BY <1>5, <2>1 DEF IfActive
  <2>3. WhenActive[Head(todo).name] \in {"paused_session", "paused_configuration", "close_gaps"}
    BY <2>1 DEF IfActive, WhenActive
  <2>4. called \in CallType /\ called.name \notin {"write_health", "active"}
    BY <2>3, CallsAreTyped DEF Call, CallNames, Statuses
  <2> HIDE DEF called
  <2>5. /\ Len(todo') = Len(todo)
        /\ todo'[1] = called
        /\ \A i \in 2 .. Len(todo) : todo'[i] = todo[i]
    BY <1>1, <2>2, <2>4, ReplacedHead
  <2>6. Head(todo).name # "write_health"
    BY <2>1 DEF IfActive, WhenActive
  <2>7. Below(health)' \/ EndsInWrite(todo)'
    <3>1. CASE Below(health)
      BY <1>3, <2>2, <3>1 DEF Below
    <3>2. CASE EndsInWrite(todo)
      <4>1. Len(todo) # 1
        BY <1>2, <2>6, <3>2 DEF EndsInWrite
      <4>2. todo'[Len(todo')] = todo[Len(todo)] /\ Len(todo') # 0
        BY <1>2, <2>5, <4>1
      <4>3. todo' # <<>>
        BY <4>2
      <4> QED
        BY <3>2, <4>2, <4>3 DEF EndsInWrite
    <3> QED
      BY <3>1, <3>2 DEF IInv, RecordsBelow
  <2>8. \A i \in 1 .. Len(todo') :
           /\ todo'[i].name = "write_health" => Below(todo[i].health)'
           /\ todo'[i].name = "active" => StableStreak'
    <3> SUFFICES ASSUME NEW i \in 1 .. Len(todo')
                 PROVE  /\ todo'[i].name = "write_health" => Below(todo[i].health)'
                        /\ todo'[i].name = "active" => StableStreak'
      OBVIOUS
    <3>1. CASE i = 1
      BY <2>4, <2>5, <3>1
    <3>2. CASE i # 1
      <4>1. i \in 2 .. Len(todo) /\ i \in 1 .. Len(todo)
        BY <1>2, <2>5, <3>2
      <4>2. todo'[i] = todo[i]
        BY <2>5, <4>1
      <4> QED
        BY <1>3, <4>1, <4>2 DEF IInv, RecordsBelow, ReopeningIsStable, Below, StableStreak
    <3> QED
      BY <3>1, <3>2
  <2> QED
    BY <1>3, <2>7, <2>8 DEF IInv, RecordsBelow, ReopeningIsStable, Below, StableStreak
<1> QED
  BY <1>4, <1>5

(* Steps that leave the records, the streak and the watchdog alone and     *)
(* schedule nothing but calls that neither write a record nor reopen.      *)
LEMMA QuietStep ==
  ASSUME IInv, UNCHANGED <<health, streak, watchdog>>,
         \/ todo' = todo
         \/ /\ todo = <<>>
            /\ todo' \in Seq(CallType)
            /\ \A i \in 1 .. Len(todo') :
                 /\ todo'[i].name # "active"
                 /\ todo'[i].name = "write_health" => todo'[i].health = Offline
  PROVE  RecordsBelow' /\ ReopeningIsStable'
<1>1. CASE todo' = todo
  BY <1>1 DEF IInv, RecordsBelow, ReopeningIsStable, Below, StableStreak, EndsInWrite
<1>2. CASE /\ todo = <<>>
           /\ todo' \in Seq(CallType)
           /\ \A i \in 1 .. Len(todo') :
                /\ todo'[i].name # "active"
                /\ todo'[i].name = "write_health" => todo'[i].health = Offline
  <2>1. ~EndsInWrite(todo)
    BY <1>2 DEF EndsInWrite
  <2>2. Below(health)
    BY <2>1 DEF IInv, RecordsBelow
  <2>3. Offline.checks <= streak.checks /\ Offline.age <= streak.age
    BY ControlAssumption DEF IInv, TypeOK, Offline, Health, NoTime
  <2> QED
    BY <1>2, <2>2, <2>3 DEF IInv, RecordsBelow, ReopeningIsStable, Below, StableStreak
<1> QED
  BY <1>1, <1>2

(* A step of the watchdog preserves the invariant.                         *)
LEMMA WatchdogStepHolds ==
  ASSUME IInv, WatchdogStep
  PROVE  RecordsBelow' /\ ReopeningIsStable'
<1>1. todo = <<>>
  BY DEF WatchdogStep, WatchdogWakes, StatusNotOnline, StatusOnline, LoginAnswered, RecoveryTick,
         HistoryAnswered
<1>2. Below(health)
  <2>1. ~EndsInWrite(todo)
    BY <1>1 DEF EndsInWrite
  <2> QED
    BY <2>1 DEF IInv, RecordsBelow
<1>3. TypeOK
  BY DEF IInv
<1>4. CASE WatchdogWakes
  <2> PICK d \in 1 .. 2 :
         /\ health' = [health EXCEPT !.age = Older(@, d)]
         /\ streak' = [streak EXCEPT !.age = Older(@, d)]
    BY <1>4 DEF WatchdogWakes
  <2>1. /\ health.age \in {NoTime} \cup 0 .. Quiet
        /\ streak.age \in {NoTime} \cup 0 .. Quiet
        /\ health.age <= streak.age
        /\ health.checks <= streak.checks
    BY <1>2, <1>3 DEF TypeOK, HealthType, Below
  <2>2. Older(health.age, d) <= Older(streak.age, d)
    BY <2>1, OlderIsMonotone
  <2>3. /\ health'.checks = health.checks
        /\ health'.age = Older(health.age, d)
        /\ streak'.checks = streak.checks
        /\ streak'.age = Older(streak.age, d)
    BY <1>3 DEF TypeOK, HealthType
  <2>4. Below(health)'
    BY <2>1, <2>2, <2>3 DEF Below
  <2>5. watchdog' = [pc |-> "status", read |-> health']
    BY <1>4 DEF WatchdogWakes
  <2>6. Below(watchdog.read)' /\ watchdog'.pc = "status"
    BY <2>4, <2>5 DEF Below
  <2>7. \A i \in 1 .. Len(todo') : todo'[i].name = "open_gaps"
    BY <1>4 DEF WatchdogWakes, Call
  <2> QED
    BY <2>4, <2>6, <2>7 DEF RecordsBelow, ReopeningIsStable
<1>5. CASE StatusNotOnline
  <2>1. streak' = [checks |-> 0, age |-> NoTime] /\ watchdog'.pc = "recovery"
    BY <1>3, <1>5 DEF StatusNotOnline, TypeOK
  <2>2. PICK first \in {"if_active_pause_session", "if_active_pause_configuration"},
             h \in {Offline, ConfigurationError} :
           todo' = <<Call(first), Call("open_gaps"), WriteHealth(h)>>
    BY <1>5 DEF StatusNotOnline
  <2>3. h.checks <= streak'.checks /\ h.age <= streak'.age
    BY <2>1 DEF Offline, ConfigurationError, Health, NoTime
  <2>4. /\ Len(todo') = 3
        /\ todo'[1] = Call(first)
        /\ todo'[2] = Call("open_gaps")
        /\ todo'[3] = WriteHealth(h)
    BY <2>2
  <2>5. /\ todo'[1].name \notin {"write_health", "active"}
        /\ todo'[2].name \notin {"write_health", "active"}
        /\ todo'[3].name = "write_health"
        /\ todo'[3].health = h
    BY <2>4 DEF Call, WriteHealth
  <2>6. EndsInWrite(todo)'
    BY <2>2, <2>4, <2>5 DEF EndsInWrite
  <2>7. \A i \in 1 .. Len(todo') : i = 1 \/ i = 2 \/ i = 3
    BY <2>4
  <2> QED
    BY <2>1, <2>3, <2>5, <2>6, <2>7 DEF RecordsBelow, ReopeningIsStable, Below
<1>6. CASE StatusOnline
  <2> DEFINE check == OnlineCheck(watchdog.read, RecoveryState)
  <2>1. /\ todo' = <<WriteHealth(check)>>
        /\ watchdog' = [watchdog EXCEPT
             !.pc = IF control = "paused_session" /\ Stable(check) THEN "login" ELSE "recovery"]
        /\ streak' = [checks |-> AtMost(streak.checks + 1, 2),
                      age |-> IF streak.age = NoTime THEN 0 ELSE streak.age]
    BY <1>6 DEF StatusOnline
  <2>2. Below(watchdog.read) /\ watchdog.read \in HealthType
    BY <1>3, <1>6 DEF StatusOnline, IInv, RecordsBelow, TypeOK
  <2>3. check.checks <= streak'.checks /\ check.age <= streak'.age
    BY <1>3, <2>1, <2>2, ControlAssumption
       DEF TypeOK, HealthType, OnlineCheck, Health, Below, AtMost, NoTime
  <2>4. check.checks \in Int /\ check.age \in Int /\ streak'.checks \in Int /\ streak'.age \in Int
    BY <1>3, <2>1, <2>2, ControlAssumption
       DEF TypeOK, HealthType, OnlineCheck, Health, AtMost, NoTime
  <2>5. watchdog'.pc = "login" => Stable(check)
    BY <1>3, <2>1 DEF TypeOK
  <2>6. watchdog'.pc # "status"
    BY <1>3, <2>1 DEF TypeOK
  <2> HIDE DEF check
  <2>7. watchdog'.pc = "login" => StableStreak'
    BY <2>3, <2>4, <2>5, ControlAssumption DEF Stable, StableStreak
  <2>8. Len(todo') = 1 /\ todo'[1].name = "write_health" /\ todo'[1].health = check
    BY <2>1 DEF WriteHealth
  <2>9. EndsInWrite(todo)'
    BY <2>1, <2>8 DEF EndsInWrite
  <2>10. \A i \in 1 .. Len(todo') : i = 1
    BY <2>8
  <2> QED
    BY <2>3, <2>6, <2>7, <2>8, <2>9, <2>10 DEF RecordsBelow, ReopeningIsStable, Below
<1>7. CASE LoginAnswered
  <2>1. StableStreak
    BY <1>7 DEF LoginAnswered, IInv, ReopeningIsStable
  <2>2. UNCHANGED <<health, streak>> /\ watchdog'.pc = "recovery"
    BY <1>3, <1>7 DEF LoginAnswered, TypeOK
  <2>3. \A i \in 1 .. Len(todo') : todo'[i].name # "write_health"
    BY <1>7 DEF LoginAnswered, Call
  <2> QED
    BY <1>2, <2>1, <2>2, <2>3 DEF RecordsBelow, ReopeningIsStable, Below, StableStreak
<1>8. CASE RecoveryTick \/ HistoryAnswered
  <2>1. UNCHANGED <<health, streak>> /\ watchdog'.pc \in {"sleep", "history"}
    BY <1>3, <1>8 DEF RecoveryTick, HistoryAnswered, TypeOK, Sleeping
  <2>2. \A i \in 1 .. Len(todo') : todo'[i].name = "paused_session"
    BY <1>1, <1>8 DEF RecoveryTick, HistoryAnswered, Call
  <2> QED
    BY <1>2, <2>1, <2>2 DEF RecordsBelow, ReopeningIsStable, Below, StableStreak
<1> QED
  BY <1>4, <1>5, <1>6, <1>7, <1>8 DEF WatchdogStep

(* Without crashes of the collector the invariant is inductive.            *)
LEMMA InvariantStep ==
  ASSUME MaxRestarts = 0, IInv, [Next]_vars
  PROVE  IInv'
<1>1. TypeOK'
  BY TypeStep DEF IInv
<1>2. CASE StoreCall
  BY <1>1, <1>2, StoreCallStep DEF IInv
<1>3. CASE WatchdogStep
  BY <1>1, <1>3, WatchdogStepHolds DEF IInv
<1>4. CASE HandleEvent
  <2>1. \/ todo' = <<>>
        \/ todo' = <<Call("paused_session")>>
        \/ todo' = <<Call("open_gaps"), Call("if_active_pause_session"), WriteHealth(Offline)>>
        \/ todo' = <<Call("if_active_close_gaps")>>
    BY <1>4 DEF HandleEvent, IInv, TypeOK
  <2>2. \A i \in 1 .. Len(todo') :
           /\ todo'[i].name # "active"
           /\ todo'[i].name = "write_health" => todo'[i].health = Offline
    BY <2>1 DEF Call, WriteHealth
  <2>3. todo = <<>> /\ UNCHANGED <<health, streak, watchdog>> /\ todo' \in Seq(CallType)
    BY <1>1, <1>4 DEF HandleEvent, TypeOK
  <2> QED
    BY <1>1, <2>2, <2>3, QuietStep DEF IInv
<1>5. CASE Disconnected
  <2>1. \A i \in 1 .. Len(todo') : todo'[i].name = "open_gaps"
    BY <1>5 DEF Disconnected, Call
  <2>2. todo = <<>> /\ UNCHANGED <<health, streak, watchdog>> /\ todo' \in Seq(CallType)
    BY <1>1, <1>5 DEF Disconnected, TypeOK
  <2> QED
    BY <1>1, <2>1, <2>2, QuietStep DEF IInv
<1>6. CASE UNCHANGED <<health, todo, streak, watchdog>>
  BY <1>1, <1>6, QuietStep DEF IInv
<1>7. ~CollectorRestarts
  BY DEF CollectorRestarts, IInv, TypeOK
<1>8. ASSUME \/ NapCatChanges \/ NapCatSends \/ ApiRestarts
             \/ \E a \in Admins : \/ PauseBegins(a) \/ PauseEnds(a) \/ CommandLinePause(a)
                                 \/ ResumeBegins(a) \/ ResumeEnds(a)
                                 \/ QueryBegins(a) \/ QueryEnds(a)
             \/ UNCHANGED vars
      PROVE  UNCHANGED <<health, todo, streak, watchdog>>
  BY <1>8 DEF NapCatChanges, NapCatSends, ApiRestarts, PauseBegins, PauseEnds, CommandLinePause,
              ResumeBegins, ResumeEnds, QueryBegins, QueryEnds, vars
<1> QED
  BY <1>2, <1>3, <1>4, <1>5, <1>6, <1>7, <1>8 DEF Next

(* A collector that does not crash reopens the collection by itself only   *)
(* after two successive online answers at least a quiet period apart,      *)
(* whatever events, administrators and changes of the session interleave.  *)
THEOREM StableRecoveryHolds ==
  ASSUME MaxRestarts = 0
  PROVE  Spec => StableRecovery
<1>1. Init => IInv
  <2> SUFFICES ASSUME Init
               PROVE  IInv
    OBVIOUS
  <2>1. TypeOK
    BY InitType
  <2>2. todo = <<>> /\ watchdog.pc = "sleep" /\ Below(health)
    BY DEF Init, Sleeping, Unknown, Health, Below, NoTime
  <2> QED
    BY <2>1, <2>2 DEF IInv, RecordsBelow, ReopeningIsStable
<1>2. IInv /\ [Next]_vars => IInv'
  BY InvariantStep
<1>3. IInv /\ [Next]_vars
        => [Ahead("active") /\ SetControl => streak.checks >= 2 /\ streak.age >= Quiet]_vars
  <2> SUFFICES ASSUME IInv, Ahead("active")
               PROVE  StableStreak
    BY DEF StableStreak
  <2>1. todo \in Seq(CallType) /\ todo # <<>> /\ Head(todo).name = "active"
    BY DEF IInv, TypeOK, Ahead
  <2>2. Head(todo) = todo[1] /\ 1 \in 1 .. Len(todo)
    BY <2>1, TailOfCalls
  <2> QED
    BY <2>1, <2>2 DEF IInv, ReopeningIsStable
<1> QED
  BY <1>1, <1>2, <1>3, PTL DEF Spec, StableRecovery

-----------------------------------------------------------------------------
(* Outages and configuration errors are covered                            *)

(* What a store call does, by its name.                                    *)
LEMMA CallRuns ==
  ASSUME TypeOK, StoreCall
  PROVE  LET name == Head(todo).name IN
         /\ todo \in Seq(CallType) /\ todo # <<>> /\ restarts' = restarts
         /\ name = "open_gaps" => gapOpen' /\ control' = control /\ health' = health
         /\ name = "close_gaps" => control' = control /\ health' = health
         /\ name \in Statuses => control' = name /\ gapOpen' = gapOpen /\ health' = health
         /\ name = "write_health" =>
              control' = control /\ gapOpen' = gapOpen /\ health' = Head(todo).health
         /\ name \in {"verification_failed", "recovered"} =>
              control' = control /\ gapOpen' = gapOpen /\ health'.recovery # "offline"
         /\ IF name \in DOMAIN WhenActive
              THEN /\ UNCHANGED <<control, gapOpen, health>>
                   /\ todo' = IF control = "active"
                                THEN <<Call(WhenActive[name])>> \o Tail(todo) ELSE Tail(todo)
              ELSE todo' = Tail(todo)
<1>1. todo \in Seq(CallType) /\ health \in HealthType
  BY DEF TypeOK
<1>2. DOMAIN WhenActive = {"if_active_pause_session", "if_active_pause_configuration",
                           "if_active_close_gaps"}
  BY DEF WhenActive
<1>3. CASE OpenGaps
  BY <1>1, <1>2, <1>3 DEF OpenGaps, Ahead, Statuses
<1>4. CASE CloseGaps
  BY <1>1, <1>2, <1>4 DEF CloseGaps, Ahead, Statuses
<1>5. CASE IfActive
  BY <1>1, <1>2, <1>5 DEF IfActive, Statuses
<1>6. CASE SetControl
  BY <1>1, <1>2, <1>6 DEF SetControl, Statuses
<1>7. CASE SetHealth
  BY <1>1, <1>2, <1>7 DEF SetHealth, Ahead, Statuses, HealthType
<1> QED
  BY <1>3, <1>4, <1>5, <1>6, <1>7 DEF StoreCall

(* The first call of a short stretch, and what is left.                    *)
LEMMA ShortStretches ==
  ASSUME NEW c \in CallType, NEW d \in CallType, NEW e \in CallType, NEW x \in CallType
  PROVE  /\ Head(<<c>>) = c /\ Tail(<<c>>) = <<>> /\ <<x>> \o Tail(<<c>>) = <<x>>
         /\ Head(<<c, d>>) = c /\ Tail(<<c, d>>) = <<d>> /\ <<x>> \o Tail(<<c, d>>) = <<x, d>>
         /\ Head(<<c, d, e>>) = c /\ Tail(<<c, d, e>>) = <<d, e>>
         /\ <<x>> \o Tail(<<c, d, e>>) = <<x, d, e>>
<1>1. Head(<<c>>) = c /\ Head(<<c, d>>) = c /\ Head(<<c, d, e>>) = c
  OBVIOUS
<1>2. Tail(<<c>>) = <<>> /\ Tail(<<c, d>>) = <<d>> /\ Tail(<<c, d, e>>) = <<d, e>>
  OBVIOUS
<1>3. <<x>> \o <<>> = <<x>>
  OBVIOUS
<1>4. <<x>> \o <<d>> = <<x, d>>
  <2> DEFINE s == <<x>> \o <<d>>
  <2>1. <<x>> \in Seq(CallType) /\ <<d>> \in Seq(CallType) /\ <<x, d>> \in Seq(CallType)
    OBVIOUS
  <2>2. s \in Seq(CallType) /\ Len(s) = 2 /\ s[1] = x /\ s[2] = d
    BY <2>1
  <2>3. Len(<<x, d>>) = 2 /\ <<x, d>>[1] = x /\ <<x, d>>[2] = d
    OBVIOUS
  <2> HIDE DEF s
  <2>4. \A i \in 1 .. Len(s) : i = 1 \/ i = 2
    BY <2>2
  <2>5. s = <<x, d>>
    BY <2>1, <2>2, <2>3, <2>4, SeqEqual
  <2> QED
    BY <2>5 DEF s
<1>5. <<x>> \o <<d, e>> = <<x, d, e>>
  <2> DEFINE s == <<x>> \o <<d, e>>
  <2>1. <<x>> \in Seq(CallType) /\ <<d, e>> \in Seq(CallType) /\ <<x, d, e>> \in Seq(CallType)
    OBVIOUS
  <2>2. s \in Seq(CallType) /\ Len(s) = 3 /\ s[1] = x /\ s[2] = d /\ s[3] = e
    BY <2>1
  <2>3. /\ Len(<<x, d, e>>) = 3
        /\ <<x, d, e>>[1] = x
        /\ <<x, d, e>>[2] = d
        /\ <<x, d, e>>[3] = e
    OBVIOUS
  <2> HIDE DEF s
  <2>4. \A i \in 1 .. Len(s) : i = 1 \/ i = 2 \/ i = 3
    BY <2>2
  <2>5. s = <<x, d, e>>
    BY <2>1, <2>2, <2>3, <2>4, SeqEqual
  <2> QED
    BY <2>5 DEF s
<1> QED
  BY <1>1, <1>2, <1>3, <1>4, <1>5

(* The record says offline only when the outage is covered.                *)
Settled == health.recovery = "offline" => control # "active" /\ gapOpen

(* A call that leaves the record saying something else than offline.       *)
Overwrites(c) ==
  \/ c.name \in {"recovered", "verification_failed"}
  \/ c.name = "write_health" /\ c.health.recovery # "offline"

(* The stretch that registers an outage pauses and covers it before it     *)
(* writes the record, in either order.                                     *)
OutageOrder ==
  LET ask == Call("if_active_pause_session")
      pause == Call("paused_session")
      cover == Call("open_gaps")
      write == WriteHealth(Offline)
  IN  \/ todo = <<ask, cover, write>> \/ todo = <<pause, cover, write>>
      \/ todo = <<cover, ask, write>>
      \/ todo = <<cover, write>> /\ control # "active"
      \/ (todo = <<ask, write>> \/ todo = <<pause, write>>) /\ gapOpen
      \/ todo = <<write>> /\ control # "active" /\ gapOpen

(* The other stretches: the record is replaced, or an outage stays covered *)
(* and no gap is closed while the record says offline.                     *)
OutageKept ==
  restarts = 0 =>
    \/ todo # <<>> /\ Overwrites(todo[Len(todo)])
    \/ OutageOrder
    \/ /\ Settled
       /\ \/ todo = <<>> \/ todo = <<Call("open_gaps")>> \/ todo = <<Call("paused_session")>>
          \/ todo = <<Call("if_active_close_gaps")>>
    \/ todo = <<Call("close_gaps")>> /\ health.recovery # "offline"

(* A store call preserves the invariant.                                   *)
LEMMA OutageStoreCall ==
  ASSUME TypeOK, OutageKept, StoreCall
  PROVE  OutageKept'
<1> SUFFICES ASSUME restarts = 0 PROVE OutageKept'
  BY CallRuns DEF OutageKept
<1> DEFINE name == Head(todo).name
<1>1. /\ todo \in Seq(CallType) /\ todo # <<>>
      /\ name = "open_gaps" => gapOpen' /\ control' = control /\ health' = health
      /\ name = "close_gaps" => control' = control /\ health' = health
      /\ name \in Statuses => control' = name /\ gapOpen' = gapOpen /\ health' = health
      /\ name = "write_health" =>
           control' = control /\ gapOpen' = gapOpen /\ health' = Head(todo).health
      /\ name \in {"verification_failed", "recovered"} => health'.recovery # "offline"
      /\ IF name \in DOMAIN WhenActive
           THEN /\ UNCHANGED <<control, gapOpen, health>>
                /\ todo' = IF control = "active"
                             THEN <<Call(WhenActive[name])>> \o Tail(todo) ELSE Tail(todo)
           ELSE todo' = Tail(todo)
  BY CallRuns
<1>2. /\ \A n : Call(n).name = n
      /\ \A h : WriteHealth(h).name = "write_health" /\ WriteHealth(h).health = h
      /\ Offline.recovery = "offline"
  BY DEF Call, WriteHealth, Offline, Health
<1>3. /\ DOMAIN WhenActive = {"if_active_pause_session", "if_active_pause_configuration",
                              "if_active_close_gaps"}
      /\ WhenActive["if_active_pause_session"] = "paused_session"
      /\ WhenActive["if_active_close_gaps"] = "close_gaps"
  BY DEF WhenActive
<1>4. CASE Overwrites(todo[Len(todo)])
  <2>1. /\ Head(todo) \in CallType /\ Head(todo) = todo[1]
        /\ Tail(todo) \in Seq(CallType) /\ Len(Tail(todo)) = Len(todo) - 1
        /\ Len(todo) \in Nat \ {0}
        /\ \A i \in 1 .. Len(todo) - 1 : Tail(todo)[i] = todo[i + 1]
    BY <1>1, TailOfCalls
  <2>2. CASE Len(todo) = 1
    <3>1. Overwrites(Head(todo))
      BY <1>4, <2>1, <2>2
    <3>2. todo' = <<>> /\ health'.recovery # "offline"
      BY <1>1, <1>3, <2>1, <2>2, <3>1 DEF Overwrites
    <3> QED
      BY <3>2 DEF OutageKept, Settled
  <2>3. CASE Len(todo) # 1
    <3>1. todo' # <<>> /\ todo'[Len(todo')] = todo[Len(todo)]
      <4>1. CASE todo' = Tail(todo)
        <5>1. Len(todo') \in Nat \ {0} /\ Len(todo') = Len(todo) - 1
          BY <2>1, <2>3, <4>1
        <5>2. todo'[Len(todo')] = todo[Len(todo)]
          BY <2>1, <4>1, <5>1
        <5>3. todo' # <<>>
          BY <5>1
        <5> QED
          BY <5>2, <5>3
      <4>2. CASE todo' # Tail(todo)
        <5> DEFINE called == Call(WhenActive[name])
        <5>1. todo' = <<called>> \o Tail(todo) /\ name \in DOMAIN WhenActive
          BY <1>1, <4>2
        <5>2. called \in CallType
          BY <5>1, CallsAreTyped DEF WhenActive, CallNames, Statuses
        <5> HIDE DEF called
        <5>3. Len(todo') = Len(todo) /\ \A i \in 2 .. Len(todo) : todo'[i] = todo[i]
          BY <1>1, <5>1, <5>2, ReplacedHead
        <5>4. todo'[Len(todo')] = todo[Len(todo)] /\ Len(todo') # 0
          BY <2>1, <2>3, <5>3
        <5>5. todo' # <<>>
          BY <5>4
        <5> QED
          BY <5>4, <5>5
      <4> QED
        BY <4>1, <4>2
    <3> QED
      BY <1>4, <3>1 DEF OutageKept, Overwrites
  <2> QED
    BY <2>2, <2>3
<1>5. CASE OutageOrder
  <2> DEFINE ask == Call("if_active_pause_session")
  <2> DEFINE pause == Call("paused_session")
  <2> DEFINE cover == Call("open_gaps")
  <2> DEFINE write == WriteHealth(Offline)
  <2>1. /\ ask.name = "if_active_pause_session" /\ pause.name = "paused_session"
        /\ cover.name = "open_gaps" /\ write.name = "write_health"
        /\ write.health.recovery = "offline" /\ "paused_session" \in Statuses
        /\ ask \in CallType /\ pause \in CallType /\ cover \in CallType /\ write \in CallType
    BY <1>2, CallsAreTyped DEF Statuses, CallNames
  <2>2. /\ \/ todo = <<ask, cover, write>> \/ todo = <<pause, cover, write>>
           \/ todo = <<cover, ask, write>>
           \/ todo = <<cover, write>> /\ control # "active"
           \/ (todo = <<ask, write>> \/ todo = <<pause, write>>) /\ gapOpen
           \/ todo = <<write>> /\ control # "active" /\ gapOpen
    BY <1>5 DEF OutageOrder
  <2>3. ASSUME \/ todo' = <<ask, cover, write>> \/ todo' = <<pause, cover, write>>
               \/ todo' = <<cover, ask, write>>
               \/ todo' = <<cover, write>> /\ control' # "active"
               \/ (todo' = <<ask, write>> \/ todo' = <<pause, write>>) /\ gapOpen'
               \/ todo' = <<write>> /\ control' # "active" /\ gapOpen'
        PROVE  OutageKept'
    BY <2>3 DEF OutageKept, OutageOrder
  <2> HIDE DEF ask, cover, write
  <2>4. CASE todo = <<ask, cover, write>>
    <3>1. todo' = <<pause, cover, write>> \/ (todo' = <<cover, write>> /\ control' # "active")
      BY <1>1, <1>3, <2>1, <2>4, ShortStretches
    <3> QED
      BY <2>3, <3>1
  <2> HIDE DEF pause
  <2>5. CASE todo = <<pause, cover, write>>
    <3>1. todo' = <<cover, write>> /\ control' = "paused_session"
      BY <1>1, <1>3, <2>1, <2>5, ShortStretches
    <3> QED
      BY <2>3, <3>1
  <2>6. CASE todo = <<cover, ask, write>>
    <3>1. todo' = <<ask, write>> /\ gapOpen'
      BY <1>1, <1>3, <2>1, <2>6, ShortStretches
    <3> QED
      BY <2>3, <3>1
  <2>7. CASE todo = <<cover, write>> /\ control # "active"
    <3>1. todo' = <<write>> /\ gapOpen' /\ control' # "active"
      BY <1>1, <1>3, <2>1, <2>7, ShortStretches
    <3> QED
      BY <2>3, <3>1
  <2>8. CASE todo = <<ask, write>> /\ gapOpen
    <3>1. gapOpen' /\ (todo' = <<pause, write>> \/ (todo' = <<write>> /\ control' # "active"))
      <4>1. /\ Head(<<ask, write>>) = ask
            /\ Tail(<<ask, write>>) = <<write>>
            /\ <<pause>> \o Tail(<<ask, write>>) = <<pause, write>>
        <5> HIDE DEF pause
        <5>1. \A c, d, x \in CallType : /\ Head(<<c, d>>) = c
                                       /\ Tail(<<c, d>>) = <<d>>
                                       /\ <<x>> \o Tail(<<c, d>>) = <<x, d>>
          BY ShortStretches
        <5> QED
          BY <2>1, <5>1
      <4>2. name = "if_active_pause_session"
        BY <2>1, <2>8, <4>1
      <4>3. control = control' /\ gapOpen = gapOpen'
        BY <1>1, <1>3, <4>2
      <4>4. todo' = IF control = "active" THEN <<pause>> \o Tail(todo) ELSE Tail(todo)
        BY <1>1, <1>3, <4>2 DEF pause
      <4> QED
        BY <2>8, <4>1, <4>3, <4>4
    <3> QED
      BY <2>3, <3>1
  <2>9. CASE todo = <<pause, write>> /\ gapOpen
    <3>1. gapOpen' /\ todo' = <<write>> /\ control' = "paused_session"
      BY <1>1, <1>3, <2>1, <2>9, ShortStretches
    <3> QED
      BY <2>3, <3>1
  <2>10. CASE todo = <<write>> /\ control # "active" /\ gapOpen
    <3>1. todo' = <<>> /\ control' # "active" /\ gapOpen'
      BY <1>1, <1>3, <2>1, <2>10, ShortStretches
    <3> QED
      BY <3>1 DEF OutageKept, Settled
  <2> QED
    BY <2>2, <2>4, <2>5, <2>6, <2>7, <2>8, <2>9, <2>10
<1>6. CASE Settled /\ (todo = <<Call("open_gaps")>> \/ todo = <<Call("paused_session")>>)
  <2>1. Call("open_gaps") \in CallType /\ Call("paused_session") \in CallType
    BY CallsAreTyped DEF CallNames, Statuses
  <2>2. todo' = <<>> /\ Settled'
    BY <1>1, <1>2, <1>3, <1>6, <2>1, ShortStretches DEF Settled, Statuses
  <2> QED
    BY <2>2 DEF OutageKept
<1>7. CASE Settled /\ todo = <<Call("if_active_close_gaps")>>
  <2>1. /\ UNCHANGED <<control, gapOpen, health>>
        /\ \/ todo' = <<>>
           \/ todo' = <<Call("close_gaps")>> /\ control = "active"
    BY <1>1, <1>2, <1>3, <1>7, ShortStretches
  <2> QED
    BY <1>7, <2>1 DEF OutageKept, Settled
<1>8. CASE todo = <<Call("close_gaps")>> /\ health.recovery # "offline"
  <2>1. todo' = <<>> /\ health' = health
    BY <1>1, <1>2, <1>3, <1>8, ShortStretches
  <2> QED
    BY <1>8, <2>1 DEF OutageKept, Settled
<1> QED
  BY <1>1, <1>4, <1>5, <1>6, <1>7, <1>8 DEF OutageKept


(* Between two stretches the record is settled.                            *)
LEMMA IdleIsSettled ==
  ASSUME OutageKept, restarts = 0, todo = <<>>
  PROVE  Settled
  BY DEF OutageKept, OutageOrder

(* Steps that leave the record and the calls alone, and neither reopen the *)
(* collection nor close a gap.                                             *)
LEMMA OutageQuietStep ==
  ASSUME OutageKept, todo' = todo, health' = health, restarts' = restarts,
         gapOpen => gapOpen', control # "active" => control' # "active"
  PROVE  OutageKept'
<1> SUFFICES ASSUME restarts = 0 PROVE OutageKept'
  BY DEF OutageKept
<1>1. CASE todo # <<>> /\ Overwrites(todo[Len(todo)])
  BY <1>1 DEF OutageKept, Overwrites
<1>2. CASE OutageOrder
  <2>1. OutageOrder'
    BY <1>2 DEF OutageOrder
  <2> QED
    BY <2>1 DEF OutageKept
<1>3. CASE Settled /\ (\/ todo = <<>> \/ todo = <<Call("open_gaps")>>
                       \/ todo = <<Call("paused_session")>>
                       \/ todo = <<Call("if_active_close_gaps")>>)
  <2>1. Settled'
    BY <1>3 DEF Settled
  <2> QED
    BY <1>3, <2>1 DEF OutageKept
<1>4. CASE todo = <<Call("close_gaps")>> /\ health.recovery # "offline"
  BY <1>4 DEF OutageKept
<1> QED
  BY <1>1, <1>2, <1>3, <1>4 DEF OutageKept

(* A handler that starts a stretch: it registers an outage, or makes one   *)
(* call that closes nothing.                                               *)
LEMMA OutageStretch ==
  ASSUME OutageKept, restarts = 0, restarts' = restarts, todo = <<>>,
         control' = control, gapOpen' = gapOpen, health'.recovery = health.recovery,
         \/ OutageOrder'
         \/ todo' = <<>> \/ todo' = <<Call("open_gaps")>> \/ todo' = <<Call("paused_session")>>
         \/ todo' = <<Call("if_active_close_gaps")>>
  PROVE  OutageKept'
<1>1. Settled'
  BY IdleIsSettled DEF Settled
<1> QED
  BY <1>1 DEF OutageKept

(* So do the steps of the watchdog.                                        *)
LEMMA OutageWatchdogStep ==
  ASSUME TypeOK, OutageKept, WatchdogStep
  PROVE  OutageKept'
<1>1. todo = <<>> /\ restarts' = restarts /\ control' = control /\ gapOpen' = gapOpen
  BY DEF WatchdogStep, WatchdogWakes, StatusNotOnline, StatusOnline, LoginAnswered, RecoveryTick,
         HistoryAnswered
<1> SUFFICES ASSUME restarts = 0 PROVE OutageKept'
  BY <1>1 DEF OutageKept
<1>2. health'.recovery = health.recovery
  BY DEF WatchdogStep, WatchdogWakes, StatusNotOnline, StatusOnline, LoginAnswered, RecoveryTick,
         HistoryAnswered, TypeOK, HealthType
<1>3. CASE WatchdogWakes
  <2>1. todo' = <<>> \/ todo' = <<Call("open_gaps")>>
    BY <1>3 DEF WatchdogWakes
  <2> QED
    BY <1>1, <1>2, <2>1, OutageStretch
<1>4. CASE StatusNotOnline
  <2>1. CASE todo' = <<Call("if_active_pause_configuration"), Call("open_gaps"),
                       WriteHealth(ConfigurationError)>>
    <3>1. todo' # <<>> /\ todo'[Len(todo')] = WriteHealth(ConfigurationError)
      BY <2>1
    <3>2. Overwrites(WriteHealth(ConfigurationError))
      BY DEF Overwrites, WriteHealth, ConfigurationError, Health
    <3>3. Overwrites(todo'[Len(todo')])
      BY <3>1, <3>2
    <3> QED
      BY <1>1, <3>1, <3>3 DEF OutageKept, Overwrites
  <2>2. CASE todo' = <<Call("if_active_pause_session"), Call("open_gaps"), WriteHealth(Offline)>>
    <3>1. OutageOrder'
      BY <2>2 DEF OutageOrder
    <3> QED
      BY <3>1 DEF OutageKept
  <2> QED
    BY <1>4, <2>1, <2>2 DEF StatusNotOnline
<1>5. CASE StatusOnline
  <2>1. RecoveryState # "offline"
    BY DEF TypeOK, RecoveryState, Statuses
  <2> DEFINE written == WriteHealth(OnlineCheck(watchdog.read, RecoveryState))
  <2>2. Overwrites(written)
    BY <2>1 DEF Overwrites, WriteHealth, OnlineCheck, Health
  <2>3. todo' = <<written>>
    BY <1>5 DEF StatusOnline
  <2> HIDE DEF written
  <2>4. todo' # <<>> /\ todo'[Len(todo')] = written
    BY <2>3
  <2> QED
    BY <2>2, <2>4 DEF OutageKept, Overwrites
<1>6. CASE LoginAnswered
  <2>1. PICK last \in {"recovered", "verification_failed"} :
           todo' # <<>> /\ todo'[Len(todo')] = Call(last)
    <3>1. \/ todo' = <<Call("active"), Call("close_gaps"), Call("recovered")>>
          \/ todo' = <<Call("paused_session"), Call("verification_failed")>>
      BY <1>6 DEF LoginAnswered
    <3> QED
      BY <3>1
  <2>2. Overwrites(Call(last))
    BY DEF Overwrites, Call
  <2> QED
    BY <2>1, <2>2 DEF OutageKept, Overwrites
<1>7. CASE RecoveryTick
  <2>1. todo' = <<>>
    BY <1>1, <1>7 DEF RecoveryTick
  <2> QED
    BY <1>1, <1>2, <2>1, OutageStretch
<1>8. CASE HistoryAnswered
  <2>1. todo' = <<>> \/ todo' = <<Call("paused_session")>>
    BY <1>8 DEF HistoryAnswered
  <2> QED
    BY <1>1, <1>2, <2>1, OutageStretch
<1> QED
  BY <1>3, <1>4, <1>5, <1>6, <1>7, <1>8 DEF WatchdogStep


(* A resume by hand that reopens the collection does so while the record   *)
(* does not say offline and the collector is between two stretches.        *)
ReopensOutsideOutages ==
  (\E a \in Admins : ResumeEnds(a)) /\ control # "active" /\ control' = "active"
    => health.recovery # "offline" /\ todo = <<>>

(* Such a step preserves the invariant, and so does every other.           *)
LEMMA OutageStep ==
  ASSUME TypeOK, OutageKept, [Next]_vars, ReopensOutsideOutages
  PROVE  OutageKept'
<1>1. CASE StoreCall
  BY <1>1, OutageStoreCall
<1>2. CASE WatchdogStep
  BY <1>2, OutageWatchdogStep
<1>3. CASE HandleEvent
  <2> SUFFICES ASSUME restarts = 0 PROVE OutageKept'
    BY <1>3 DEF HandleEvent, OutageKept
  <2>1. /\ todo = <<>> /\ restarts' = restarts
        /\ control' = control /\ gapOpen' = gapOpen /\ health'.recovery = health.recovery
    BY <1>3 DEF HandleEvent
  <2>2. \/ todo' = <<>>
        \/ todo' = <<Call("paused_session")>>
        \/ todo' = <<Call("open_gaps"), Call("if_active_pause_session"), WriteHealth(Offline)>>
        \/ todo' = <<Call("if_active_close_gaps")>>
    BY <1>3 DEF HandleEvent, TypeOK
  <2>3. todo' = <<Call("open_gaps"), Call("if_active_pause_session"), WriteHealth(Offline)>>
          => OutageOrder'
    BY DEF OutageOrder
  <2> QED
    BY <2>1, <2>2, <2>3, OutageStretch
<1>4. CASE Disconnected
  <2> SUFFICES ASSUME restarts = 0 PROVE OutageKept'
    BY <1>4 DEF Disconnected, OutageKept
  <2>1. /\ todo = <<>> /\ restarts' = restarts /\ todo' = <<Call("open_gaps")>>
        /\ control' = control /\ gapOpen' = gapOpen /\ health'.recovery = health.recovery
    BY <1>4 DEF Disconnected
  <2> QED
    BY <2>1, OutageStretch
<1>5. CASE CollectorRestarts
  <2>1. restarts' # 0
    BY <1>5 DEF CollectorRestarts, TypeOK
  <2> QED
    BY <2>1 DEF OutageKept
<1>6. CASE NapCatChanges \/ NapCatSends \/ ApiRestarts \/ UNCHANGED vars
  <2>1. /\ todo' = todo /\ health' = health /\ restarts' = restarts
        /\ gapOpen' = gapOpen /\ control' = control
    BY <1>6 DEF NapCatChanges, NapCatSends, ApiRestarts, vars
  <2> QED
    BY <2>1, OutageQuietStep
<1>7. ASSUME NEW a \in Admins,
             \/ PauseBegins(a) \/ PauseEnds(a) \/ CommandLinePause(a)
             \/ ResumeBegins(a) \/ QueryBegins(a) \/ QueryEnds(a)
      PROVE  OutageKept'
  <2>1. todo' = todo /\ health' = health /\ restarts' = restarts
    BY <1>7 DEF PauseBegins, PauseEnds, CommandLinePause, ResumeBegins, QueryBegins, QueryEnds
  <2>2. gapOpen => gapOpen'
    BY <1>7 DEF PauseBegins, PauseEnds, CommandLinePause, ResumeBegins, QueryBegins, QueryEnds
  <2>3. control # "active" => control' # "active"
    BY <1>7 DEF PauseBegins, PauseEnds, CommandLinePause, ResumeBegins, QueryBegins, QueryEnds
  <2> QED
    BY <2>1, <2>2, <2>3, OutageQuietStep
<1>8. ASSUME NEW a \in Admins, ResumeEnds(a)
      PROVE  OutageKept'
  <2>1. todo' = todo /\ health' = health /\ restarts' = restarts /\ gapOpen' = gapOpen
    BY <1>8 DEF ResumeEnds
  <2>2. CASE control # "active" => control' # "active"
    BY <2>1, <2>2, OutageQuietStep
  <2>3. CASE control # "active" /\ control' = "active"
    <3>1. health'.recovery # "offline" /\ todo' = <<>>
      BY <1>8, <2>1, <2>3 DEF ReopensOutsideOutages
    <3> QED
      BY <3>1 DEF OutageKept, Settled
  <2> QED
    BY <2>2, <2>3
<1> QED
  BY <1>1, <1>2, <1>3, <1>4, <1>5, <1>6, <1>7, <1>8 DEF Next

(* No resume by hand reopens the collection over an outage.                *)
NoResumeOverOutage == [][ReopensOutsideOutages]_vars

(* While the record says offline between two stretches of the collector,   *)
(* the collection is paused and a gap covers what may be missing, whatever *)
(* events, answers, pauses, resumes and queries interleave; only a resume  *)
(* by hand that was decided before an outage and reopens the collection    *)
(* over it, or a crash of the collector, can break it.                     *)
THEOREM OfflineIsPausedAndCoveredHolds ==
  Spec /\ NoResumeOverOutage => []OfflineIsPausedAndCovered
<1>1. Init => TypeOK /\ OutageKept
  <2> SUFFICES ASSUME Init PROVE TypeOK /\ OutageKept
    OBVIOUS
  <2>1. todo = <<>> /\ health = Unknown
    BY DEF Init
  <2>2. Settled
    BY <2>1 DEF Settled, Unknown, Health
  <2> QED
    BY <2>1, <2>2, InitType DEF OutageKept
<1>2. TypeOK /\ OutageKept /\ [Next]_vars /\ [ReopensOutsideOutages]_vars
        => TypeOK' /\ OutageKept'
  <2> SUFFICES ASSUME TypeOK, OutageKept, [Next]_vars,
                      ReopensOutsideOutages \/ UNCHANGED vars
               PROVE  TypeOK' /\ OutageKept'
    OBVIOUS
  <2>1. TypeOK'
    BY TypeStep
  <2>2. CASE ReopensOutsideOutages
    BY <2>1, <2>2, OutageStep
  <2>3. CASE UNCHANGED vars
    <3>1. /\ todo' = todo /\ health' = health /\ restarts' = restarts
          /\ gapOpen' = gapOpen /\ control' = control
      BY <2>3 DEF vars
    <3> QED
      BY <2>1, <3>1, OutageQuietStep
  <2> QED
    BY <2>2, <2>3
<1>3. OutageKept => OfflineIsPausedAndCovered
  BY IdleIsSettled DEF OfflineIsPausedAndCovered, Settled
<1> QED
  BY <1>1, <1>2, <1>3, PTL DEF Spec, NoResumeOverOutage


-----------------------------------------------------------------------------
(* The calls of a stretch stand in this order: a pause of the              *)
(* configuration goes right before the call that opens the gaps, and gaps  *)
(* are closed only right after the collection was reopened.                *)
Ordered(s) ==
  /\ \A i \in 1 .. Len(s) :
       s[i].name \in {"paused_configuration", "if_active_pause_configuration"}
         => i < Len(s) /\ s[i + 1].name = "open_gaps"
  /\ \A i \in 2 .. Len(s) : s[i].name = "close_gaps" => s[i - 1].name = "active"

(* A configuration pause is covered, or is about to be.                    *)
PauseCovered ==
  restarts = 0 =>
    /\ control = "paused_configuration" => gapOpen \/ Ahead("open_gaps")
    /\ Ahead("close_gaps") => control # "paused_configuration"
    /\ Ordered(todo)

(* A store call preserves the invariant.                                   *)
LEMMA PauseStoreCall ==
  ASSUME TypeOK, PauseCovered, StoreCall
  PROVE  PauseCovered'
<1> SUFFICES ASSUME restarts = 0 PROVE PauseCovered'
  BY CallRuns DEF PauseCovered
<1> DEFINE name == Head(todo).name
<1>1. /\ todo \in Seq(CallType) /\ todo # <<>>
      /\ name = "open_gaps" => gapOpen' /\ control' = control
      /\ name = "close_gaps" => control' = control
      /\ name \in Statuses => control' = name /\ gapOpen' = gapOpen
      /\ name = "write_health" => control' = control /\ gapOpen' = gapOpen
      /\ name \in {"verification_failed", "recovered"} => control' = control /\ gapOpen' = gapOpen
      /\ IF name \in DOMAIN WhenActive
           THEN /\ UNCHANGED <<control, gapOpen, health>>
                /\ todo' = IF control = "active"
                             THEN <<Call(WhenActive[name])>> \o Tail(todo) ELSE Tail(todo)
           ELSE todo' = Tail(todo)
  BY CallRuns
<1>2. /\ DOMAIN WhenActive = {"if_active_pause_session", "if_active_pause_configuration",
                              "if_active_close_gaps"}
      /\ WhenActive["if_active_pause_session"] = "paused_session"
      /\ WhenActive["if_active_pause_configuration"] = "paused_configuration"
      /\ WhenActive["if_active_close_gaps"] = "close_gaps"
  BY DEF WhenActive
<1>3. /\ Head(todo) \in CallType /\ Head(todo) = todo[1]
      /\ Tail(todo) \in Seq(CallType) /\ Len(Tail(todo)) = Len(todo) - 1
      /\ Len(todo) \in Nat \ {0}
      /\ \A i \in 1 .. Len(todo) - 1 : Tail(todo)[i] = todo[i + 1]
  BY <1>1, TailOfCalls
<1>4. /\ control = "paused_configuration" => gapOpen \/ name = "open_gaps"
      /\ name = "close_gaps" => control # "paused_configuration"
  BY <1>1 DEF PauseCovered, Ahead
<1>5. /\ \A i \in 1 .. Len(todo) :
           todo[i].name \in {"paused_configuration", "if_active_pause_configuration"}
             => i < Len(todo) /\ todo[i + 1].name = "open_gaps"
      /\ \A i \in 2 .. Len(todo) : todo[i].name = "close_gaps" => todo[i - 1].name = "active"
  BY DEF PauseCovered, Ordered
<1>6. name \in CallNames
  BY <1>3 DEF CallType
<1>7. CASE todo' = Tail(todo)
  <2>1. /\ Len(todo') = Len(todo) - 1
        /\ \A i \in 1 .. Len(todo') : todo'[i] = todo[i + 1]
        /\ Len(todo') \in Nat
        /\ todo' # <<>> => Head(todo') = todo[2] /\ 2 \in 2 .. Len(todo)
    <3>1. /\ Len(todo') = Len(todo) - 1
          /\ \A i \in 1 .. Len(todo') : todo'[i] = todo[i + 1]
          /\ Len(todo') \in Nat /\ todo' \in Seq(CallType)
      BY <1>3, <1>7
    <3>2. ASSUME todo' # <<>> PROVE Head(todo') = todo[2] /\ 2 \in 2 .. Len(todo)
      <4>1. Head(todo') = todo'[1] /\ Len(todo') \in Nat \ {0}
        BY <3>1, <3>2, TailOfCalls
      <4> QED
        BY <1>3, <3>1, <4>1
    <3> QED
      BY <3>1, <3>2
  <2>2. Ordered(todo)'
    <3>1. ASSUME NEW i \in 1 .. Len(todo'),
                 todo'[i].name \in {"paused_configuration", "if_active_pause_configuration"}
          PROVE  i < Len(todo') /\ todo'[i + 1].name = "open_gaps"
      <4>1. i + 1 \in 1 .. Len(todo) /\ todo'[i] = todo[i + 1]
        BY <1>3, <2>1
      <4>2. i + 1 < Len(todo) /\ todo[i + 1 + 1].name = "open_gaps"
        BY <1>5, <3>1, <4>1
      <4>3. i < Len(todo') /\ i + 1 \in 1 .. Len(todo')
        BY <1>3, <2>1, <4>2
      <4> QED
        BY <2>1, <4>2, <4>3
    <3>2. ASSUME NEW i \in 2 .. Len(todo'), todo'[i].name = "close_gaps"
          PROVE  todo'[i - 1].name = "active"
      <4>1. /\ i + 1 \in 2 .. Len(todo) /\ i \in 1 .. Len(todo') /\ i - 1 \in 1 .. Len(todo')
            /\ (i + 1) - 1 = i /\ (i - 1) + 1 = i
        BY <1>3, <2>1
      <4>2. todo'[i] = todo[i + 1] /\ todo'[i - 1] = todo[i]
        BY <2>1, <4>1
      <4>3. todo[i].name = "active"
        BY <1>5, <3>2, <4>1, <4>2
      <4> QED
        BY <4>2, <4>3
    <3> QED
      BY <3>1, <3>2 DEF Ordered
  <2>3. control' = "paused_configuration" => gapOpen' \/ Ahead("open_gaps")'
    <3>1. CASE name = "paused_configuration"
      <4>1. 1 < Len(todo) /\ todo[2].name = "open_gaps"
        BY <1>3, <1>5, <3>1
      <4>2. Len(todo') # 0
        BY <1>3, <2>1, <4>1
      <4>3. todo' # <<>>
        BY <4>2
      <4> QED
        BY <2>1, <4>1, <4>3 DEF Ahead
    <3>2. CASE name # "paused_configuration"
      <4>1. CASE name \in Statuses
        BY <1>1, <3>2, <4>1
      <4>2. CASE name = "open_gaps"
        BY <1>1, <4>2
      <4>3. CASE name = "close_gaps"
        BY <1>1, <1>4, <4>3
      <4>4. CASE name \in {"write_health", "verification_failed", "recovered"}
        BY <1>1, <1>4, <4>4
      <4>5. CASE name \in DOMAIN WhenActive
        <5>1. control' = control /\ gapOpen' = gapOpen /\ name # "open_gaps"
          BY <1>1, <1>2, <4>5
        <5> QED
          BY <1>4, <5>1
      <4> QED
        BY <1>2, <1>6, <4>1, <4>2, <4>3, <4>4, <4>5 DEF CallNames
    <3> QED
      BY <3>1, <3>2
  <2>4. Ahead("close_gaps")' => control' # "paused_configuration"
    <3> SUFFICES ASSUME Ahead("close_gaps")' PROVE control' # "paused_configuration"
      OBVIOUS
    <3>1. todo[2].name = "close_gaps" /\ 2 \in 2 .. Len(todo)
      BY <2>1 DEF Ahead
    <3>2. todo[2 - 1].name = "active"
      BY <1>5, <3>1
    <3>3. name = "active"
      BY <1>3, <3>2
    <3> QED
      BY <1>1, <3>3 DEF Statuses
  <2> QED
    BY <2>2, <2>3, <2>4 DEF PauseCovered
<1>8. CASE todo' # Tail(todo)
  <2> DEFINE called == Call(WhenActive[name])
  <2>1. /\ name \in DOMAIN WhenActive /\ control = "active" /\ control' = control
        /\ todo' = <<called>> \o Tail(todo)
    BY <1>1, <1>8
  <2>2. called \in CallType /\ called.name = WhenActive[name]
    BY <1>2, <2>1, CallsAreTyped DEF CallNames, Statuses, Call
  <2>3. called.name = "paused_configuration" => name = "if_active_pause_configuration"
    BY <1>2, <2>1, <2>2
  <2>4. called.name # "if_active_pause_configuration"
    BY <1>2, <2>1, <2>2
  <2> HIDE DEF called
  <2>5. /\ Len(todo') = Len(todo)
        /\ todo'[1] = called
        /\ \A i \in 2 .. Len(todo) : todo'[i] = todo[i]
    BY <1>1, <2>1, <2>2, ReplacedHead
  <2>6. Ordered(todo)'
    <3>1. ASSUME NEW i \in 1 .. Len(todo'),
                 todo'[i].name \in {"paused_configuration", "if_active_pause_configuration"}
          PROVE  i < Len(todo') /\ todo'[i + 1].name = "open_gaps"
      <4>1. i \in 1 .. Len(todo)
        BY <2>5
      <4>2. todo[i].name \in {"paused_configuration", "if_active_pause_configuration"}
        <5>1. CASE i = 1
          BY <1>3, <2>3, <2>4, <2>5, <3>1, <5>1
        <5>2. CASE i # 1
          <6>1. i \in 2 .. Len(todo)
            BY <1>3, <4>1, <5>2
          <6> QED
            BY <2>5, <3>1, <6>1
        <5> QED
          BY <5>1, <5>2
      <4>3. i < Len(todo) /\ todo[i + 1].name = "open_gaps"
        BY <1>5, <4>1, <4>2
      <4>4. i + 1 \in 2 .. Len(todo)
        BY <1>3, <4>1, <4>3
      <4> QED
        BY <2>5, <4>3, <4>4
    <3>2. ASSUME NEW i \in 2 .. Len(todo'), todo'[i].name = "close_gaps"
          PROVE  todo'[i - 1].name = "active"
      <4>1. i \in 2 .. Len(todo) /\ todo'[i] = todo[i]
        BY <2>5
      <4>2. todo[i - 1].name = "active"
        BY <1>5, <3>2, <4>1
      <4>3. i # 2
        <5> SUFFICES ASSUME i = 2 PROVE FALSE
          OBVIOUS
        <5>1. name = "active"
          BY <1>3, <4>2
        <5> QED
          BY <1>2, <2>1, <5>1
      <4>4. i - 1 \in 2 .. Len(todo)
        BY <1>3, <4>1, <4>3
      <4> QED
        BY <2>5, <4>2, <4>4
    <3> QED
      BY <3>1, <3>2 DEF Ordered
  <2> QED
    BY <2>1, <2>6 DEF PauseCovered
<1> QED
  BY <1>7, <1>8


(* A handler that starts a stretch in order, the first call of which       *)
(* closes nothing.                                                         *)
LEMMA PauseStretch ==
  ASSUME PauseCovered, restarts = 0, todo = <<>>, control' = control, gapOpen' = gapOpen,
         Ordered(todo'), ~Ahead("close_gaps")'
  PROVE  PauseCovered'
<1>1. control' = "paused_configuration" => gapOpen'
  BY DEF PauseCovered, Ahead
<1>2. Ordered(todo)'
  BY DEF Ordered
<1> QED
  BY <1>1, <1>2 DEF PauseCovered

(* The stretches the handlers start are in order.                          *)
LEMMA StretchesAreOrdered ==
  /\ Ordered(<<>>)
  /\ \A n \in CallNames \ {"paused_configuration", "if_active_pause_configuration"} :
       Ordered(<<Call(n)>>)
  /\ \A h : Ordered(<<WriteHealth(h)>>)
  /\ \A h : Ordered(<<Call("if_active_pause_configuration"), Call("open_gaps"), WriteHealth(h)>>)
  /\ \A h : Ordered(<<Call("if_active_pause_session"), Call("open_gaps"), WriteHealth(h)>>)
  /\ \A h : Ordered(<<Call("open_gaps"), Call("if_active_pause_session"), WriteHealth(h)>>)
  /\ Ordered(<<Call("active"), Call("close_gaps"), Call("recovered")>>)
  /\ Ordered(<<Call("paused_session"), Call("verification_failed")>>)
<1>1. (\A n : Call(n).name = n) /\ (\A h : WriteHealth(h).name = "write_health")
  BY DEF Call, WriteHealth
<1>2. ASSUME NEW c
      PROVE  /\ Len(<<c>>) = 1 /\ <<c>>[1] = c
             /\ \A i \in 1 .. Len(<<c>>) : i = 1
             /\ \A i \in 2 .. Len(<<c>>) : FALSE
  OBVIOUS
<1>3. ASSUME NEW c, NEW d,
             c.name \notin {"paused_configuration", "if_active_pause_configuration"},
             d.name \notin {"paused_configuration", "if_active_pause_configuration", "close_gaps"}
      PROVE  Ordered(<<c, d>>)
  BY <1>3 DEF Ordered
<1>4. ASSUME NEW c, NEW d, NEW e,
             c.name \in {"paused_configuration", "if_active_pause_configuration"}
               => d.name = "open_gaps",
             d.name \notin {"paused_configuration", "if_active_pause_configuration"},
             d.name = "close_gaps" => c.name = "active",
             e.name \notin {"paused_configuration", "if_active_pause_configuration", "close_gaps"}
      PROVE  Ordered(<<c, d, e>>)
  <2> DEFINE s == <<c, d, e>>
  <2>1. Len(s) = 3 /\ s[1] = c /\ s[2] = d /\ s[3] = e
    OBVIOUS
  <2> HIDE DEF s
  <2>2. \A i \in 1 .. Len(s) : i = 1 \/ i = 2 \/ i = 3
    BY <2>1
  <2>3. \A i \in 1 .. Len(s) :
           s[i].name \in {"paused_configuration", "if_active_pause_configuration"}
             => i < Len(s) /\ s[i + 1].name = "open_gaps"
    BY <1>4, <2>1, <2>2
  <2>4. \A i \in 2 .. Len(s) : i = 2 \/ i = 3
    BY <2>1
  <2>5. \A i \in 2 .. Len(s) : s[i].name = "close_gaps" => s[i - 1].name = "active"
    BY <1>4, <2>1, <2>4
  <2>6. Ordered(s)
    BY <2>3, <2>5 DEF Ordered
  <2> QED
    BY <2>6 DEF s
<1>5. ASSUME NEW c,
             c.name \notin {"paused_configuration", "if_active_pause_configuration"}
      PROVE  Ordered(<<c>>)
  BY <1>2, <1>5 DEF Ordered
<1>6. Ordered(<<>>)
  BY DEF Ordered
<1> QED
  BY <1>1, <1>3, <1>4, <1>5, <1>6

(* So do the steps of the watchdog.                                        *)
LEMMA PauseWatchdogStep ==
  ASSUME TypeOK, PauseCovered, WatchdogStep
  PROVE  PauseCovered'
<1>1. todo = <<>> /\ restarts' = restarts /\ control' = control /\ gapOpen' = gapOpen
  BY DEF WatchdogStep, WatchdogWakes, StatusNotOnline, StatusOnline, LoginAnswered, RecoveryTick,
         HistoryAnswered
<1> SUFFICES ASSUME restarts = 0 PROVE PauseCovered'
  BY <1>1 DEF PauseCovered
<1>2. PICK h :
         \/ todo' = <<>> \/ todo' = <<Call("open_gaps")>> \/ todo' = <<Call("paused_session")>>
         \/ todo' = <<WriteHealth(h)>>
         \/ todo' = <<Call("if_active_pause_configuration"), Call("open_gaps"), WriteHealth(h)>>
         \/ todo' = <<Call("if_active_pause_session"), Call("open_gaps"), WriteHealth(h)>>
         \/ todo' = <<Call("active"), Call("close_gaps"), Call("recovered")>>
         \/ todo' = <<Call("paused_session"), Call("verification_failed")>>
  BY <1>1 DEF WatchdogStep, WatchdogWakes, StatusNotOnline, StatusOnline, LoginAnswered,
              RecoveryTick, HistoryAnswered
<1>3. Ordered(todo')
  BY <1>2, StretchesAreOrdered DEF CallNames, Statuses
<1>4. ~Ahead("close_gaps")'
  BY <1>2 DEF Ahead, Call, WriteHealth
<1> QED
  BY <1>1, <1>3, <1>4, PauseStretch

(* Steps that leave the calls alone, close no gap and pause for no         *)
(* configuration.                                                          *)
LEMMA PauseQuietStep ==
  ASSUME PauseCovered, todo' = todo, restarts' = restarts, gapOpen => gapOpen',
         control' = "paused_configuration" => control = "paused_configuration"
  PROVE  PauseCovered'
<1>1. Ordered(todo) => Ordered(todo)'
  BY DEF Ordered
<1> QED
  BY <1>1 DEF PauseCovered, Ahead

(* A request that NapCat answers with a configuration error finds an open  *)
(* gap that the collector is not about to close.                           *)
PausesInsideGap ==
  (\E a \in Admins : ResumeEnds(a) \/ QueryEnds(a)) /\ napcat = "misconfigured"
    => gapOpen /\ ~Ahead("close_gaps")

(* No request of an administrator pauses for a configuration error outside *)
(* of a gap.                                                               *)
NoPauseOutsideGap == [][PausesInsideGap]_vars

(* Every other step preserves the invariant.                               *)
LEMMA PauseStep ==
  ASSUME TypeOK, PauseCovered, [Next]_vars, PausesInsideGap
  PROVE  PauseCovered'
<1>1. CASE StoreCall
  BY <1>1, PauseStoreCall
<1>2. CASE WatchdogStep
  BY <1>2, PauseWatchdogStep
<1>3. CASE HandleEvent
  <2> SUFFICES ASSUME restarts = 0 PROVE PauseCovered'
    BY <1>3 DEF HandleEvent, PauseCovered
  <2>1. todo = <<>> /\ restarts' = restarts /\ control' = control /\ gapOpen' = gapOpen
    BY <1>3 DEF HandleEvent
  <2>2. \/ todo' = <<>>
        \/ todo' = <<Call("paused_session")>>
        \/ todo' = <<Call("open_gaps"), Call("if_active_pause_session"), WriteHealth(Offline)>>
        \/ todo' = <<Call("if_active_close_gaps")>>
    BY <1>3 DEF HandleEvent, TypeOK
  <2>3. Ordered(todo')
    BY <2>2, StretchesAreOrdered DEF CallNames, Statuses
  <2>4. ~Ahead("close_gaps")'
    BY <2>2 DEF Ahead, Call
  <2> QED
    BY <2>1, <2>3, <2>4, PauseStretch
<1>4. CASE Disconnected
  <2> SUFFICES ASSUME restarts = 0 PROVE PauseCovered'
    BY <1>4 DEF Disconnected, PauseCovered
  <2>1. /\ todo = <<>> /\ restarts' = restarts /\ todo' = <<Call("open_gaps")>>
        /\ control' = control /\ gapOpen' = gapOpen
    BY <1>4 DEF Disconnected
  <2>2. Ordered(todo')
    BY <2>1, StretchesAreOrdered DEF CallNames
  <2>3. ~Ahead("close_gaps")'
    BY <2>1 DEF Ahead, Call
  <2> QED
    BY <2>1, <2>2, <2>3, PauseStretch
<1>5. CASE CollectorRestarts
  <2>1. restarts' # 0
    BY <1>5 DEF CollectorRestarts, TypeOK
  <2> QED
    BY <2>1 DEF PauseCovered
<1>6. CASE NapCatChanges \/ NapCatSends \/ ApiRestarts \/ UNCHANGED vars
  <2>1. todo' = todo /\ restarts' = restarts /\ gapOpen' = gapOpen /\ control' = control
    BY <1>6 DEF NapCatChanges, NapCatSends, ApiRestarts, vars
  <2> QED
    BY <2>1, PauseQuietStep
<1>7. ASSUME NEW a \in Admins,
             \/ PauseBegins(a) \/ PauseEnds(a) \/ CommandLinePause(a)
             \/ ResumeBegins(a) \/ ResumeEnds(a) \/ QueryBegins(a) \/ QueryEnds(a)
      PROVE  PauseCovered'
  <2>1. todo' = todo /\ restarts' = restarts
    BY <1>7 DEF PauseBegins, PauseEnds, CommandLinePause, ResumeBegins, ResumeEnds, QueryBegins,
                QueryEnds
  <2>2. gapOpen => gapOpen'
    BY <1>7 DEF PauseBegins, PauseEnds, CommandLinePause, ResumeBegins, ResumeEnds, QueryBegins,
                QueryEnds
  <2>3. CASE (ResumeEnds(a) \/ QueryEnds(a)) /\ napcat # "misconfigured"
    <3>1. napcat \in Sessions /\ napcat # "misconfigured"
      BY <2>3 DEF TypeOK
    <3>2. control' \in {"active", "paused_session", control}
      BY <2>3, <3>1 DEF ResumeEnds, QueryEnds, Sessions
    <3> QED
      BY <2>1, <2>2, <3>2, PauseQuietStep
  <2>4. CASE (ResumeEnds(a) \/ QueryEnds(a)) /\ napcat = "misconfigured"
    <3>1. gapOpen' /\ ~Ahead("close_gaps")'
      BY <2>1, <2>2, <2>4 DEF PausesInsideGap, Ahead
    <3>2. Ordered(todo) => Ordered(todo)'
      BY <2>1 DEF Ordered
    <3> QED
      BY <2>1, <3>1, <3>2 DEF PauseCovered
  <2>5. CASE PauseBegins(a) \/ PauseEnds(a) \/ CommandLinePause(a) \/ ResumeBegins(a)
             \/ QueryBegins(a)
    <3>1. control' \in {"paused_manual", control}
      BY <2>5 DEF PauseBegins, PauseEnds, CommandLinePause, ResumeBegins, QueryBegins
    <3> QED
      BY <2>1, <2>2, <3>1, PauseQuietStep
  <2> QED
    BY <1>7, <2>3, <2>4, <2>5
<1> QED
  BY <1>1, <1>2, <1>3, <1>4, <1>5, <1>6, <1>7 DEF Next

(* A collection paused for a configuration error of NapCat is covered by a *)
(* gap between two stretches of the collector, whatever else interleaves;  *)
(* only an error answered to an administrator's request outside of a gap,  *)
(* or a crash of the collector, can pause it without one.                  *)
THEOREM ConfigurationPauseIsCoveredHolds ==
  Spec /\ NoPauseOutsideGap => []ConfigurationPauseIsCovered
<1>1. Init => TypeOK /\ PauseCovered
  <2> SUFFICES ASSUME Init PROVE TypeOK /\ PauseCovered
    OBVIOUS
  <2>1. todo = <<>> /\ control # "paused_configuration"
    BY DEF Init
  <2> QED
    BY <2>1, InitType, StretchesAreOrdered DEF PauseCovered, Ahead
<1>2. TypeOK /\ PauseCovered /\ [Next]_vars /\ [PausesInsideGap]_vars
        => TypeOK' /\ PauseCovered'
  <2> SUFFICES ASSUME TypeOK, PauseCovered, [Next]_vars,
                      PausesInsideGap \/ UNCHANGED vars
               PROVE  TypeOK' /\ PauseCovered'
    OBVIOUS
  <2>1. TypeOK'
    BY TypeStep
  <2>2. CASE PausesInsideGap
    BY <2>1, <2>2, PauseStep
  <2>3. CASE UNCHANGED vars
    <3>1. todo' = todo /\ restarts' = restarts /\ gapOpen' = gapOpen /\ control' = control
      BY <2>3 DEF vars
    <3> QED
      BY <2>1, <3>1, PauseQuietStep
  <2> QED
    BY <2>2, <2>3
<1>3. PauseCovered => ConfigurationPauseIsCovered
  BY DEF PauseCovered, ConfigurationPauseIsCovered, Ahead
<1> QED
  BY <1>1, <1>2, <1>3, PTL DEF Spec, NoPauseOutsideGap
=============================================================================
