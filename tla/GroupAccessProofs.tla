------------------------- MODULE GroupAccessProofs --------------------------
(***************************************************************************)
(* For any number of links and pages, any kinds of departure and any       *)
(* number of events on their way: the types, that an archived group is     *)
(* quiet, that an archiving by hand stands, and that an automatic one ends *)
(* with the return of the account.                                         *)
(***************************************************************************)
EXTENDS GroupAccess, SequenceTheorems, TLAPS

-----------------------------------------------------------------------------
(* The inductive invariant                                                 *)

Forms == [step : {"form", "asked", "member", "stranger"}, link : Links, action : Actions]

Memberships ==
  [step : {"membership"}, event : Departures \cup {"increase"}, listed : BOOLEAN,
   reopens : BOOLEAN]

CollectorType ==
  {Idle, [step |-> "recover"]} \cup Memberships \cup [step : {"queue"}, wanted : BOOLEAN]

Acting == [step : Actions \cup {"recover", "consume"}, page : Pages]
Queueing == [step : {"queue"}, page : Pages, wanted : BOOLEAN]
Switching == [step : {"switch"}, on : BOOLEAN]

ApiType == {Idle} \cup Acting \cup Queueing \cup Switching

Types ==
  /\ group \in Groups
  /\ group.archived <=> group.source # "none"
  /\ job \in {"none", "active", "cancelled", "complete"}
  /\ gap \in BOOLEAN
  /\ seen \in BOOLEAN
  /\ wire \in Seq(Events)
  /\ spent \subseteq Links
  /\ byHand \in {"no", "stands", "over"}
  /\ tick \in BOOLEAN
  /\ late \in BOOLEAN
  /\ page \in [Pages -> {NoPage} \cup Forms]
  /\ collector \in CollectorType
  /\ api \in ApiType
  /\ api \in Acting \cup Queueing => page[api.page] \in Forms

(* What an administrator archived by hand is archived as such, and the     *)
(* event being handled will not reopen it.                                 *)
HandStands ==
  byHand = "stands" =>
    /\ group.source = "manual"
    /\ collector \in Memberships => ~collector.reopens

(* A group archived by an event is one that the event being handled will   *)
(* reopen, if it is the return: no other process archives for this reason. *)
ReturnSeesArchive ==
  collector \in Memberships /\ group.whitelisted /\ group.source = "membership_event"
    => collector.reopens

IInv == Types /\ HandStands /\ ReturnSeesArchive /\ ArchivedIsQuiet /\ ReturnEndsArchive

(* The steps tell the shapes apart.                                        *)
LEMMA Shapes ==
  ASSUME Types
  PROVE  /\ collector.step = "membership" => collector \in Memberships
         /\ collector.step = "queue" => collector.wanted \in BOOLEAN
         /\ api.step \in Actions \cup {"recover", "consume"} => api \in Acting
         /\ api.step = "queue" => api \in Queueing
         /\ api.step = "switch" => api.on \in BOOLEAN
         /\ \A p \in Pages : page[p].step # "none" => page[p] \in Forms
  BY DEF Types, CollectorType, ApiType, Memberships, Acting, Queueing, Switching, Forms,
     Actions, Idle, NoPage

(* The initial states.                                                     *)
LEMMA InitSatisfies == Init => IInv
<1> SUFFICES ASSUME Init PROVE IInv
  OBVIOUS
<1>1. /\ group \in Groups /\ group.source = "none" /\ ~group.archived /\ ~group.roleplay
  BY DEF Init, Groups
<1>2. Idle \in CollectorType /\ Idle \in ApiType /\ Idle \notin Acting \cup Queueing \cup Memberships
  BY DEF CollectorType, ApiType, Idle, Acting, Queueing, Memberships, Actions
<1>3. <<>> \in Seq(Events) /\ [p \in Pages |-> NoPage] \in [Pages -> {NoPage} \cup Forms]
  OBVIOUS
<1>4. Types
  BY <1>1, <1>2, <1>3 DEF Init, Types
<1> QED
  BY <1>1, <1>2, <1>4 DEF Init, IInv, HandStands, ReturnSeesArchive, ArchivedIsQuiet,
     ReturnEndsArchive

-----------------------------------------------------------------------------
(* The transactions                                                        *)

(* Archiving and reopening a group keep its shape.                         *)
LEMMA GroupTransactions ==
  ASSUME NEW g \in Groups
  PROVE  /\ \A source \in {"manual", "membership_event"} :
              LET a == Archived(g, source) IN
              /\ a \in Groups /\ a.archived /\ a.source = source /\ ~a.roleplay
              /\ a.whitelisted = g.whitelisted /\ a.membership = g.membership
         /\ Reopened(g) \in Groups /\ ~Reopened(g).archived /\ Reopened(g).source = "none"
         /\ Reopened(g).membership = g.membership
         /\ Admitted(g) \in Groups /\ ~Admitted(g).archived /\ Admitted(g).source = "none"
  BY DEF Groups, Archived, Reopened, Admitted

(* What the event makes of the membership.                                 *)
LEMMA MembershipTyped ==
  ASSUME NEW e \in Departures \cup {"increase"}
  PROVE  /\ MembershipAfter(e) \in {"joined", "left", "kicked", "disbanded", "uncertain"}
         /\ MembershipAfter(e) = "joined" <=> e = "increase"
         /\ Explicit(e) => e # "increase"
  BY GroupAccessAssumption DEF MembershipAfter, Explicit

(* Archiving leaves no job to work on, queueing does unless it was not     *)
(* wanted.                                                                 *)
LEMMA JobTransactions ==
  ASSUME Types
  PROVE  /\ CancelledJob \in {"none", "cancelled", "complete"}
         /\ \A wanted \in BOOLEAN :
              /\ Queued(wanted) \in {"none", "active", "cancelled", "complete"}
              /\ ~wanted => Queued(wanted) = job
         /\ Wanted \in BOOLEAN
  BY DEF Types, CancelledJob, Queued, Wanted, Groups

-----------------------------------------------------------------------------
(* Steps that leave the group as it is                                     *)

(* Events travel, gaps come and go, links expire.                          *)
LEMMA EnvironmentKeeps ==
  ASSUME IInv, Environment
  PROVE  IInv'
<1>1. UNCHANGED <<group, page, api, byHand, late>>
  BY DEF Environment, QQDeparts, QQReturns, QQMessage, EventsLost, GapChanges, LinkExpires
<1>2. collector' \in {collector, Idle} /\ job' \in {job, CancelledJob} /\ tick' \in BOOLEAN
  BY DEF Environment, QQDeparts, QQReturns, QQMessage, EventsLost, GapChanges, LinkExpires,
     IInv, Types
<1>3. wire' \in Seq(Events)
  <2>1. \A e \in Events : Append(wire, e) \in Seq(Events)
    BY DEF IInv, Types
  <2>2. <<>> \in Seq(Events)
    OBVIOUS
  <2> QED
    BY <2>1, <2>2 DEF Environment, QQDeparts, QQReturns, QQMessage, EventsLost, GapChanges,
       LinkExpires, Sends, Events, IInv, Types
<1>4. gap' \in BOOLEAN /\ seen' = seen /\ spent' \subseteq Links
  BY DEF Environment, QQDeparts, QQReturns, QQMessage, EventsLost, GapChanges, LinkExpires,
     IInv, Types
<1>5. Idle \in CollectorType /\ Idle \notin Memberships
  BY DEF CollectorType, Idle, Memberships
<1>6. Types'
  BY <1>1, <1>2, <1>3, <1>4, <1>5, JobTransactions DEF IInv, Types
<1> QED
  BY <1>1, <1>2, <1>5, <1>6, JobTransactions
     DEF IInv, HandStands, ReturnSeesArchive, ArchivedIsQuiet, ReturnEndsArchive

(* An event is taken up with what the row says.                            *)
LEMMA EventReadKeeps ==
  ASSUME IInv, EventRead
  PROVE  IInv'
<1> DEFINE e == Head(wire)
<1>1. e \in Events /\ wire' \in Seq(Events)
  BY DEF EventRead, IInv, Types
<1>2. UNCHANGED <<group, job, gap, spent, page, api, byHand, late, tick>>
  BY DEF EventRead
<1>3. CASE e = "message"
  <2>1. collector' = Idle /\ Idle \in CollectorType /\ Idle \notin Memberships
    BY <1>3 DEF EventRead, CollectorType, Idle, Memberships
  <2>2. Types'
    BY <1>1, <1>2, <2>1 DEF EventRead, IInv, Types
  <2> QED
    BY <1>2, <2>1, <2>2
       DEF IInv, HandStands, ReturnSeesArchive, ArchivedIsQuiet, ReturnEndsArchive
<1>4. CASE e # "message"
  <2>1. Reopens(group) \in BOOLEAN /\ group.whitelisted \in BOOLEAN
    BY DEF Reopens, IInv, Types, Groups
  <2>2. collector' = [step |-> "membership", event |-> e, listed |-> group.whitelisted,
                      reopens |-> Reopens(group)]
    BY <1>4 DEF EventRead
  <2>3. collector' \in Memberships /\ collector'.reopens = Reopens(group)
    BY <1>1, <1>4, <2>1, <2>2 DEF Memberships, Events
  <2>4. Types'
    BY <1>1, <1>2, <2>3 DEF EventRead, IInv, Types, CollectorType
  <2> QED
    BY <1>2, <2>3, <2>4 DEF IInv, Types, HandStands, ReturnSeesArchive, ArchivedIsQuiet,
       ReturnEndsArchive, Reopens
<1> QED
  BY <1>3, <1>4

(* The recovery of a group is considered, for the login or a new one.      *)
LEMMA RecoveryReadKeeps ==
  ASSUME IInv, RecoveryRead \/ Recovers
  PROVE  IInv'
<1>1. /\ UNCHANGED <<group, gap, seen, wire, spent, page, api, byHand, late>>
      /\ job' \in {job, "none"} /\ tick' \in {tick, FALSE}
  BY DEF RecoveryRead, Recovers
<1>2. collector' \in CollectorType /\ collector' \notin Memberships
  BY JobTransactions DEF RecoveryRead, Recovers, CollectorType, Memberships, IInv
<1>3. Types'
  BY <1>1, <1>2 DEF IInv, Types
<1> QED
  BY <1>1, <1>2, <1>3
     DEF IInv, HandStands, ReturnSeesArchive, ArchivedIsQuiet, ReturnEndsArchive

(* The job is queued; after an archiving it is a late one.                 *)
LEMMA RecoveryQueuedKeeps ==
  ASSUME IInv, RecoveryQueued
  PROVE  IInv'
<1>1. collector.wanted \in BOOLEAN
  BY Shapes DEF RecoveryQueued, IInv
<1>2. UNCHANGED <<group, gap, seen, wire, spent, page, api, byHand, tick>>
  BY DEF RecoveryQueued
<1>3. collector' \in CollectorType /\ collector' \notin Memberships
  BY DEF RecoveryQueued, CollectorType, Memberships, Idle
<1>4. job' \in {"none", "active", "cancelled", "complete"}
  BY <1>1, JobTransactions DEF RecoveryQueued, IInv
<1>5. late' \in BOOLEAN /\ (~late' => ~late /\ (group.archived => job' = job))
  BY <1>1, JobTransactions DEF RecoveryQueued, IInv, Types, Groups
<1>6. Types'
  BY <1>2, <1>3, <1>4, <1>5 DEF IInv, Types
<1> QED
  BY <1>2, <1>3, <1>5, <1>6
     DEF IInv, HandStands, ReturnSeesArchive, ArchivedIsQuiet, ReturnEndsArchive

(* The tick takes up the job of a group that is not archived, and writes   *)
(* what it comes to; after an archiving that is a late write.              *)
LEMMA TickKeeps ==
  ASSUME IInv, TickPicks \/ TickWrites
  PROVE  IInv'
<1>1. UNCHANGED <<group, seen, wire, spent, page, api, collector, byHand>>
  BY DEF TickPicks, TickWrites
<1>2. /\ gap' \in BOOLEAN /\ tick' \in BOOLEAN /\ late' \in BOOLEAN
      /\ job' \in {"none", "active", "cancelled", "complete"}
  BY DEF TickPicks, TickWrites, IInv, Types, Groups
<1>3. ~late' => ~late /\ (group.archived => job' = job \/ job' # "active")
  BY DEF TickPicks, TickWrites
<1>4. Types'
  BY <1>1, <1>2 DEF IInv, Types
<1> QED
  BY <1>1, <1>3, <1>4
     DEF IInv, HandStands, ReturnSeesArchive, ArchivedIsQuiet, ReturnEndsArchive

-----------------------------------------------------------------------------
(* Steps that write the row                                                *)

(* The event is written: what it archives is left, what it reopens is what *)
(* an event archived.                                                      *)
LEMMA MembershipWrittenKeeps ==
  ASSUME IInv, MembershipWritten
  PROVE  IInv'
<1> DEFINE e == collector.event
           now == [group EXCEPT !.membership = MembershipAfter(e)]
<1>1. collector \in Memberships
  BY Shapes DEF MembershipWritten, IInv
<1>2. e \in Departures \cup {"increase"} /\ collector.listed \in BOOLEAN /\ collector.reopens \in BOOLEAN
  BY <1>1 DEF Memberships
<1>3. /\ now \in Groups /\ now.membership = MembershipAfter(e)
      /\ now.archived = group.archived /\ now.source = group.source
      /\ now.roleplay = group.roleplay /\ now.whitelisted = group.whitelisted
  BY <1>2, MembershipTyped DEF Groups, IInv, Types
<1>4. UNCHANGED <<gap, seen, wire, spent, page, api, tick>>
  BY DEF MembershipWritten
<1>5. collector' \in CollectorType /\ collector' \notin Memberships
  BY DEF MembershipWritten, CollectorType, Memberships, Idle
<1>6. /\ byHand' \in {"no", "stands", "over"}
      /\ byHand' = "stands" => byHand = "stands" /\ ~(Explicit(e) /\ collector.listed)
  BY DEF MembershipWritten, IInv, Types
<1>7. CASE Explicit(e) /\ collector.listed
  <2>1. /\ group' = Archived(now, "membership_event") /\ job' = CancelledJob /\ late' = FALSE
    BY <1>7 DEF MembershipWritten
  <2>2. /\ group' \in Groups /\ group'.archived /\ group'.source = "membership_event"
        /\ ~group'.roleplay /\ group'.membership = MembershipAfter(e)
    BY <1>3, <2>1, GroupTransactions
  <2>3. job' \in {"none", "cancelled", "complete"}
    BY <2>1, JobTransactions DEF IInv
  <2>4. Types'
    BY <1>4, <1>5, <1>6, <2>1, <2>2, <2>3 DEF IInv, Types
  <2>5. group'.membership # "joined"
    BY <1>2, <1>7, <2>2, MembershipTyped
  <2> QED
    BY <1>5, <1>6, <1>7, <2>2, <2>3, <2>4, <2>5
       DEF IInv, HandStands, ReturnSeesArchive, ArchivedIsQuiet, ReturnEndsArchive
<1>8. CASE ~(Explicit(e) /\ collector.listed)
  <2>1. /\ group' = IF e = "increase" /\ collector.reopens THEN Reopened(now) ELSE now
        /\ UNCHANGED <<job, late>>
    BY <1>8 DEF MembershipWritten
  <2>2. CASE e = "increase" /\ collector.reopens
    <3>1. group' \in Groups /\ ~group'.archived /\ group'.source = "none"
      BY <1>3, <2>1, <2>2, GroupTransactions
    <3>2. Types'
      BY <1>4, <1>5, <1>6, <2>1, <3>1 DEF IInv, Types
    <3> QED
      BY <1>1, <1>5, <1>6, <2>2, <3>1, <3>2
         DEF IInv, HandStands, ReturnSeesArchive, ArchivedIsQuiet, ReturnEndsArchive
  <2>3. CASE ~(e = "increase" /\ collector.reopens)
    <3>1. group' = now
      BY <2>1, <2>3
    <3>2. Types'
      BY <1>3, <1>4, <1>5, <1>6, <2>1, <3>1 DEF IInv, Types
    <3>3. ReturnEndsArchive'
      BY <1>1, <1>2, <1>3, <2>3, <3>1, MembershipTyped DEF IInv, ReturnSeesArchive, ReturnEndsArchive
    <3> QED
      BY <1>3, <1>5, <1>6, <2>1, <3>1, <3>2, <3>3
         DEF IInv, HandStands, ReturnSeesArchive, ArchivedIsQuiet
  <2> QED
    BY <2>2, <2>3
<1> QED
  BY <1>7, <1>8

(* The steps of a page leave the row alone.                                *)
LEMMA PageKeeps ==
  ASSUME IInv, NEW p \in Pages, Page(p)
  PROVE  IInv'
<1>1. UNCHANGED <<group, job, gap, wire, spent, collector, byHand, late, tick>>
  BY DEF Page, Opens, Adds, QQAnswers, ProbeAnswered, ProbeFails, Submits, Fails
<1>2. seen' \in BOOLEAN
  BY DEF Page, Opens, Adds, QQAnswers, ProbeAnswered, ProbeFails, Submits, Fails, IInv, Types
<1>3. page \in [Pages -> {NoPage} \cup Forms]
  BY DEF IInv, Types
<1>4. \A q \in Pages : page[q].step # "none" => page[q] \in Forms
  BY Shapes DEF IInv
<1>5. Idle \notin Acting \cup Queueing
  BY DEF Idle, Acting, Queueing, Actions
<1>6. /\ page' \in [Pages -> {NoPage} \cup Forms]
      /\ api' \in ApiType
      /\ api' \in Acting \cup Queueing => page'[api'.page] \in Forms
  <2>1. ASSUME NEW l \in Links, Opens(p, l)
        PROVE  page' \in [Pages -> {NoPage} \cup Forms] /\ UNCHANGED api /\ api = Idle
    BY <1>3, <2>1 DEF Opens, Forms
  <2>2. ASSUME ProbeFails(p) \/ (Submits(p) /\ ~group.whitelisted)
        PROVE  page' \in [Pages -> {NoPage} \cup Forms] /\ UNCHANGED api /\ api = Idle
    BY <1>3, <2>2 DEF ProbeFails, Submits, Fails
  <2>3. CASE Adds(p)
    <3>1. page[p] \in Forms
      BY <1>4, <2>3 DEF Adds
    <3>2. [page[p] EXCEPT !.step = "asked"] \in Forms
      BY <3>1 DEF Forms
    <3>3. [step |-> "add", page |-> p] \in Acting
      BY DEF Acting, Actions
    <3>4. CASE seen
      BY <1>3, <2>3, <3>1, <3>3, <3>4 DEF Adds, ApiType
    <3>5. CASE ~seen
      BY <1>3, <1>5, <2>3, <3>2, <3>5 DEF Adds, ApiType
    <3> QED
      BY <3>4, <3>5
  <2>4. CASE QQAnswers(p)
    <3>1. page[p] \in Forms
      BY <1>4, <2>4 DEF QQAnswers
    <3>2. \A s \in {"member", "stranger"} : [page[p] EXCEPT !.step = s] \in Forms
      BY <3>1 DEF Forms
    <3>3. page' = [page EXCEPT ![p] = [page[p] EXCEPT !.step = IF inGroup THEN "member" ELSE "stranger"]]
      BY <1>3, <2>4 DEF QQAnswers
    <3>4. /\ page' \in [Pages -> {NoPage} \cup Forms]
          /\ \A q \in Pages : page[q] \in Forms => page'[q] \in Forms
      BY <1>3, <3>2, <3>3
    <3>5. api' = api /\ api \in ApiType
      BY <2>4 DEF QQAnswers, IInv, Types
    <3>6. api \in Acting \cup Queueing => api.page \in Pages /\ page[api.page] \in Forms
      BY DEF Acting, Queueing, IInv, Types
    <3> QED
      BY <3>4, <3>5, <3>6
  <2>5. CASE ProbeAnswered(p)
    <3>1. page[p] \in Forms /\ UNCHANGED page
      BY <1>4, <2>5 DEF ProbeAnswered
    <3>2. [step |-> "add", page |-> p] \in Acting
      BY DEF Acting, Actions
    <3> QED
      BY <1>3, <2>5, <3>1, <3>2 DEF ProbeAnswered, ApiType
  <2>6. CASE Submits(p) /\ group.whitelisted
    <3>1. page[p] \in Forms /\ UNCHANGED page
      BY <1>4, <2>6 DEF Submits
    <3>2. page[p].action \in Actions
      BY <3>1 DEF Forms
    <3>3. [step |-> page[p].action, page |-> p] \in Acting
      BY <3>2 DEF Acting
    <3> QED
      BY <1>3, <2>6, <3>1, <3>3 DEF Submits, ApiType
  <2> QED
    BY <1>5, <2>1, <2>2, <2>3, <2>4, <2>5, <2>6 DEF Page, ApiType
<1>7. Types'
  BY <1>1, <1>2, <1>6 DEF IInv, Types
<1> QED
  BY <1>1, <1>7
     DEF IInv, HandStands, ReturnSeesArchive, ArchivedIsQuiet, ReturnEndsArchive

(* The step of the API process that follows another.                       *)
LEMMA ApiShapes ==
  ASSUME IInv, api \in Acting \cup Queueing
  PROVE  /\ api.page \in Pages /\ page[api.page] \in Forms
         /\ \A s \in Actions \cup {"recover", "consume"} :
              [step |-> s, page |-> api.page] \in Acting
         /\ \A w \in BOOLEAN : [step |-> "queue", page |-> api.page, wanted |-> w] \in Queueing
         /\ page[api.page].link \in Links
  BY DEF IInv, Types, Acting, Queueing, Forms

(* Adding, removing, archiving and restoring.                              *)
LEMMA RowWrittenKeeps ==
  ASSUME IInv, AddWritten \/ RemoveWritten \/ ArchiveWritten \/ RestoreWritten
  PROVE  IInv'
<1>1. api \in Acting
  BY Shapes DEF AddWritten, RemoveWritten, ArchiveWritten, RestoreWritten, IInv, Actions
<1>2. UNCHANGED <<gap, seen, wire, spent, page, collector, tick>>
  BY DEF AddWritten, RemoveWritten, ArchiveWritten, RestoreWritten
<1>3. /\ api' \in ApiType
      /\ api' \in Acting \cup Queueing => page'[api'.page] \in Forms
  BY <1>1, <1>2, ApiShapes DEF AddWritten, RemoveWritten, ArchiveWritten, RestoreWritten, ApiType
<1>4. group \in Groups
  BY DEF IInv, Types
<1>5. CASE AddWritten \/ RestoreWritten
  <2>1. group' \in Groups /\ ~group'.archived /\ group'.source = "none"
    BY <1>4, <1>5, GroupTransactions DEF AddWritten, RestoreWritten
  <2>2. byHand' = "no" /\ late' = FALSE /\ UNCHANGED job
    BY <1>5 DEF AddWritten, RestoreWritten
  <2>3. Types'
    BY <1>2, <1>3, <2>1, <2>2 DEF IInv, Types
  <2> QED
    BY <2>1, <2>2, <2>3
       DEF IInv, HandStands, ReturnSeesArchive, ArchivedIsQuiet, ReturnEndsArchive
<1>6. CASE RemoveWritten
  <2>1. /\ group' \in Groups /\ group'.archived = group.archived /\ group'.source = group.source
        /\ ~group'.whitelisted /\ ~group'.roleplay
    BY <1>4, <1>6 DEF RemoveWritten, Groups
  <2>2. UNCHANGED <<job, byHand, late>>
    BY <1>6 DEF RemoveWritten
  <2>3. Types'
    BY <1>2, <1>3, <2>1, <2>2 DEF IInv, Types
  <2> QED
    BY <1>2, <2>1, <2>2, <2>3
       DEF IInv, HandStands, ReturnSeesArchive, ArchivedIsQuiet, ReturnEndsArchive
<1>7. CASE ArchiveWritten
  <2>1. group' \in Groups /\ group'.archived /\ group'.source = "manual" /\ ~group'.roleplay
    BY <1>4, <1>7, GroupTransactions DEF ArchiveWritten
  <2>2. job' \in {"none", "cancelled", "complete"} /\ late' = FALSE
    BY <1>7, JobTransactions DEF ArchiveWritten, IInv
  <2>3. byHand' = IF collector.step = "membership" THEN "no" ELSE "stands"
    BY <1>7 DEF ArchiveWritten
  <2>4. collector \in Memberships => collector.step = "membership"
    BY DEF Memberships
  <2>5. Types'
    BY <1>2, <1>3, <2>1, <2>2, <2>3 DEF IInv, Types
  <2> QED
    BY <1>2, <2>1, <2>2, <2>3, <2>4, <2>5
       DEF IInv, HandStands, ReturnSeesArchive, ArchivedIsQuiet, ReturnEndsArchive
<1> QED
  BY <1>5, <1>6, <1>7

(* The page goes on to the recovery, and to its end.                       *)
LEMMA RestoreReadKeeps ==
  ASSUME IInv, RestoreRead
  PROVE  IInv'
<1>1. api \in Acting /\ Wanted \in BOOLEAN
  BY Shapes, JobTransactions DEF RestoreRead, IInv
<1>2. UNCHANGED <<group, job, gap, seen, wire, spent, page, collector, byHand, late, tick>>
  BY DEF RestoreRead
<1>3. /\ api' \in ApiType
      /\ api' \in Acting \cup Queueing => page'[api'.page] \in Forms
  BY <1>1, <1>2, ApiShapes DEF RestoreRead, ApiType
<1>4. Types'
  BY <1>2, <1>3 DEF IInv, Types
<1> QED
  BY <1>2, <1>4 DEF IInv, HandStands, ReturnSeesArchive, ArchivedIsQuiet, ReturnEndsArchive

(* The job of the restored group; after an archiving it is a late one.     *)
LEMMA RestoreQueuedKeeps ==
  ASSUME IInv, RestoreQueued
  PROVE  IInv'
<1>1. api \in Queueing /\ api.wanted \in BOOLEAN
  BY Shapes DEF RestoreQueued, IInv, Queueing
<1>2. UNCHANGED <<group, gap, seen, wire, spent, page, collector, byHand, tick>>
  BY DEF RestoreQueued
<1>3. /\ api' \in ApiType
      /\ api' \in Acting \cup Queueing => page'[api'.page] \in Forms
  BY <1>1, <1>2, ApiShapes DEF RestoreQueued, ApiType
<1>4. job' \in {"none", "active", "cancelled", "complete"}
  BY <1>1, JobTransactions DEF RestoreQueued, IInv
<1>5. late' \in BOOLEAN /\ (~late' => ~late /\ (group.archived => job' = job))
  BY <1>1, JobTransactions DEF RestoreQueued, IInv, Types, Groups
<1>6. Types'
  BY <1>2, <1>3, <1>4, <1>5 DEF IInv, Types
<1> QED
  BY <1>2, <1>5, <1>6
     DEF IInv, HandStands, ReturnSeesArchive, ArchivedIsQuiet, ReturnEndsArchive

(* The page ends, by itself or with the process.                           *)
LEMMA PageEndKeeps ==
  ASSUME IInv, Consumed \/ ApiDies
  PROVE  IInv'
<1>1. UNCHANGED <<group, job, gap, seen, wire, collector, byHand, late, tick>>
  BY DEF Consumed, ApiDies
<1>2. api' = Idle /\ Idle \in ApiType /\ Idle \notin Acting \cup Queueing
  BY DEF Consumed, ApiDies, ApiType, Idle, Acting, Queueing, Actions
<1>3. page' \in [Pages -> {NoPage} \cup Forms]
  BY DEF Consumed, ApiDies, IInv, Types
<1>4. spent' \subseteq Links
  <2>1. CASE Consumed
    <3>1. api \in Acting
      BY <2>1, Shapes DEF Consumed, IInv
    <3> QED
      BY <2>1, <3>1, ApiShapes DEF Consumed, IInv, Types
  <2> QED
    BY <2>1 DEF ApiDies, IInv, Types
<1>5. Types'
  BY <1>1, <1>2, <1>3, <1>4 DEF IInv, Types
<1> QED
  BY <1>1, <1>5 DEF IInv, HandStands, ReturnSeesArchive, ArchivedIsQuiet, ReturnEndsArchive

(* Roleplay is switched; on after an archiving it is a late write.         *)
LEMMA SwitchKeeps ==
  ASSUME IInv, SwitchRead \/ SwitchWritten
  PROVE  IInv'
<1>1. UNCHANGED <<job, gap, seen, wire, spent, page, collector, byHand, tick>>
  BY DEF SwitchRead, SwitchWritten
<1>2. CASE SwitchRead
  <2>1. PICK on \in BOOLEAN : api' = [step |-> "switch", on |-> on]
    BY <1>2 DEF SwitchRead
  <2>2. api' \in ApiType /\ api' \notin Acting \cup Queueing
    BY <2>1 DEF ApiType, Switching, Acting, Queueing, Actions
  <2>3. Types'
    BY <1>1, <1>2, <2>2 DEF SwitchRead, IInv, Types
  <2> QED
    BY <1>1, <1>2, <2>3
       DEF SwitchRead, IInv, HandStands, ReturnSeesArchive, ArchivedIsQuiet, ReturnEndsArchive
<1>3. CASE SwitchWritten
  <2>1. api.on \in BOOLEAN
    BY <1>3, Shapes DEF SwitchWritten, IInv
  <2>2. /\ group' \in Groups /\ group'.archived = group.archived /\ group'.source = group.source
        /\ group'.membership = group.membership /\ group'.whitelisted = group.whitelisted
        /\ group'.roleplay = api.on
    BY <1>3, <2>1 DEF SwitchWritten, Groups, IInv, Types
  <2>3. late' \in BOOLEAN /\ (~late' => ~late /\ (group.archived => ~api.on))
    BY <1>3, <2>1 DEF SwitchWritten, IInv, Types, Groups
  <2>4. api' = Idle /\ Idle \in ApiType /\ Idle \notin Acting \cup Queueing
    BY <1>3 DEF SwitchWritten, ApiType, Idle, Acting, Queueing, Actions
  <2>5. Types'
    BY <1>1, <2>2, <2>3, <2>4 DEF IInv, Types
  <2> QED
    BY <1>1, <2>2, <2>3, <2>5
       DEF IInv, HandStands, ReturnSeesArchive, ArchivedIsQuiet, ReturnEndsArchive
<1> QED
  BY <1>2, <1>3

-----------------------------------------------------------------------------
(* The theorems                                                            *)

(* The invariant is inductive.                                             *)
LEMMA StepKeeps == IInv /\ [Next]_vars => IInv'
<1> SUFFICES ASSUME IInv, [Next]_vars PROVE IInv'
  OBVIOUS
<1>1. CASE Environment
  BY <1>1, EnvironmentKeeps
<1>2. CASE Collector
  BY <1>2, EventReadKeeps, MembershipWrittenKeeps, RecoveryReadKeeps, RecoveryQueuedKeeps,
     TickKeeps DEF Collector
<1>3. ASSUME NEW p \in Pages, Page(p) PROVE IInv'
  BY <1>3, PageKeeps
<1>4. CASE Api
  BY <1>4, RowWrittenKeeps, RestoreReadKeeps, RestoreQueuedKeeps, PageEndKeeps, SwitchKeeps DEF Api
<1>5. CASE UNCHANGED vars
  BY <1>5 DEF vars, IInv, Types, HandStands, ReturnSeesArchive, ArchivedIsQuiet, ReturnEndsArchive
<1> QED
  BY <1>1, <1>2, <1>3, <1>4, <1>5 DEF Next

(* The invariant the theorems below rest on: beside the types and the two  *)
(* promises it says what the event being handled has read of the row that  *)
(* update_group_membership of store.py writes in a second transaction.     *)
THEOREM InductiveInvariant == Spec => []IInv
<1>1. Init => IInv
  BY InitSatisfies
<1>2. IInv /\ [Next]_vars => IInv'
  BY StepKeeps
<1> QED
  BY <1>1, <1>2, PTL DEF Spec

(* The row, the jobs, the links and the pages keep their shape, and the    *)
(* row names the source of its archiving exactly when it is archived       *)
(* (set_group_archived, update_group_membership and whitelist_group of     *)
(* store.py write both columns).                                           *)
THEOREM TypeCorrect == Spec => []TypeOK
<1>1. IInv => TypeOK
  BY DEF IInv, Types, TypeOK
<1> QED
  BY <1>1, InductiveInvariant, PTL

(* An archived group neither plays nor has a recovery job to work on, but  *)
(* for a write decided before the archiving (set_group_archived and        *)
(* update_group_membership of store.py switch roleplay off and cancel the  *)
(* job; the tick of runtime.py writes it without looking again).           *)
THEOREM ArchivedIsQuietHolds == Spec => []ArchivedIsQuiet
<1>1. IInv => ArchivedIsQuiet
  BY DEF IInv
<1> QED
  BY <1>1, InductiveInvariant, PTL

(* What an administrator archived stays archived until a page of web.py    *)
(* restores or adds the group (update_group_membership of store.py reopens *)
(* what its own events archived).                                          *)
THEOREM ManualArchiveStandsHolds == Spec => []ManualArchiveStands
<1>1. IInv => ManualArchiveStands
  BY DEF IInv, Types, HandStands, ManualArchiveStands
<1> QED
  BY <1>1, InductiveInvariant, PTL

(* A group is not left archived by an event once the account is known to   *)
(* be back in it (update_group_membership of store.py).                    *)
THEOREM ReturnEndsArchiveHolds == Spec => []ReturnEndsArchive
<1>1. IInv => ReturnEndsArchive
  BY DEF IInv
<1> QED
  BY <1>1, InductiveInvariant, PTL

=============================================================================
