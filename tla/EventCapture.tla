---------------------------- MODULE EventCapture ----------------------------
(***************************************************************************)
(* Capturing the messages of one group: NapCat connects to the collector   *)
(* and sends it every message as an event; what the collector knows it may *)
(* have missed it registers as a gap, for GapRepair to fill.               *)
(*                                                                         *)
(* Connections break, are replaced and are noticed late, and the collector *)
(* stops, crashes and starts again.  It is one event loop, and what it     *)
(* does to the database between two of its waits is a sequence of          *)
(* transactions: `pending` is the one still to come.  The circuit breaker  *)
(* is reduced to a session pause; its own races are in CollectionControl.  *)
(*                                                                         *)
(* A message is its number, and the time is the number of messages sent.   *)
(***************************************************************************)
EXTENDS Integers, Sequences, FiniteSets, FiniteSetsExt

CONSTANTS
  Messages,      (* bound: messages sent to the group                      *)
  PageSize,      (* messages on a page of history                          *)
  Connections,   (* bound: connections NapCat makes, the first one included *)
  Heartbeats,    (* bound: heartbeats on their way on a connection          *)
  Crashes,       (* bound: times the collector stops or crashes            *)
  Outages        (* bound: times QQ goes offline                           *)

ASSUME CaptureAssumption ==
  /\ {Messages, PageSize, Connections, Heartbeats, Crashes, Outages} \subseteq Nat
  /\ PageSize > 0
  /\ Connections > 0

None == -1

VARIABLES
  sent,       (* messages sent to the group                                *)
  online,     (* whether QQ is                                             *)
  link,       (* the connection NapCat sends on, 0 without one             *)
  wire,       (* the events sent on each connection and not handled        *)
  conn,       (* how the collector sees each connection                    *)
  up,         (* whether the collector runs                                *)
  session,    (* _session_id: the connection of the session, or 0          *)
  row,        (* collector_sessions: its heartbeat, None when ended        *)
  paused,     (* collection_control is paused_session                      *)
  watch,      (* when the check of the watchdog in progress began, or None *)
  pending,    (* the transaction still to come before the next wait        *)
  stored,     (* messages                                                  *)
  gaps,       (* message_gaps of the group, alike ones as one              *)
  crashes,    (* bounds the crashes                                        *)
  outages,    (* bounds the outages                                        *)
  unguarded,  (* history: a step left a loss without a gap                 *)
  passed      (* history: messages not stored that a page stored newer     *)
              (* ones than, or lost after the end of a gap closed then     *)

vars == <<sent, online, link, wire, conn, up, session, row, paused, watch, pending, stored,
          gaps, crashes, outages, unguarded, passed>>

Ids == 1 .. Connections

NoWork == [what |-> "none", at |-> None]
Work(what, at) == [what |-> what, at |-> at]

Message(n) == [kind |-> "message", at |-> n]
Heartbeat(good) == [kind |-> IF good THEN "healthy" ELSE "degraded", at |-> sent]

Init ==
  /\ sent = 0
  /\ online = TRUE
  /\ link = 1
  /\ wire = [c \in Ids |-> <<>>]
  /\ conn = [c \in Ids |-> IF c = 1 THEN "open" ELSE "none"]
  /\ up = TRUE
  /\ session = 1
  /\ row = [c \in Ids |-> IF c = 1 THEN 0 ELSE None]
  /\ paused = FALSE
  /\ watch = None
  /\ pending = NoWork
  /\ stored = {}
  /\ gaps = {}
  /\ crashes = 0
  /\ outages = 0
  /\ unguarded = FALSE
  /\ passed = {}

-----------------------------------------------------------------------------
(* QQ and NapCat                                                           *)

Sends(event) ==
  wire' = IF link = 0 \/ (~online /\ event.kind = "message") THEN wire
          ELSE [wire EXCEPT ![link] = Append(@, event)]

(* What is sent while QQ or the connection is away is not sent again.      *)
MessageSent ==
  /\ sent < Messages
  /\ sent' = sent + 1
  /\ Sends(Message(sent + 1))
  /\ UNCHANGED <<online, link, conn, up, session, row, paused, watch, pending, stored, gaps,
                 crashes, outages, unguarded, passed>>

HeartbeatSent ==
  /\ link # 0
  /\ Cardinality({i \in 1 .. Len(wire[link]) : wire[link][i].kind # "message"}) < Heartbeats
  /\ Sends(Heartbeat(online))
  /\ UNCHANGED <<sent, online, link, conn, up, session, row, paused, watch, pending, stored,
                 gaps, crashes, outages, unguarded, passed>>

(* An outage of QQ lasts until a heartbeat or the watchdog has seen it.    *)
QQChanges ==
  /\ IF online THEN outages < Outages /\ outages' = outages + 1
               ELSE paused /\ UNCHANGED outages
  /\ online' = ~online
  /\ UNCHANGED <<sent, link, wire, conn, up, session, row, paused, watch, pending, stored,
                 gaps, crashes, unguarded, passed>>

(* A new connection, with its lifecycle event.  A collector that is being  *)
(* stopped has closed its port before it ends the session.                 *)
Connects ==
  /\ up
  /\ pending.what # "gap_and_stop"
  /\ link = 0
  /\ \E c \in Ids :
       /\ conn[c] = "none"
       /\ \A d \in 1 .. c - 1 : conn[d] # "none"
       /\ link' = c
       /\ conn' = [conn EXCEPT ![c] = "accepting"]
       /\ wire' = [wire EXCEPT ![c] = <<Heartbeat(TRUE)>>]
  /\ UNCHANGED <<sent, online, up, session, row, paused, watch, pending, stored, gaps,
                 crashes, outages, unguarded, passed>>

(* The connection breaks, and the last events on it may be lost: all of    *)
(* them if it was not accepted yet.                                        *)
Breaks ==
  /\ link # 0
  /\ link' = 0
  /\ \E n \in 0 .. (IF conn[link] = "open" THEN Len(wire[link]) ELSE 0) :
       wire' = [wire EXCEPT ![link] = SubSeq(@, 1, n)]
  /\ conn' = [conn EXCEPT ![link] = IF @ = "open" THEN "closing" ELSE "ended"]
  /\ UNCHANGED <<sent, online, up, session, row, paused, watch, pending, stored, gaps,
                 crashes, outages, unguarded, passed>>

-----------------------------------------------------------------------------
(* Gaps                                                                    *)

OpenEnded(g) == g.end = None

(* Mutant: the gap starts at the next message stored.                      *)
OpenedAfter(start) ==
  IF \E g \in gaps : OpenEnded(g) THEN gaps
  ELSE gaps \cup {[before |-> start, end |-> None]}

(* create_message_gap: an outage joins a gap that is still open; another   *)
(* one reaches back to the last message stored before it.                  *)
Opened(start) ==
  IF \E g \in gaps : OpenEnded(g) THEN gaps
  ELSE gaps \cup {[before |-> Max({0} \cup {m \in stored : m <= start}), end |-> None]}

(* close_open_message_gaps.                                                *)
Closed(end) ==
  {IF OpenEnded(g) THEN [g EXCEPT !.end = end] ELSE g : g \in gaps}

(* _mark_stream_healthy.                                                   *)
MarkHealthy(at) == gaps' = IF paused THEN gaps ELSE Closed(at)

Covers(g, m) == m > g.before /\ (OpenEnded(g) \/ m <= g.end)

-----------------------------------------------------------------------------
(* Pages of history                                                        *)

(* The page of history that ends with message n.                           *)
HistoryPage(n) == {m \in 1 .. n : m > n - PageSize}

(* refresh_recent_messages of the API process and the recovery tick of the *)
(* collector store a page: the newest, an earlier one for a walk that is   *)
(* under way, or one asked for before the newest messages were sent.  Both *)
(* ask while the collection is active and seems connected, but neither     *)
(* looks again when the answer comes: by then the session may be paused or *)
(* ended, its gap registered or not, and the collector down.               *)
PageStored ==
  \E n \in 1 .. sent :
    /\ stored' = stored \cup HistoryPage(n)
    /\ passed' = (passed \cup 1 .. n) \ stored'
    /\ UNCHANGED <<sent, online, link, wire, conn, up, session, row, paused, watch, pending,
                   gaps, crashes, outages, unguarded>>

-----------------------------------------------------------------------------
(* The collector                                                           *)

Runs == up /\ pending = NoWork

(* Mutant: the session it replaces is forgotten, but not ended.            *)
WithoutEnding(c) == row

(* end_collector_session.                                                  *)
Ended(c) == IF c = 0 THEN row ELSE [row EXCEPT ![c] = None]

(* begin_event_session: the session it replaces, if there is one, is ended *)
(* without a gap ...                                                       *)
Accepts(c) ==
  /\ Runs
  /\ conn[c] = "accepting"
  /\ conn' = [conn EXCEPT ![c] = "open"]
  /\ row' = Ended(session)
  /\ session' = c
  /\ pending' = Work("start", None)
  /\ unguarded' = (unguarded \/ session # 0)
  /\ UNCHANGED <<sent, online, link, wire, up, paused, watch, stored, gaps, crashes, outages,
                 passed>>

(* ... and then the new one started.                                       *)
SessionStarts ==
  /\ up
  /\ pending.what = "start"
  /\ row' = [row EXCEPT ![session] = sent]
  /\ pending' = NoWork
  /\ UNCHANGED <<sent, online, link, wire, conn, up, session, paused, watch, stored, gaps,
                 crashes, outages, unguarded, passed>>

(* handle_event.  An event of a connection that was replaced is handled    *)
(* like any other, and a heartbeat is one of the present session.          *)
Handles(c) ==
  LET event == Head(wire[c]) IN
  /\ Runs
  /\ conn[c] \in {"open", "closing"}
  /\ wire[c] # <<>>
  /\ wire' = [wire EXCEPT ![c] = Tail(@)]
  /\ CASE event.kind = "message" ->
            /\ stored' = stored \cup {event.at}
            /\ MarkHealthy(event.at)
            /\ UNCHANGED <<row, paused>>
       [] event.kind = "healthy" ->
            /\ row' = IF session # 0 /\ row[session] # None
                        THEN [row EXCEPT ![session] = sent] ELSE row
            /\ MarkHealthy(event.at)
            /\ UNCHANGED <<stored, paused>>
       [] event.kind = "degraded" ->
            /\ gaps' = Opened(event.at)
            /\ paused' = TRUE
            /\ UNCHANGED <<stored, row>>
  /\ passed' = passed \ stored'
  /\ UNCHANGED <<sent, online, link, conn, up, session, watch, pending, crashes, outages,
                 unguarded>>

(* Mutant: a late end of an old connection ends the session of the new.    *)
EndsSessionAny(c) == session # 0

EndsSession(c) == session = c

(* end_event_session by a handler whose connection is gone.                *)
Disconnects(c) ==
  /\ Runs
  /\ conn[c] = "closing"
  /\ wire[c] = <<>>
  /\ conn' = [conn EXCEPT ![c] = "ended"]
  /\ IF EndsSession(c)
       THEN row' = Ended(session) /\ session' = 0 /\ pending' = Work("gap", sent)
       ELSE row' = Ended(c) /\ UNCHANGED <<session, pending>>
  /\ UNCHANGED <<sent, online, link, wire, up, paused, watch, stored, gaps, crashes, outages,
                 unguarded, passed>>

(* _open_outage, the second transaction of ending or recovering a session. *)
OpensGap ==
  /\ up
  /\ pending.what \in {"gap", "gap_and_stop"}
  /\ gaps' = Opened(pending.at)
  /\ up' = (pending.what = "gap")
  /\ pending' = NoWork
  /\ UNCHANGED <<sent, online, link, wire, conn, session, row, paused, watch, stored, crashes,
                 outages, unguarded, passed>>

ConnectionsLost ==
  /\ link' = 0
  /\ wire' = [c \in Ids |-> <<>>]
  /\ conn' = [c \in Ids |-> IF conn[c] = "none" THEN "none" ELSE "ended"]

(* The collector is stopped: run_collector_server ends its session.        *)
Stops ==
  /\ Runs
  /\ crashes < Crashes
  /\ crashes' = crashes + 1
  /\ ConnectionsLost
  /\ row' = Ended(session)
  /\ session' = 0
  /\ watch' = None
  /\ pending' = Work("gap_and_stop", sent)
  /\ UNCHANGED <<sent, online, up, paused, stored, gaps, outages, unguarded, passed>>

(* It crashes, perhaps between the two transactions.                       *)
Crashed ==
  /\ up
  /\ crashes < Crashes
  /\ crashes' = crashes + 1
  /\ up' = FALSE
  /\ ConnectionsLost
  /\ session' = 0
  /\ watch' = None
  /\ pending' = NoWork
  /\ unguarded' = (unguarded \/ pending.what \in {"gap", "gap_and_stop"})
  /\ UNCHANGED <<sent, online, row, paused, stored, gaps, outages, passed>>

(* Mutant: sessions that were ended are found too.                         *)
OnRecord == {c \in Ids : conn[c] # "none"}

Live == {c \in Ids : row[c] # None}

(* A session that was not ended leaves a gap since its last heartbeat ...  *)
Abandoned == IF Live = {} THEN NoWork ELSE Work("abandoned", row[Max(Live)])

(* ... and is ended first, when the process starts (NapCatRuntime).        *)
Starts ==
  /\ ~up
  /\ up' = TRUE
  /\ pending' = Abandoned
  /\ UNCHANGED <<sent, online, link, wire, conn, session, row, paused, watch, stored, gaps,
                 crashes, outages, unguarded, passed>>

EndsAbandoned ==
  /\ up
  /\ pending.what = "abandoned"
  /\ row' = Ended(Max(Live))
  /\ pending' = Work("gap", pending.at)
  /\ UNCHANGED <<sent, online, link, wire, conn, up, session, paused, watch, stored, gaps,
                 crashes, outages, unguarded, passed>>

(* The watchdog takes the time and asks NapCat for its status, and then    *)
(* perhaps for its login.                                                  *)
WatchdogLooks ==
  /\ Runs
  /\ watch = None
  /\ watch' = sent
  /\ UNCHANGED <<sent, online, link, wire, conn, up, session, row, paused, pending, stored,
                 gaps, crashes, outages, unguarded, passed>>

(* It is told that QQ is offline, or not answered at all ...               *)
WatchdogPauses ==
  /\ Runs
  /\ watch # None
  /\ gaps' = Opened(watch)
  /\ paused' = TRUE
  /\ watch' = None
  /\ UNCHANGED <<sent, online, link, wire, conn, up, session, row, pending, stored, crashes,
                 outages, unguarded, passed>>

OnTheWay(m) == \E c \in Ids : \E i \in 1 .. Len(wire[c]) : wire[c][i] = Message(m)

(* ... or that it is back, which may no longer be so: the gaps are closed, *)
(* connection or not, at the time the check began, and what was lost since *)
(* then is left out.                                                       *)
WatchdogRecovers ==
  /\ Runs
  /\ watch # None
  /\ paused
  /\ gaps' = Closed(watch)
  /\ paused' = FALSE
  /\ watch' = None
  /\ unguarded' = (unguarded \/ session = 0)
  /\ passed' = passed \cup {m \in watch + 1 .. sent : m \notin stored /\ ~OnTheWay(m)}
  /\ UNCHANGED <<sent, online, link, wire, conn, up, session, row, pending, stored, crashes,
                 outages>>

(* Or nothing is to be done: QQ is online, as before, or not to be trusted *)
(* yet.                                                                    *)
WatchdogEnds ==
  /\ Runs
  /\ watch # None
  /\ watch' = None
  /\ UNCHANGED <<sent, online, link, wire, conn, up, session, row, paused, pending, stored,
                 gaps, crashes, outages, unguarded, passed>>

Next ==
  \/ MessageSent \/ HeartbeatSent \/ QQChanges \/ Connects \/ Breaks
  \/ \E c \in Ids : Accepts(c) \/ Handles(c) \/ Disconnects(c)
  \/ SessionStarts \/ OpensGap \/ PageStored
  \/ Stops \/ Crashed \/ Starts \/ EndsAbandoned
  \/ WatchdogLooks \/ WatchdogPauses \/ WatchdogRecovers \/ WatchdogEnds

Spec == Init /\ [][Next]_vars

-----------------------------------------------------------------------------
(* Properties                                                              *)

TypeOK ==
  /\ sent \in 0 .. Messages
  /\ online \in BOOLEAN
  /\ link \in 0 .. Connections
  /\ link # 0 => conn[link] \in {"accepting", "open"}
  /\ wire \in [Ids -> Seq([kind : {"message", "healthy", "degraded"}, at : 0 .. Messages])]
  /\ conn \in [Ids -> {"none", "accepting", "open", "closing", "ended"}]
  /\ up \in BOOLEAN
  /\ session \in 0 .. Connections
  /\ row \in [Ids -> {None} \cup 0 .. Messages]
  /\ paused \in BOOLEAN
  /\ watch \in {None} \cup 0 .. sent
  /\ pending \in [what : {"none", "start", "gap", "gap_and_stop", "abandoned"},
                  at : {None} \cup 0 .. Messages]
  /\ pending.what \in {"gap", "gap_and_stop", "abandoned"} => pending.at # None
  /\ stored \subseteq 1 .. sent
  /\ gaps \subseteq [before : 0 .. Messages, end : {None} \cup 0 .. Messages]
  /\ crashes \in 0 .. Crashes
  /\ outages \in 0 .. Outages
  /\ unguarded \in BOOLEAN
  /\ passed \subseteq (1 .. sent) \ stored

(* The collector is connected, QQ is online, and nothing is on its way.    *)
CaughtUp ==
  /\ Runs /\ online /\ link # 0
  /\ session = link
  /\ \A c \in Ids : wire[c] = <<>>

(* Once it has caught up, every message the collector has not stored lies  *)
(* in a gap, whatever was lost with a connection, while QQ was away or     *)
(* while the collector was down; unless a connection replaced one whose    *)
(* end had not been noticed, the collector crashed between ending a        *)
(* session and registering its gap, or the watchdog closed the gap of a    *)
(* disconnected collector; and but for a message that a page of history    *)
(* passed over, by storing newer ones before its loss was noticed, and one *)
(* already lost when the watchdog closed the gap at the earlier time its   *)
(* check began.                                                            *)
MissedIsCovered ==
  CaughtUp /\ ~unguarded =>
    \A m \in (1 .. sent) \ (stored \cup passed) : \E g \in gaps : Covers(g, m)

(* At most one session is on record as live, so the one a start looks for  *)
(* is the one a crash left.                                                *)
OneLiveSession == Cardinality(Live) <= 1

Accepted == {c \in Ids : conn[c] \in {"open", "closing"}}

(* The session is that of the last connection accepted, as long as its     *)
(* handler runs: the end of an older connection, noticed late, neither     *)
(* ends it nor leaves its heartbeats without a row.                        *)
LastConnectionHasSession ==
  Runs /\ Accepted # {} /\ (\A c \in Ids : c > Max(Accepted) => conn[c] # "ended") =>
    session = Max(Accepted) /\ Live = {session}
=============================================================================
