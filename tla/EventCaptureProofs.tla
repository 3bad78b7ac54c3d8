------------------------- MODULE EventCaptureProofs -------------------------
(***************************************************************************)
(* For any number of messages, connections, crashes and outages and any    *)
(* size of page: the types, that one session is on record as live, that    *)
(* the last connection accepted has it, and that every message missed lies *)
(* in a gap once the collector has caught up.                              *)
(***************************************************************************)
EXTENDS EventCapture, SequenceTheorems, FiniteSetTheorems, WellFoundedInduction, TLAPS

-----------------------------------------------------------------------------
(* The inductive invariant                                                 *)

(* Connections are made in the order of their numbers, and only the one    *)
(* NapCat sends on may still be accepted.                                  *)
LinksOrdered ==
  /\ \A c, d \in Ids : c < d /\ conn[c] = "none" => conn[d] = "none"
  /\ link # 0 => \A d \in Ids : d > link => conn[d] = "none"
  /\ \A c \in Ids : conn[c] = "accepting" => c = link

(* The session is that of the last connection accepted; without one, a     *)
(* connection that was accepted after all those still open has ended.      *)
SessionIsLast ==
  /\ session # 0 => session \in Accepted /\ \A c \in Accepted : c <= session
  /\ session = 0 /\ Accepted # {} =>
       \E d \in Ids : conn[d] = "ended" /\ \A c \in Accepted : c < d

(* The row of the session is the one live row; without a session, a live   *)
(* row is one that a crash left.                                           *)
RowsOfSession ==
  /\ \A c, d \in Live : c = d
  /\ pending.what = "start" => session # 0 /\ Live = {}
  /\ up /\ pending.what = "none" => Live = (IF session = 0 THEN {} ELSE {session})
  /\ up /\ pending.what \in {"gap", "gap_and_stop"} => session = 0 /\ Live = {}
  /\ pending.what = "gap_and_stop" => link = 0 /\ Accepted = {}
  /\ pending.what = "abandoned" => session = 0 /\ Live # {}
  /\ ~up => session = 0 /\ pending = NoWork /\ link = 0 /\ Accepted = {}

(* On a connection events are in the order of the messages they were sent  *)
(* after.                                                                  *)
WireOrdered ==
  \A c \in Ids :
    /\ \A i \in 1 .. Len(wire[c]) :
         wire[c][i].at <= sent /\ (wire[c][i].kind = "message" => wire[c][i].at > 0)
    /\ \A i, j \in 1 .. Len(wire[c]) : i < j =>
         /\ wire[c][i].at <= wire[c][j].at
         /\ wire[c][j].kind = "message" => wire[c][i].at < wire[c][j].at

(* Messages that are missing and in no gap that is closed for good.        *)
Lost ==
  {m \in (1 .. sent) \ (stored \cup passed) :
     \A g \in gaps : OpenEnded(g) \/ m <= g.before \/ m > g.end}

HasOpenGap == \E g \in gaps : OpenEnded(g)

(* How a lost message lies to the events on a connection: its own is still *)
(* to come, it is older than all of them, or newer than every message and  *)
(* every sign of health among them.                                        *)
OnWire(m, c) == \E i \in 1 .. Len(wire[c]) : wire[c][i] = Message(m)

Older(m, c) == \A i \in 1 .. Len(wire[c]) : m <= wire[c][i].at

Newer(m, c) ==
  \A i \in 1 .. Len(wire[c]) : wire[c][i].kind # "degraded" => wire[c][i].at < m

(* What is newer is lost to an outage or with the connection, and neither  *)
(* will go unnoticed.                                                      *)
WillBeNoticed(m, c) == Newer(m, c) /\ (~online \/ c # link)

(* A gap starts with what was sent before it.                              *)
GapsStarted == \A g \in gaps : g.before <= sent

(* An open gap covers all that is lost, a pause has one, and so does a     *)
(* collector without a session.                                            *)
OpenGapCovers ==
  /\ \A g \in gaps : OpenEnded(g) => \A m \in Lost : m > g.before
  /\ paused => HasOpenGap
  /\ up /\ session = 0 /\ pending.what = "none" => HasOpenGap
  /\ pending.what = "start" => HasOpenGap
  /\ ~up /\ Live = {} => HasOpenGap

(* Outside a pause nothing stored is newer than what is lost, so that a    *)
(* gap opened now reaches back far enough; and the events to come do not   *)
(* close a gap too late or leave out what it did not cover.                *)
LossesFollow ==
  ~paused =>
    /\ \A m \in Lost, x \in stored : x < m
    /\ \A c \in {session, link} \ {0}, m \in Lost :
         OnWire(m, c) \/ Older(m, c) \/ WillBeNoticed(m, c)
    /\ ~HasOpenGap => \A c \in {session} \ {0}, m \in Lost :
         OnWire(m, c) \/ WillBeNoticed(m, c)

Guarded == ~unguarded => Accepted \subseteq {session} /\ OpenGapCovers /\ LossesFollow

Consistent ==
  /\ TypeOK /\ LinksOrdered /\ SessionIsLast /\ RowsOfSession /\ WireOrdered
  /\ GapsStarted /\ Guarded

(* What was sent on a later connection was sent later.                     *)
WiresOrdered ==
  \A c, d \in Ids : c < d =>
    \A i \in 1 .. Len(wire[c]), j \in 1 .. Len(wire[d]) :
      /\ wire[c][i].at <= wire[d][j].at
      /\ wire[d][j].kind = "message" => wire[c][i].at < wire[d][j].at

(* Nothing is on its way on a connection that is not made or has ended.    *)
UnusedEmpty == \A c \in Ids : conn[c] \in {"none", "ended"} => wire[c] = <<>>

(* Nothing stored is newer than a message on its way, but for one that a   *)
(* page has stored as well or stored newer ones than.                      *)
HeardInOrder ==
  \A c \in Ids : \A i \in 1 .. Len(wire[c]) :
    wire[c][i].kind = "message" /\ wire[c][i].at \notin stored \cup passed =>
      \A x \in stored : x < wire[c][i].at

WiresInOrder == WiresOrdered /\ UnusedEmpty /\ (~unguarded => HeardInOrder)

IInv == Consistent /\ WiresInOrder

-----------------------------------------------------------------------------
(* Numbers, sequences and gaps                                             *)

(* A set of natural numbers has a least one.                               *)
LEMMA LeastExists ==
  ASSUME NEW T \in SUBSET Nat, T # {}
  PROVE  \E x \in T : \A y \in T : x <= y
<1> DEFINE R == OpToRel(<, Nat)
<1>1. IsWellFoundedOn(R, Nat)
  BY NatLessThanWellFounded
<1>2. \A x, y \in Nat : <<x, y>> \in R <=> x < y
  BY DEF OpToRel
<1> HIDE DEF R
<1>3. \E x \in T : \A y \in T : ~(<<y, x>> \in R)
  BY <1>1, WFMin
<1>4. \E x \in T : \A y \in T : ~(y < x)
  BY <1>2, <1>3, Zenon
<1> QED
  BY <1>4

(* A bounded one has a greatest, the least of its bounds.                  *)
LEMMA MaxExists ==
  ASSUME NEW n \in Nat, NEW S \in SUBSET (0 .. n), S # {}
  PROVE  Max(S) \in S /\ \A x \in S : x <= Max(S)
<1> DEFINE U == {u \in Nat : \A x \in S : x <= u}
<1>1. PICK u \in U : \A v \in U : u <= v
  <2>1. n \in U
    OBVIOUS
  <2> QED
    BY <2>1, LeastExists
<1>2. u \in S
  <2> SUFFICES ASSUME u \notin S PROVE FALSE
    OBVIOUS
  <2>1. PICK x \in S : TRUE
    OBVIOUS
  <2>2. x <= u /\ x # u /\ x \in Nat
    BY <1>1, <2>1
  <2>3. u - 1 \in U
    BY <1>1, <2>2
  <2> QED
    BY <1>1, <2>3
<1> QED
  BY <1>1, <1>2 DEF Max

(* The constants, one by one.                                              *)
LEMMA Limits ==
  /\ Messages \in Nat /\ PageSize \in Nat /\ Connections \in Nat /\ Crashes \in Nat
  /\ Outages \in Nat /\ PageSize > 0 /\ Connections > 0
  /\ None \in Int /\ None \notin 0 .. Messages
<1>1. {Messages, PageSize, Connections, Crashes, Outages} \subseteq Nat
  BY CaptureAssumption DEF CaptureAssumption
<1> QED
  BY <1>1, CaptureAssumption DEF CaptureAssumption, None

GapRecords == [before : 0 .. Messages, end : {None} \cup 0 .. Messages]
Events == [kind : {"message", "healthy", "degraded"}, at : 0 .. Messages]

(* A gap that is opened reaches back to a message stored, or to none.      *)
LEMMA OpenedGap ==
  ASSUME TypeOK, NEW start \in 0 .. Messages
  PROVE  /\ Opened(start) \subseteq GapRecords
         /\ gaps \subseteq Opened(start)
         /\ \E g \in Opened(start) : OpenEnded(g)
         /\ \A g \in Opened(start) \ gaps :
              OpenEnded(g) /\ ~HasOpenGap /\ (g.before = 0 \/ g.before \in stored)
<1>1. gaps \subseteq GapRecords /\ stored \subseteq 1 .. Messages
  BY Limits DEF TypeOK, GapRecords
<1> DEFINE S == {0} \cup {m \in stored : m <= start}
<1>2. Max(S) \in S /\ S \subseteq 0 .. Messages
  <2>1. 0 \in S
    OBVIOUS
  <2>2. S \subseteq 0 .. Messages
    <3>1. 1 .. Messages \subseteq 0 .. Messages /\ 0 \in 0 .. Messages
      BY Limits
    <3> QED
      BY <1>1, <3>1
  <2> QED
    BY <2>1, <2>2, MaxExists, Limits
<1> HIDE DEF S
<1>3. Opened(start) = IF HasOpenGap THEN gaps
                      ELSE gaps \cup {[before |-> Max(S), end |-> None]}
  BY DEF Opened, HasOpenGap, S
<1>4. [before |-> Max(S), end |-> None] \in GapRecords
  BY <1>2 DEF GapRecords
<1>5. Max(S) = 0 \/ Max(S) \in stored
  BY <1>2 DEF S
<1> QED
  BY <1>1, <1>3, <1>4, <1>5 DEF HasOpenGap, OpenEnded

(* Closing leaves no gap open and the others as they are.                  *)
LEMMA ClosedGap ==
  ASSUME TypeOK, NEW end \in 0 .. Messages
  PROVE  /\ Closed(end) \subseteq GapRecords
         /\ \A g \in Closed(end) : ~OpenEnded(g)
         /\ \A g \in gaps : ~OpenEnded(g) => g \in Closed(end)
         /\ \A g \in gaps : OpenEnded(g) =>
              \E h \in Closed(end) : h.before = g.before /\ h.end = end
<1>1. gaps \subseteq GapRecords
  BY DEF TypeOK, GapRecords
<1> DEFINE F(g) == [g EXCEPT !.end = end]
<1>2. \A g \in GapRecords : F(g) \in GapRecords /\ F(g).before = g.before /\ F(g).end = end
  BY Limits DEF GapRecords
<1>3. end # None
  BY Limits
<1>4. Closed(end) = {IF OpenEnded(g) THEN F(g) ELSE g : g \in gaps}
  BY DEF Closed
<1> HIDE DEF F
<1>5. \A h \in Closed(end) : \E g \in gaps : h = IF OpenEnded(g) THEN F(g) ELSE g
  BY <1>4
<1>6. \A g \in gaps : (IF OpenEnded(g) THEN F(g) ELSE g) \in Closed(end)
  BY <1>4
<1>7. \A h \in Closed(end) : h \in GapRecords /\ ~OpenEnded(h)
  BY <1>1, <1>2, <1>3, <1>5 DEF OpenEnded
<1>8. \A g \in gaps : IF OpenEnded(g) THEN F(g) \in Closed(end) ELSE g \in Closed(end)
  BY <1>6
<1> QED
  BY <1>1, <1>2, <1>7, <1>8

(* What a step that adds gaps leaves lost.                                 *)
LEMMA OpenedLosses ==
  ASSUME TypeOK, NEW start \in 0 .. Messages, gaps' = Opened(start),
         UNCHANGED <<sent, stored, passed>>,
         \A g \in gaps : OpenEnded(g) => \A m \in Lost : m > g.before,
         paused => HasOpenGap,
         ~paused => \A m \in Lost, x \in stored : x < m
  PROVE  /\ Lost' \subseteq Lost
         /\ HasOpenGap'
         /\ \A g \in gaps' : OpenEnded(g) => \A m \in Lost' : m > g.before
<1>1. gaps \subseteq gaps' /\ HasOpenGap'
  BY OpenedGap DEF HasOpenGap
<1>2. Lost' \subseteq Lost
  BY <1>1 DEF Lost
<1>3. \A m \in Lost : m \in Nat /\ m > 0
  BY Limits DEF Lost, TypeOK
<1>4. ASSUME NEW g \in gaps', OpenEnded(g), NEW m \in Lost'
      PROVE  m > g.before
  <2>1. m \in Lost
    BY <1>2
  <2>2. CASE g \in gaps
    BY <1>4, <2>1, <2>2
  <2>3. CASE g \notin gaps
    <3>1. ~HasOpenGap /\ (g.before = 0 \/ g.before \in stored)
      BY <2>3, OpenedGap
    <3> QED
      BY <1>3, <2>1, <3>1
  <2> QED
    BY <2>2, <2>3
<1> QED
  BY <1>1, <1>2, <1>4

(* And what one that closes the open gap does: everything up to there that *)
(* the gap covered is covered for good.                                    *)
LEMMA ClosedLosses ==
  ASSUME TypeOK, NEW end \in 0 .. Messages, gaps' = Closed(end),
         sent' = sent, stored \cup passed \subseteq stored' \cup passed',
         \A g \in gaps : OpenEnded(g) => \A m \in Lost : m > g.before
  PROVE  /\ Lost' \subseteq Lost
         /\ ~HasOpenGap'
         /\ HasOpenGap => \A m \in Lost' : m > end
<1>1. ~HasOpenGap'
  BY ClosedGap DEF HasOpenGap
<1>2. Lost' \subseteq Lost
  BY ClosedGap DEF Lost
<1>3. ASSUME NEW g \in gaps, OpenEnded(g), NEW m \in Lost'
      PROVE  m > end
  <2>1. PICK h \in Closed(end) : h.before = g.before /\ h.end = end
    BY <1>3, ClosedGap
  <2>2. m > g.before
    BY <1>2, <1>3
  <2>3. ~OpenEnded(h) /\ h \in gaps' /\ g \in GapRecords
    BY <2>1, ClosedGap DEF TypeOK, GapRecords
  <2>4. m <= h.before \/ m > h.end
    BY <1>3, <2>3 DEF Lost
  <2>5. m \in Int /\ g.before \in Int
    BY <2>3, Limits DEF Lost, GapRecords, TypeOK
  <2> QED
    BY <2>1, <2>2, <2>4, <2>5
<1> QED
  BY <1>1, <1>2, <1>3 DEF HasOpenGap


-----------------------------------------------------------------------------
(* The steps of QQ and NapCat                                              *)

(* The events sent on a connection, with one more.                         *)
LEMMA EventSent ==
  ASSUME IInv, NEW event \in Events, event.at <= sent',
         event.kind = "message" => event.at > sent,
         sent' \in 0 .. Messages, sent <= sent', Sends(event),
         \A c \in Ids : \A i \in 1 .. Len(wire[c]) : event.at >= wire[c][i].at
  PROVE  /\ wire' \in [Ids -> Seq(Events)]
         /\ \A c \in Ids : wire'[c] = wire[c] \/ (c = link /\ wire'[c] = Append(wire[c], event))
         /\ \A c \in Ids : Len(wire[c]) <= Len(wire'[c])
         /\ WireOrdered'
<1>1. wire \in [Ids -> Seq(Events)] /\ sent \in Nat /\ sent' \in Nat
  <2>1. wire \in [Ids -> Seq(Events)]
    BY DEF IInv, Consistent, TypeOK, Events
  <2>2. sent \in 0 .. Messages
    BY DEF IInv, Consistent, TypeOK
  <2> QED
    BY <2>1, <2>2, Limits
<1>2. \A c \in Ids : wire'[c] = wire[c] \/ (c = link /\ wire'[c] = Append(wire[c], event))
  BY <1>1 DEF Sends
<1>3. wire' \in [Ids -> Seq(Events)]
  <2>1. \A c \in Ids : wire[c] \in Seq(Events) /\ Append(wire[c], event) \in Seq(Events)
    BY <1>1, AppendProperties
  <2> QED
    BY <1>1, <2>1 DEF Sends
<1>4. ASSUME NEW c \in Ids
      PROVE  /\ Len(wire[c]) <= Len(wire'[c])
             /\ \A i \in 1 .. Len(wire'[c]) :
                  /\ wire'[c][i].at <= sent'
                  /\ wire'[c][i].kind = "message" => wire'[c][i].at > 0
             /\ \A i, j \in 1 .. Len(wire'[c]) : i < j =>
                  /\ wire'[c][i].at <= wire'[c][j].at
                  /\ wire'[c][j].kind = "message" => wire'[c][i].at < wire'[c][j].at
  <2> DEFINE w == wire[c]
  <2>1. w \in Seq(Events) /\ Len(w) \in Nat /\ \A i \in 1 .. Len(w) : w[i] \in Events
    BY <1>1, LenProperties
  <2>2. /\ \A i \in 1 .. Len(w) :
             w[i].at <= sent /\ (w[i].kind = "message" => w[i].at > 0)
        /\ \A i, j \in 1 .. Len(w) : i < j =>
             w[i].at <= w[j].at /\ (w[j].kind = "message" => w[i].at < w[j].at)
        /\ \A i \in 1 .. Len(w) : event.at >= w[i].at
    BY DEF IInv, Consistent, WireOrdered
  <2>3. \A i \in 1 .. Len(w) : w[i].at \in Nat
    BY <2>1, Limits DEF Events
  <2>4. event.at \in Nat
    BY Limits DEF Events
  <2>5. CASE wire'[c] = w
    BY <1>1, <2>1, <2>2, <2>3, <2>5
  <2>6. CASE wire'[c] = Append(w, event)
    <3>1. /\ Len(wire'[c]) = Len(w) + 1
          /\ \A i \in 1 .. Len(w) : wire'[c][i] = w[i]
          /\ wire'[c][Len(w) + 1] = event
      BY <2>1, <2>6, AppendProperties
    <3> HIDE DEF w
    <3>2. \A i \in 1 .. Len(w) + 1 : i \in 1 .. Len(w) \/ i = Len(w) + 1
      BY <2>1
    <3>3. \A i, j \in 1 .. Len(w) + 1 : i < j => i \in 1 .. Len(w)
      BY <2>1
    <3>4. \A i \in 1 .. Len(wire'[c]) :
             wire'[c][i].at <= sent' /\ (wire'[c][i].kind = "message" => wire'[c][i].at > 0)
      BY <1>1, <2>1, <2>2, <2>3, <2>4, <3>1, <3>2
    <3>5. ASSUME NEW i \in 1 .. Len(w) + 1, NEW j \in 1 .. Len(w) + 1, i < j
          PROVE  /\ wire'[c][i].at <= wire'[c][j].at
                 /\ wire'[c][j].kind = "message" => wire'[c][i].at < wire'[c][j].at
      <4>1. i \in 1 .. Len(w)
        BY <3>3, <3>5
      <4>2. CASE j \in 1 .. Len(w)
        BY <2>2, <3>1, <3>5, <4>1, <4>2
      <4>3. CASE j = Len(w) + 1
        BY <1>1, <2>2, <2>3, <2>4, <3>1, <4>1, <4>3
      <4> QED
        BY <3>2, <4>2, <4>3
    <3>6. Len(w) <= Len(wire'[c])
      BY <2>1, <3>1
    <3> QED
      BY <3>1, <3>4, <3>5, <3>6 DEF w
  <2> QED
    BY <1>2, <2>5, <2>6
<1> QED
  BY <1>2, <1>3, <1>4 DEF WireOrdered

(* A message is on the wire of its connection or lost to an outage.        *)
LEMMA MessageSentKeeps ==
  ASSUME IInv, MessageSent
  PROVE  Consistent'
<1> USE DEF IInv, Consistent
<1> DEFINE n == sent + 1
<1>1. n \in 1 .. Messages /\ sent \in 0 .. Messages /\ sent' = n /\ sent < n
  BY Limits DEF MessageSent, TypeOK
<1>2. Message(n) \in Events /\ Message(n).at = n /\ Message(n).kind = "message"
  BY <1>1, Limits DEF Message, Events
<1>3. \A c \in Ids : \A i \in 1 .. Len(wire[c]) : n >= wire[c][i].at
  <2> TAKE c \in Ids
  <2> TAKE i \in 1 .. Len(wire[c])
  <2>1. wire[c] \in Seq(Events)
    BY DEF TypeOK, Events
  <2>2. wire[c][i] \in Events
    BY <2>1, LenProperties
  <2>3. wire[c][i].at \in Nat
    BY <2>2, Limits DEF Events
  <2>4. wire[c][i].at <= sent
    BY DEF WireOrdered
  <2> QED
    BY <1>1, <2>3, <2>4, Limits
<1>4. /\ wire' \in [Ids -> Seq(Events)]
      /\ \A c \in Ids : wire'[c] = wire[c] \/ (c = link /\ wire'[c] = Append(wire[c], Message(n)))
      /\ WireOrdered'
  <2>1. Sends(Message(n))
    BY DEF MessageSent
  <2>2. sent' \in 0 .. Messages /\ n <= sent' /\ sent <= sent' /\ n > sent
    BY <1>1, Limits
  <2> HIDE DEF n
  <2> QED
    BY <1>2, <1>3, <2>1, <2>2, EventSent
<1>5. TypeOK'
  <2>1. sent' \in 0 .. Messages /\ 1 .. sent \subseteq 1 .. sent' /\ 0 .. sent \subseteq 0 .. sent'
    BY <1>1, Limits
  <2> HIDE DEF n
  <2> QED
    BY <1>4, <2>1 DEF TypeOK, MessageSent, Events
<1>6. LinksOrdered' /\ SessionIsLast' /\ RowsOfSession'
  BY DEF MessageSent, LinksOrdered, SessionIsLast, RowsOfSession, Accepted, Live
<1>7. GapsStarted'
  <2>1. \A g \in gaps : g.before \in Nat
    BY Limits DEF TypeOK
  <2> QED
    BY <1>1, <2>1, Limits DEF MessageSent, GapsStarted
<1>8. ASSUME ~unguarded PROVE Accepted' \subseteq {session'} /\ OpenGapCovers' /\ LossesFollow'
  <2>1. \A m \in Lost' : m \in Lost \/ m = n
    BY <1>1, Limits DEF Lost, MessageSent
  <2>2. \A m \in Lost : m \in 1 .. sent
    BY DEF Lost
  <2>3. OpenGapCovers'
    <3>1. \A g \in gaps' : OpenEnded(g) => \A m \in Lost' : m > g.before
      <4>1. \A g \in gaps : g.before <= sent /\ g.before \in Nat
        BY Limits DEF TypeOK, GapsStarted
      <4>2. \A g \in gaps : g.before < n
        BY <1>1, <4>1, Limits
      <4>3. gaps' = gaps
        BY DEF MessageSent
      <4> QED
        BY <1>8, <2>1, <4>2, <4>3 DEF Guarded, OpenGapCovers
    <3> QED
      BY <1>8, <3>1 DEF Guarded, OpenGapCovers, HasOpenGap, MessageSent, Live
  <2>4. ASSUME ~paused
        PROVE  /\ \A m \in Lost', x \in stored : x < m
               /\ \A c \in {session, link} \ {0}, m \in Lost' :
                    OnWire(m, c)' \/ Older(m, c)' \/ WillBeNoticed(m, c)'
               /\ ~HasOpenGap => \A c \in {session} \ {0}, m \in Lost' :
                    OnWire(m, c)' \/ WillBeNoticed(m, c)'
    <3>1. \A m \in Lost', x \in stored : x < m
      <4>1. \A x \in stored : x \in 1 .. sent
        BY DEF TypeOK
      <4>2. \A x \in stored : x < n
        BY <1>1, <4>1, Limits
      <4> QED
        BY <1>8, <2>1, <2>4, <4>2 DEF Guarded, LossesFollow
    <3>2. ASSUME NEW c \in Ids, NEW m \in Lost
          PROVE  /\ OnWire(m, c) => OnWire(m, c)'
                 /\ Older(m, c) => Older(m, c)'
                 /\ WillBeNoticed(m, c) => WillBeNoticed(m, c)'
      <4>1. CASE wire'[c] = wire[c]
        BY <4>1 DEF OnWire, Older, WillBeNoticed, Newer, MessageSent
      <4>2. CASE wire'[c] # wire[c]
        <5>1. wire'[c] = Append(wire[c], Message(n)) /\ c = link /\ online
          BY <1>2, <1>4, <4>2 DEF MessageSent, Sends
        <5>2. /\ Len(wire[c]) \in Nat
              /\ Len(wire'[c]) = Len(wire[c]) + 1
              /\ \A i \in 1 .. Len(wire[c]) : wire'[c][i] = wire[c][i]
              /\ wire'[c][Len(wire[c]) + 1] = Message(n)
          <6>1. wire[c] \in Seq(Events)
            BY DEF TypeOK, Events
          <6> QED
            BY <1>2, <5>1, <6>1, AppendProperties, LenProperties
        <5>3. ~WillBeNoticed(m, c)
          BY <5>1 DEF WillBeNoticed
        <5>4. OnWire(m, c) => OnWire(m, c)'
          BY <5>2 DEF OnWire
        <5>5. Older(m, c) => Older(m, c)'
          <6>1. m <= n
            BY <1>1, <2>2, Limits
          <6>2. \A i \in 1 .. Len(wire'[c]) : i \in 1 .. Len(wire[c]) \/ i = Len(wire[c]) + 1
            BY <5>2
          <6> HIDE DEF n
          <6> QED
            BY <1>2, <5>2, <6>1, <6>2 DEF Older
        <5> QED
          BY <5>3, <5>4, <5>5
      <4> QED
        BY <4>1, <4>2
    <3>3. ASSUME NEW c \in Ids, NEW m, m = n PROVE OnWire(m, c)' \/ WillBeNoticed(m, c)'
      <4>1. CASE online /\ c = link
        <5>1. wire'[c] = Append(wire[c], Message(n)) /\ wire[c] \in Seq(Events)
          <6>1. link # 0
            BY <4>1, Limits DEF Ids
          <6>2. wire \in [Ids -> Seq(Events)]
            BY DEF TypeOK, Events
          <6> QED
            BY <4>1, <6>1, <6>2 DEF MessageSent, Sends
        <5>2. wire'[c][Len(wire[c]) + 1] = Message(n) /\ Len(wire'[c]) = Len(wire[c]) + 1
              /\ Len(wire[c]) \in Nat
          BY <1>2, <5>1, AppendProperties, LenProperties
        <5>3. Len(wire[c]) + 1 \in 1 .. Len(wire'[c])
          BY <5>2
        <5> QED
          BY <3>3, <5>2, <5>3 DEF OnWire
      <4>2. CASE ~(online /\ c = link)
        <5>1. wire'[c] = wire[c]
          BY <1>2, <1>4, <4>2 DEF MessageSent, Sends
        <5>2. \A i \in 1 .. Len(wire[c]) : wire[c][i].at < n
          <6>1. wire[c] \in Seq(Events)
            BY DEF TypeOK, Events
          <6>2. \A i \in 1 .. Len(wire[c]) : wire[c][i] \in Events
            BY <6>1, LenProperties
          <6>3. \A i \in 1 .. Len(wire[c]) : wire[c][i].at \in Nat
            BY <6>2, Limits DEF Events
          <6>4. \A i \in 1 .. Len(wire[c]) : wire[c][i].at <= sent
            BY DEF WireOrdered
          <6> QED
            BY <1>1, <6>3, <6>4, Limits
        <5> QED
          BY <3>3, <4>2, <5>1, <5>2 DEF WillBeNoticed, Newer, MessageSent
      <4> QED
        BY <4>1, <4>2
    <3>4. session \in 0 .. Connections /\ link \in 0 .. Connections /\ Ids = 1 .. Connections
      BY DEF TypeOK, Ids
    <3>5. \A c \in {session, link} \ {0} : c \in Ids
      BY <3>4, Limits
    <3> HIDE DEF n
    <3>6. \A c \in {session, link} \ {0}, m \in Lost' :
             OnWire(m, c)' \/ Older(m, c)' \/ WillBeNoticed(m, c)'
      BY <1>8, <2>1, <2>4, <3>2, <3>3, <3>5 DEF Guarded, LossesFollow
    <3>7. ~HasOpenGap => \A c \in {session} \ {0}, m \in Lost' :
             OnWire(m, c)' \/ WillBeNoticed(m, c)'
      BY <1>8, <2>1, <2>4, <3>2, <3>3, <3>5 DEF Guarded, LossesFollow
    <3> QED
      BY <3>1, <3>6, <3>7
  <2>5. UNCHANGED <<session, link, conn, gaps, paused, stored>>
    BY DEF MessageSent
  <2>6. LossesFollow'
    BY <2>4, <2>5 DEF LossesFollow, HasOpenGap, OnWire, Older, WillBeNoticed, Newer
  <2>7. Accepted' \subseteq {session'}
    BY <1>8, <2>5 DEF Guarded, Accepted
  <2> QED
    BY <2>3, <2>6, <2>7
<1>9. Guarded'
  BY <1>8 DEF Guarded, MessageSent
<1> QED
  BY <1>4, <1>5, <1>6, <1>7, <1>9


(* What the proofs use of the types, at a connection ...                   *)
LEMMA WireFacts ==
  ASSUME IInv, NEW c \in Ids
  PROVE  /\ wire[c] \in Seq(Events)
         /\ Len(wire[c]) \in Nat
         /\ \A i \in 1 .. Len(wire[c]) :
              wire[c][i] \in Events /\ wire[c][i].at \in Nat /\ wire[c][i].at <= sent
<1>1. wire[c] \in Seq(Events)
  BY DEF IInv, Consistent, TypeOK, Events
<1>2. Len(wire[c]) \in Nat /\ \A i \in 1 .. Len(wire[c]) : wire[c][i] \in Events
  BY <1>1, LenProperties
<1>3. \A i \in 1 .. Len(wire[c]) : wire[c][i].at \in Nat
  BY <1>2, Limits DEF Events
<1>4. \A i \in 1 .. Len(wire[c]) : wire[c][i].at <= sent
  BY DEF IInv, Consistent, WireOrdered
<1> QED
  BY <1>1, <1>2, <1>3, <1>4

(* ... and of numbers.                                                     *)
LEMMA NumberFacts ==
  ASSUME IInv
  PROVE  /\ sent \in Nat /\ sent <= Messages /\ sent \in 0 .. Messages
         /\ \A m \in Lost : m \in Nat /\ 0 < m /\ m <= sent
         /\ \A x \in stored : x \in Nat /\ 0 < x /\ x <= sent
         /\ \A c \in {session, link} \ {0} : c \in Ids
         /\ 0 \notin Ids
         /\ \A c \in Ids : c \in Nat /\ c <= Connections
<1>1. sent \in 0 .. Messages /\ stored \subseteq 1 .. sent
  BY DEF IInv, Consistent, TypeOK
<1>2. Lost \subseteq 1 .. sent
  BY DEF Lost
<1>3. session \in 0 .. Connections /\ link \in 0 .. Connections
  BY DEF IInv, Consistent, TypeOK
<1> QED
  BY <1>1, <1>2, <1>3, Limits DEF Ids

(* The relation of losses and events, when what there is to say of the     *)
(* events that remain has not changed.                                     *)
LEMMA FollowStill ==
  ASSUME LossesFollow,
         UNCHANGED <<online, wire>>, link' \in {link, 0}, session' \in {session, 0},
         paused' = paused, stored' = stored,
         Lost' \subseteq Lost, HasOpenGap => HasOpenGap'
  PROVE  LossesFollow'
<1> SUFFICES ASSUME ~paused PROVE LossesFollow'
  BY DEF LossesFollow
<1>1. \A m \in Lost', x \in stored' : x < m
  BY DEF LossesFollow
<1>2. \A c \in {session', link'} \ {0} : c \in {session, link} \ {0} /\ (c # link => c # link')
  OBVIOUS
<1>3. \A c \in {session', link'} \ {0}, m \in Lost' :
         /\ OnWire(m, c) => OnWire(m, c)'
         /\ Older(m, c) => Older(m, c)'
         /\ WillBeNoticed(m, c) => WillBeNoticed(m, c)'
  BY <1>2 DEF OnWire, Older, WillBeNoticed, Newer
<1>4. \A c \in {session', link'} \ {0}, m \in Lost' :
         OnWire(m, c)' \/ Older(m, c)' \/ WillBeNoticed(m, c)'
  BY <1>2, <1>3 DEF LossesFollow
<1>5. ~HasOpenGap' => \A c \in {session'} \ {0}, m \in Lost' :
         OnWire(m, c)' \/ WillBeNoticed(m, c)'
  BY <1>3 DEF LossesFollow
<1>6. \A m, c : OnWire(m, c)' = (\E i \in 1 .. Len(wire'[c]) : wire'[c][i] = Message(m))
  BY DEF OnWire, Message
<1> QED
  BY <1>1, <1>4, <1>5, <1>6 DEF LossesFollow, OnWire, Older, WillBeNoticed, Newer, HasOpenGap

(* All that is lost is older than a heartbeat, and one that shows QQ       *)
(* online is not behind what an outage lost.                               *)
LEMMA HeartbeatSentKeeps ==
  ASSUME IInv, HeartbeatSent
  PROVE  Consistent'
<1> USE DEF IInv, Consistent
<1> DEFINE h == Heartbeat(online)
<1>1. h \in Events /\ h.at = sent /\ h.kind = (IF online THEN "healthy" ELSE "degraded")
  BY NumberFacts DEF Heartbeat, Events
<1>2. link # 0 /\ link \in Ids /\ Sends(h)
  BY NumberFacts DEF HeartbeatSent
<1>3. UNCHANGED <<sent, online, link, conn, up, session, row, paused, watch, pending, stored, gaps,
                  crashes, outages, unguarded, passed>>
  BY DEF HeartbeatSent
<1> HIDE DEF h
<1>4. /\ wire' \in [Ids -> Seq(Events)]
      /\ \A c \in Ids : wire'[c] = wire[c] \/ c = link
      /\ WireOrdered'
  <2>1. \A c \in Ids : \A i \in 1 .. Len(wire[c]) : h.at >= wire[c][i].at
    BY <1>1, WireFacts, NumberFacts
  <2>2. sent' \in 0 .. Messages /\ sent <= sent' /\ h.at <= sent' /\ h.kind # "message"
    BY <1>1, <1>3, NumberFacts
  <2> QED
    BY <1>1, <1>2, <2>1, <2>2, EventSent
<1>5. /\ Len(wire[link]) \in Nat
      /\ Len(wire'[link]) = Len(wire[link]) + 1
      /\ \A i \in 1 .. Len(wire[link]) : wire'[link][i] = wire[link][i]
      /\ wire'[link][Len(wire[link]) + 1] = h
      /\ \A i \in 1 .. Len(wire'[link]) : i \in 1 .. Len(wire[link]) \/ i = Len(wire[link]) + 1
  <2>1. wire \in [Ids -> Seq(Events)] /\ wire[link] \in Seq(Events) /\ Len(wire[link]) \in Nat
    BY <1>2, WireFacts DEF TypeOK, Events
  <2>2. wire' = [wire EXCEPT ![link] = Append(@, h)]
    BY <1>1, <1>2 DEF Sends
  <2>3. wire'[link] = Append(wire[link], h)
    BY <1>2, <2>1, <2>2
  <2>4. /\ Len(wire'[link]) = Len(wire[link]) + 1
        /\ \A i \in 1 .. Len(wire[link]) : wire'[link][i] = wire[link][i]
        /\ wire'[link][Len(wire[link]) + 1] = h
    BY <1>1, <2>1, <2>3, AppendProperties
  <2> QED
    BY <2>1, <2>4
<1>6. TypeOK'
  BY <1>3, <1>4 DEF TypeOK, Events
<1>7. LinksOrdered' /\ SessionIsLast' /\ RowsOfSession' /\ GapsStarted'
  BY <1>3 DEF LinksOrdered, SessionIsLast, RowsOfSession, Accepted, Live, GapsStarted
<1>8. ASSUME ~unguarded PROVE Accepted' \subseteq {session'} /\ OpenGapCovers' /\ LossesFollow'
  <2>1. Lost' = Lost /\ HasOpenGap' = HasOpenGap
    BY <1>3 DEF Lost, HasOpenGap
  <2>2. OpenGapCovers' /\ Accepted' \subseteq {session'}
    BY <1>3, <1>8, <2>1 DEF Guarded, OpenGapCovers, Accepted, Live, HasOpenGap
  <2>3. ASSUME ~paused, NEW c \in {session, link} \ {0}, NEW m \in Lost
        PROVE  /\ OnWire(m, c)' \/ Older(m, c)' \/ WillBeNoticed(m, c)'
               /\ c = session /\ ~HasOpenGap => OnWire(m, c)' \/ WillBeNoticed(m, c)'
    <3>1. CASE c # link
      <4>1. wire'[c] = wire[c]
        BY <1>4, <3>1, NumberFacts
      <4> QED
        BY <1>3, <1>8, <2>3, <4>1
        DEF Guarded, LossesFollow, OnWire, Older, WillBeNoticed, Newer
    <3>2. CASE c = link
      <4>1. \A i \in 1 .. Len(wire[link]) : i \in 1 .. Len(wire'[link])
        BY <1>5
      <4>2. Older(m, c) => Older(m, c)'
        BY <1>1, <1>5, <3>2, NumberFacts DEF Older
      <4>3. OnWire(m, c) => OnWire(m, c)'
        BY <1>5, <3>2, <4>1 DEF OnWire
      <4>4. WillBeNoticed(m, c) => WillBeNoticed(m, c)'
        BY <1>1, <1>3, <1>5, <3>2 DEF WillBeNoticed, Newer
      <4> QED
        BY <1>8, <2>3, <4>2, <4>3, <4>4 DEF Guarded, LossesFollow
    <3> QED
      BY <3>1, <3>2
  <2>4. LossesFollow'
    <3>1. \A m \in Lost', x \in stored' : ~paused => x < m
      BY <1>3, <1>8, <2>1 DEF Guarded, LossesFollow
    <3> QED
      BY <1>3, <2>1, <2>3, <3>1
      DEF LossesFollow, OnWire, Older, WillBeNoticed, Newer, HasOpenGap
  <2> QED
    BY <2>2, <2>4
<1>9. Guarded'
  BY <1>3, <1>8 DEF Guarded
<1> QED
  BY <1>4, <1>6, <1>7, <1>9

(* QQ returns only during a pause, about which nothing is claimed.         *)
LEMMA QQChangesKeeps ==
  ASSUME IInv, QQChanges
  PROVE  Consistent'
<1> USE DEF IInv, Consistent
<1>1. /\ UNCHANGED <<sent, link, wire, conn, up, session, row, paused, watch, pending, stored, gaps,
                     crashes, unguarded, passed>>
      /\ online' = ~online
      /\ IF online THEN outages < Outages /\ outages' = outages + 1
                   ELSE paused /\ outages' = outages
  BY DEF QQChanges
<1>2. TypeOK'
  <2>1. outages' \in 0 .. Outages
    BY <1>1, Limits DEF TypeOK
  <2>2. online' \in BOOLEAN
    BY <1>1
  <2> QED
    BY <1>1, <2>1, <2>2 DEF TypeOK
<1>3. LinksOrdered' /\ SessionIsLast' /\ RowsOfSession' /\ WireOrdered' /\ GapsStarted'
  BY <1>1 DEF LinksOrdered, SessionIsLast, RowsOfSession, WireOrdered, GapsStarted, Accepted, Live
<1>4. Lost' = Lost /\ HasOpenGap' = HasOpenGap
  BY <1>1 DEF Lost, HasOpenGap
<1>5. Guarded => Guarded'
  <2>1. ~unguarded /\ Guarded => OpenGapCovers' /\ Accepted' \subseteq {session'}
    BY <1>1, <1>4 DEF Guarded, OpenGapCovers, Accepted, Live, HasOpenGap
  <2>2. online /\ LossesFollow => LossesFollow'
    BY <1>1, <1>4 DEF LossesFollow, OnWire, Older, WillBeNoticed, Newer, HasOpenGap
  <2>3. ~online => LossesFollow'
    BY <1>1 DEF LossesFollow
  <2> QED
    BY <1>1, <2>1, <2>2, <2>3 DEF Guarded
<1> QED
  BY <1>2, <1>3, <1>5

(* A new connection starts with a sign of health that is newer than all    *)
(* that is lost.                                                           *)
LEMMA ConnectsKeeps ==
  ASSUME IInv, Connects
  PROVE  Consistent'
<1> USE DEF IInv, Consistent
<1> DEFINE h == Heartbeat(TRUE)
<1>1. PICK c \in Ids :
        /\ conn[c] = "none"
        /\ \A d \in 1 .. c - 1 : conn[d] # "none"
        /\ link' = c
        /\ conn' = [conn EXCEPT ![c] = "accepting"]
        /\ wire' = [wire EXCEPT ![c] = <<h>>]
  BY DEF Connects
<1>2. /\ UNCHANGED <<sent, online, up, session, row, paused, watch, pending, stored, gaps, crashes,
                     outages, unguarded, passed>>
      /\ link = 0 /\ up /\ pending.what # "gap_and_stop"
  BY DEF Connects
<1>3. h \in Events /\ h.at = sent /\ h.kind = "healthy"
  BY NumberFacts DEF Heartbeat, Events
<1> HIDE DEF h
<1>4. conn \in [Ids -> {"none", "accepting", "open", "closing", "ended"}]
      /\ wire \in [Ids -> Seq(Events)]
  BY DEF TypeOK, Events
<1>5. /\ conn'[c] = "accepting" /\ wire'[c] = <<h>>
      /\ \A d \in Ids : d # c => conn'[d] = conn[d] /\ wire'[d] = wire[d]
      /\ conn' \in [Ids -> {"none", "accepting", "open", "closing", "ended"}]
      /\ wire' \in [Ids -> Seq(Events)]
  BY <1>1, <1>3, <1>4
<1>6. Len(wire'[c]) = 1 /\ wire'[c][1] = h /\ \A i \in 1 .. Len(wire'[c]) : i = 1
  BY <1>5
<1>7. link' \in 0 .. Connections /\ Ids = 1 .. Connections
  BY <1>1, Limits DEF Ids
<1>8. TypeOK'
  BY <1>1, <1>2, <1>5, <1>7 DEF TypeOK, Events
<1>9. LinksOrdered'
  <2>1. \A d \in Ids : d > c => conn[d] = "none"
    BY <1>1, NumberFacts DEF LinksOrdered
  <2>2. \A d \in Ids : d < c => conn[d] # "none"
    BY <1>1, NumberFacts, Limits DEF Ids
  <2>3. \A d \in Ids : conn[d] # "accepting"
    BY <1>2, NumberFacts DEF LinksOrdered
  <2>4. \A d, e \in Ids : d < e /\ conn'[d] = "none" => conn'[e] = "none"
    <3> SUFFICES ASSUME NEW d \in Ids, NEW e \in Ids, d < e, conn'[d] = "none"
                 PROVE  conn'[e] = "none"
      OBVIOUS
    <3>1. d > c
      <4>1. d # c /\ conn[d] = "none"
        BY <1>5
      <4>2. ~(d < c)
        BY <2>2, <4>1
      <4> QED
        BY <4>1, <4>2, NumberFacts
    <3>2. e > c /\ e # c
      BY <3>1, NumberFacts
    <3> QED
      BY <1>5, <2>1, <3>2
  <2>5. \A d \in Ids : d > c => d # c
    BY NumberFacts
  <2> QED
    BY <1>1, <1>5, <2>1, <2>3, <2>4, <2>5 DEF LinksOrdered
<1>10. Accepted' = Accepted
  BY <1>1, <1>5 DEF Accepted
<1>11. SessionIsLast' /\ RowsOfSession'
  <2>1. \A d \in Ids : conn[d] = "ended" => conn'[d] = "ended"
    BY <1>1, <1>5
  <2>2. SessionIsLast'
    BY <1>2, <1>10, <2>1 DEF SessionIsLast
  <2> QED
    BY <1>2, <1>10, <2>2 DEF RowsOfSession, Live
<1>12. WireOrdered' /\ GapsStarted'
  <2>1. \A d \in Ids : d # c =>
          /\ \A i \in 1 .. Len(wire'[d]) :
               wire'[d][i].at <= sent' /\ (wire'[d][i].kind = "message" => wire'[d][i].at > 0)
          /\ \A i, j \in 1 .. Len(wire'[d]) : i < j =>
               /\ wire'[d][i].at <= wire'[d][j].at
               /\ wire'[d][j].kind = "message" => wire'[d][i].at < wire'[d][j].at
    BY <1>2, <1>5 DEF WireOrdered
  <2>2. h.at <= sent' /\ h.kind # "message"
    BY <1>2, <1>3, NumberFacts
  <2> QED
    BY <1>2, <1>6, <2>1, <2>2 DEF WireOrdered, GapsStarted
<1>13. ASSUME ~unguarded PROVE Accepted' \subseteq {session'} /\ OpenGapCovers' /\ LossesFollow'
  <2>1. Lost' = Lost /\ HasOpenGap' = HasOpenGap
    BY <1>2 DEF Lost, HasOpenGap
  <2>2. OpenGapCovers' /\ Accepted' \subseteq {session'}
    BY <1>2, <1>10, <1>13, <2>1 DEF Guarded, OpenGapCovers, Live, HasOpenGap
  <2>3. session # c
    <3>1. session # 0 => conn[session] \in {"open", "closing"}
      BY DEF SessionIsLast, Accepted
    <3> QED
      BY <1>1, <3>1, NumberFacts
  <2>4. \A m \in Lost : Older(m, c)'
    BY <1>3, <1>6, NumberFacts DEF Older
  <2>5. ASSUME ~paused, session # 0, NEW m \in Lost
        PROVE  /\ OnWire(m, session) => OnWire(m, session)'
               /\ Older(m, session) => Older(m, session)'
               /\ WillBeNoticed(m, session) => WillBeNoticed(m, session)'
    <3>1. wire'[session] = wire[session] /\ session' = session /\ session # link'
      BY <1>1, <1>2, <1>5, <2>3, <2>5, NumberFacts
    <3> QED
      BY <1>2, <2>5, <3>1 DEF OnWire, Older, WillBeNoticed, Newer
  <2>6. \A m \in Lost', x \in stored' : ~paused => x < m
    BY <1>2, <1>13, <2>1 DEF Guarded, LossesFollow
  <2>7. \A d \in {session', link'} \ {0}, m \in Lost' :
          ~paused => OnWire(m, d)' \/ Older(m, d)' \/ WillBeNoticed(m, d)'
    <3> SUFFICES ASSUME ~paused, NEW d \in {session, c} \ {0}, NEW m \in Lost
                 PROVE  OnWire(m, d)' \/ Older(m, d)' \/ WillBeNoticed(m, d)'
      BY <1>1, <1>2, <2>1
    <3>1. d = c => Older(m, d)'
      BY <2>4
    <3>2. d = session => OnWire(m, d)' \/ Older(m, d)' \/ WillBeNoticed(m, d)'
      BY <1>2, <1>13, <2>5 DEF Guarded, LossesFollow, OnWire, Older, WillBeNoticed, Newer
    <3> QED
      BY <3>1, <3>2
  <2>8. ~paused /\ ~HasOpenGap' => \A d \in {session'} \ {0}, m \in Lost' :
          OnWire(m, d)' \/ WillBeNoticed(m, d)'
    BY <1>2, <1>13, <2>1, <2>5 DEF Guarded, LossesFollow, OnWire, Older, WillBeNoticed, Newer
  <2>9. LossesFollow'
    BY <1>2, <2>1, <2>6, <2>7, <2>8
    DEF LossesFollow, OnWire, Older, WillBeNoticed, Newer, HasOpenGap
  <2> QED
    BY <2>2, <2>9
<1>14. Guarded'
  BY <1>2, <1>13 DEF Guarded
<1> QED
  BY <1>8, <1>9, <1>11, <1>12, <1>14


(* Of the events on a connection that breaks the first ones remain: what   *)
(* was to come after them is newer than all of them, and is noticed when   *)
(* the session ends.                                                       *)
LEMMA BreaksKeeps ==
  ASSUME IInv, Breaks
  PROVE  Consistent'
<1> USE DEF IInv, Consistent
<1>1. PICK n \in 0 .. Len(wire[link]) : wire' = [wire EXCEPT ![link] = SubSeq(@, 1, n)]
  <2>1. link \in Ids
    BY NumberFacts DEF Breaks
  <2>2. Len(wire[link]) \in Nat
    BY <2>1, WireFacts
  <2> DEFINE last == IF conn[link] = "open" THEN Len(wire[link]) ELSE 0
  <2>3. 0 .. last \subseteq 0 .. Len(wire[link])
    BY <2>2
  <2>4. PICK n \in 0 .. last : wire' = [wire EXCEPT ![link] = SubSeq(@, 1, n)]
    BY DEF Breaks
  <2> HIDE DEF last
  <2> QED
    BY <2>3, <2>4
<1>2. /\ UNCHANGED <<sent, online, up, session, row, paused, watch, pending, stored, gaps, crashes,
                     outages, unguarded, passed>>
      /\ link # 0 /\ link' = 0 /\ link \in Ids
      /\ conn' = [conn EXCEPT ![link] = IF @ = "open" THEN "closing" ELSE "ended"]
  BY NumberFacts DEF Breaks
<1>3. /\ wire \in [Ids -> Seq(Events)]
      /\ conn \in [Ids -> {"none", "accepting", "open", "closing", "ended"}]
      /\ conn[link] \in {"accepting", "open"}
  BY <1>2 DEF TypeOK, Events
<1>4. /\ n \in Nat /\ n <= Len(wire[link])
      /\ SubSeq(wire[link], 1, n) \in Seq(Events)
      /\ Len(SubSeq(wire[link], 1, n)) = n
      /\ \A i \in 1 .. n : SubSeq(wire[link], 1, n)[i] = wire[link][i]
  <2>1. wire[link] \in Seq(Events) /\ Len(wire[link]) \in Nat
    BY <1>2, WireFacts
  <2>2. n \in Nat /\ n <= Len(wire[link]) /\ 1 \in 1 .. Len(wire[link]) + 1 /\ n \in 0 .. Len(wire[link])
    BY <2>1
  <2>3. /\ SubSeq(wire[link], 1, n) \in Seq(Events)
        /\ Len(SubSeq(wire[link], 1, n)) = (IF 1 <= n THEN n - 1 + 1 ELSE 0)
        /\ \A i \in 1 .. n - 1 + 1 : SubSeq(wire[link], 1, n)[i] = wire[link][1 + i - 1]
    BY <2>1, <2>2, SubSeqProperties
  <2>4. n - 1 + 1 = n /\ (~(1 <= n) => n = 0) /\ \A i \in 1 .. n : 1 + i - 1 = i
    BY <2>2
  <2> QED
    BY <2>2, <2>3, <2>4
<1>5. /\ wire' \in [Ids -> Seq(Events)]
      /\ \A c \in Ids : c # link => wire'[c] = wire[c]
      /\ Len(wire'[link]) = n
      /\ \A i \in 1 .. Len(wire'[link]) : wire'[link][i] = wire[link][i] /\ i \in 1 .. Len(wire[link])
  <2>1. wire'[link] = SubSeq(wire[link], 1, n)
    BY <1>1, <1>2, <1>3
  <2>2. \A i \in 1 .. n : i \in 1 .. Len(wire[link])
    BY <1>2, <1>4, WireFacts
  <2> QED
    BY <1>1, <1>2, <1>3, <1>4, <2>1, <2>2
<1>6. /\ conn' \in [Ids -> {"none", "accepting", "open", "closing", "ended"}]
      /\ \A c \in Ids : c # link => conn'[c] = conn[c]
      /\ conn'[link] = IF conn[link] = "open" THEN "closing" ELSE "ended"
  <2> DEFINE now == IF conn[link] = "open" THEN "closing" ELSE "ended"
  <2>1. now \in {"none", "accepting", "open", "closing", "ended"}
    OBVIOUS
  <2>2. conn' = [conn EXCEPT ![link] = now]
    BY <1>2
  <2>3. conn'[link] = now
    BY <1>2, <1>3, <2>2
  <2> HIDE DEF now
  <2>4. conn' \in [Ids -> {"none", "accepting", "open", "closing", "ended"}]
        /\ \A c \in Ids : c # link => conn'[c] = conn[c]
    BY <1>2, <1>3, <2>1, <2>2
  <2> QED
    BY <2>3, <2>4 DEF now
<1>7. TypeOK'
  <2>1. link' \in 0 .. Connections
    BY <1>2, Limits
  <2>2. wire' \in [Ids -> Seq([kind : {"message", "healthy", "degraded"}, at : 0 .. Messages])]
    BY <1>5 DEF Events
  <2> QED
    BY <1>2, <1>6, <2>1, <2>2 DEF TypeOK
<1>8. LinksOrdered'
  <2>1. \A c \in Ids : (conn'[c] = "none") = (conn[c] = "none")
    BY <1>3, <1>6
  <2>2. \A c \in Ids : conn'[c] # "accepting"
    BY <1>6 DEF LinksOrdered
  <2> QED
    BY <1>2, <2>1, <2>2 DEF LinksOrdered
<1>9. Accepted' = Accepted
  BY <1>3, <1>6 DEF Accepted
<1>10. SessionIsLast' /\ RowsOfSession'
  <2>1. \A c \in Ids : conn[c] = "ended" => conn'[c] = "ended"
    BY <1>3, <1>6
  <2>2. SessionIsLast'
    BY <1>2, <1>9, <2>1 DEF SessionIsLast
  <2> QED
    BY <1>2, <1>9, <2>2 DEF RowsOfSession, Live
<1>11. WireOrdered' /\ GapsStarted'
  <2>1. \A c \in Ids : \A i \in 1 .. Len(wire'[c]) :
          wire'[c][i] = wire[c][i] /\ i \in 1 .. Len(wire[c])
    BY <1>5
  <2> QED
    BY <1>2, <2>1 DEF WireOrdered, GapsStarted
<1>12. ASSUME ~unguarded PROVE Accepted' \subseteq {session'} /\ OpenGapCovers' /\ LossesFollow'
  <2>1. Lost' = Lost /\ HasOpenGap' = HasOpenGap
    BY <1>2 DEF Lost, HasOpenGap
  <2>2. OpenGapCovers' /\ Accepted' \subseteq {session'}
    BY <1>2, <1>9, <1>12, <2>1 DEF Guarded, OpenGapCovers, Live, HasOpenGap
  <2>3. ASSUME NEW m \in Lost, session # 0
        PROVE  /\ OnWire(m, session) => OnWire(m, session)' \/ WillBeNoticed(m, session)'
               /\ Older(m, session) => Older(m, session)'
               /\ WillBeNoticed(m, session) => WillBeNoticed(m, session)'
    <3>1. session' = session /\ session # link' /\ session \in Ids
      BY <1>2, <2>3, NumberFacts
    <3>2. CASE session # link
      <4>1. wire'[session] = wire[session]
        BY <1>5, <3>1, <3>2
      <4> QED
        BY <1>2, <3>1, <4>1 DEF OnWire, Older, WillBeNoticed, Newer
    <3>3. CASE session = link
      <4>1. ASSUME OnWire(m, session), ~OnWire(m, session)'
            PROVE  Newer(m, session)'
        <5>1. PICK i \in 1 .. Len(wire[link]) : wire[link][i] = Message(m)
          BY <3>3, <4>1 DEF OnWire
        <5>2. \A j \in 1 .. Len(wire'[link]) : j # i
          BY <1>2, <1>5, <3>3, <4>1, <5>1 DEF OnWire
        <5>3. \A j \in 1 .. Len(wire'[link]) : j < i
          BY <1>2, <1>4, <1>5, <5>2, WireFacts
        <5>4. wire[link][i].kind = "message" /\ wire[link][i].at = m
          BY <5>1 DEF Message
        <5>5. \A j \in 1 .. Len(wire'[link]) : wire[link][j].at < m
          BY <1>2, <1>5, <5>3, <5>4 DEF WireOrdered
        <5> QED
          BY <1>2, <1>5, <3>3, <5>5 DEF Newer
      <4>2. Older(m, session) => Older(m, session)'
        BY <1>2, <1>5, <3>3 DEF Older
      <4>3. Newer(m, session) => Newer(m, session)'
        BY <1>2, <1>5, <3>3 DEF Newer
      <4> QED
        BY <3>1, <4>1, <4>2, <4>3 DEF WillBeNoticed
    <3> QED
      BY <3>2, <3>3
  <2>4. \A m \in Lost', x \in stored' : ~paused => x < m
    BY <1>2, <1>12, <2>1 DEF Guarded, LossesFollow
  <2>5. ~paused => \A d \in {session', link'} \ {0}, m \in Lost' :
          OnWire(m, d)' \/ Older(m, d)' \/ WillBeNoticed(m, d)'
    <3> SUFFICES ASSUME ~paused, session # 0, NEW m \in Lost
                 PROVE  OnWire(m, session)' \/ Older(m, session)' \/ WillBeNoticed(m, session)'
      BY <1>2, <2>1 DEF OnWire, Older, WillBeNoticed, Newer
    <3> QED
      BY <1>12, <2>3 DEF Guarded, LossesFollow
  <2>6. ~paused /\ ~HasOpenGap' => \A d \in {session'} \ {0}, m \in Lost' :
          OnWire(m, d)' \/ WillBeNoticed(m, d)'
    BY <1>2, <1>12, <2>1, <2>3
    DEF Guarded, LossesFollow, OnWire, Older, WillBeNoticed, Newer
  <2>7. LossesFollow'
    BY <1>2, <2>1, <2>4, <2>5, <2>6
    DEF LossesFollow, OnWire, Older, WillBeNoticed, Newer, HasOpenGap
  <2> QED
    BY <2>2, <2>7
<1>13. Guarded'
  BY <1>2, <1>12 DEF Guarded
<1> QED
  BY <1>7, <1>8, <1>10, <1>11, <1>13

-----------------------------------------------------------------------------
(* The steps of the collector                                              *)

(* Ending a session that may be absent.                                    *)
LEMMA EndedRow ==
  ASSUME IInv, NEW c \in 0 .. Connections
  PROVE  /\ Ended(c) \in [Ids -> {None} \cup 0 .. Messages]
         /\ \A d \in Ids : d = c => Ended(c)[d] = None
         /\ \A d \in Ids : d # c => Ended(c)[d] = row[d]
<1>1. row \in [Ids -> {None} \cup 0 .. Messages]
  BY DEF IInv, Consistent, TypeOK
<1>2. CASE c = 0
  BY <1>1, <1>2, NumberFacts DEF Ended
<1>3. CASE c # 0
  <2>1. Ended(c) = [row EXCEPT ![c] = None]
    BY <1>3 DEF Ended
  <2> QED
    BY <1>1, <2>1
<1> QED
  BY <1>2, <1>3

(* A connection is only accepted over a session whose end was noticed if   *)
(* nothing is to go unguarded.                                             *)
LEMMA AcceptsKeeps ==
  ASSUME IInv, NEW c \in Ids, Accepts(c)
  PROVE  Consistent'
<1> USE DEF IInv, Consistent
<1>1. /\ UNCHANGED <<sent, online, link, wire, up, paused, watch, stored, gaps, crashes, outages,
                     passed>>
      /\ up /\ pending = NoWork /\ pending.what = "none"
      /\ conn[c] = "accepting"
      /\ conn' = [conn EXCEPT ![c] = "open"]
      /\ row' = Ended(session) /\ session' = c
      /\ pending' = Work("start", None)
      /\ pending'.what = "start" /\ pending'.at = None
      /\ unguarded' = (unguarded \/ session # 0)
  BY DEF Accepts, Runs, NoWork, Work
<1>2. c = link /\ c # 0 /\ c \in 0 .. Connections
  BY <1>1, NumberFacts, Limits DEF LinksOrdered
<1>3. conn \in [Ids -> {"none", "accepting", "open", "closing", "ended"}]
  BY DEF TypeOK
<1>4. /\ conn' \in [Ids -> {"none", "accepting", "open", "closing", "ended"}]
      /\ \A d \in Ids : d # c => conn'[d] = conn[d]
      /\ conn'[c] = "open"
  BY <1>1, <1>3
<1>5. session \in 0 .. Connections
  BY DEF TypeOK
<1>6. row' \in [Ids -> {None} \cup 0 .. Messages] /\ Live' = {}
  <2>1. \A d \in Ids : d # session => row[d] = None
    BY <1>1 DEF RowsOfSession, Live
  <2> QED
    BY <1>1, <1>5, <2>1, EndedRow DEF Live
<1>7. TypeOK'
  <2>1. pending' \in [what : {"none", "start", "gap", "gap_and_stop", "abandoned"},
                      at : {None} \cup 0 .. Messages]
    BY <1>1 DEF Work
  <2>2. unguarded' \in BOOLEAN
    BY <1>1 DEF TypeOK
  <2>3. link' # 0 => conn'[link'] \in {"accepting", "open"}
    BY <1>1, <1>2, <1>4
  <2>4. pending'.what \in {"gap", "gap_and_stop", "abandoned"} => pending'.at # None
    BY <1>1
  <2> QED
    BY <1>1, <1>2, <1>4, <1>6, <2>1, <2>2, <2>3, <2>4 DEF TypeOK
<1>8. LinksOrdered'
  <2>1. \A d \in Ids : (conn'[d] = "none") = (conn[d] = "none")
    BY <1>1, <1>4
  <2>2. \A d \in Ids : conn'[d] = "accepting" => conn[d] = "accepting"
    BY <1>4
  <2> QED
    BY <1>1, <2>1, <2>2 DEF LinksOrdered
<1>9. Accepted' = Accepted \cup {c}
  BY <1>4 DEF Accepted
<1>10. SessionIsLast'
  <2>1. \A d \in Accepted : ~(d > c)
    BY <1>2 DEF LinksOrdered, Accepted
  <2>2. \A d \in Accepted : d \in Ids
    BY DEF Accepted
  <2>3. \A d \in Accepted : d <= c
    BY <2>1, <2>2, NumberFacts
  <2> QED
    BY <1>1, <1>2, <1>9, <2>3, NumberFacts DEF SessionIsLast
<1>11. RowsOfSession'
  BY <1>1, <1>2, <1>6 DEF RowsOfSession
<1>12. WireOrdered' /\ GapsStarted'
  BY <1>1 DEF WireOrdered, GapsStarted
<1>13. Guarded'
  <2> SUFFICES ASSUME ~unguarded, session = 0
               PROVE  Accepted' \subseteq {c} /\ OpenGapCovers' /\ LossesFollow'
    BY <1>1 DEF Guarded
  <2>1. Lost' = Lost /\ HasOpenGap' = HasOpenGap
    BY <1>1 DEF Lost, HasOpenGap
  <2>2. HasOpenGap
    BY <1>1 DEF Guarded, OpenGapCovers
  <2>3. Accepted = {}
    <3>1. Accepted \subseteq {0} /\ Accepted \subseteq Ids
      BY DEF Guarded, Accepted
    <3> QED
      BY <3>1, NumberFacts
  <2>4. OpenGapCovers'
    BY <1>1, <2>1, <2>2 DEF Guarded, OpenGapCovers
  <2>5. {session', link'} \ {0} = {session, link} \ {0}
    BY <1>1, <1>2
  <2>6. LossesFollow'
    <3>1. ASSUME NEW m, NEW d
          PROVE  /\ OnWire(m, d)' = OnWire(m, d)
                 /\ Older(m, d)' = Older(m, d)
                 /\ WillBeNoticed(m, d)' = WillBeNoticed(m, d)
      BY <1>1 DEF OnWire, Older, WillBeNoticed, Newer
    <3>2. LossesFollow
      BY DEF Guarded
    <3>3. paused' = paused /\ stored' = stored
      BY <1>1
    <3>4. ASSUME ~paused
          PROVE  /\ \A m \in Lost', x \in stored' : x < m
                 /\ \A d \in {session', link'} \ {0}, m \in Lost' :
                      OnWire(m, d)' \/ Older(m, d)' \/ WillBeNoticed(m, d)'
      <4>1. /\ \A m \in Lost, x \in stored : x < m
            /\ \A d \in {session, link} \ {0}, m \in Lost :
                 OnWire(m, d) \/ Older(m, d) \/ WillBeNoticed(m, d)
        BY <3>2, <3>4 DEF LossesFollow
      <4>2. \A x \in stored', m \in Lost' : x < m
        BY <2>1, <3>3, <4>1
      <4>3. \A d \in {session', link'} \ {0}, m \in Lost' :
              OnWire(m, d)' \/ Older(m, d)' \/ WillBeNoticed(m, d)'
        <5> TAKE d \in {session', link'} \ {0}, m \in Lost'
        <5>1. OnWire(m, d) \/ Older(m, d) \/ WillBeNoticed(m, d)
          BY <2>1, <2>5, <4>1
        <5> QED
          BY <3>1, <5>1
      <4> QED
        BY <4>2, <4>3
    <3> QED
      BY <2>1, <2>2, <3>3, <3>4 DEF LossesFollow
  <2> QED
    BY <1>9, <2>3, <2>4, <2>6
<1> QED
  BY <1>7, <1>8, <1>10, <1>11, <1>12, <1>13

(* Its row is the only live one.                                           *)
LEMMA SessionStartsKeeps ==
  ASSUME IInv, SessionStarts
  PROVE  Consistent'
<1> USE DEF IInv, Consistent
<1>1. /\ UNCHANGED <<sent, online, link, wire, conn, up, session, paused, watch, stored, gaps, crashes,
                     outages, unguarded, passed>>
      /\ up /\ pending.what = "start"
      /\ row' = [row EXCEPT ![session] = sent]
      /\ pending' = NoWork /\ pending'.what = "none" /\ pending'.at = None
  BY DEF SessionStarts, NoWork
<1>2. session # 0 /\ session \in Ids /\ Live = {}
  BY <1>1, NumberFacts DEF RowsOfSession
<1>3. row \in [Ids -> {None} \cup 0 .. Messages]
  BY DEF TypeOK
<1>4. row' \in [Ids -> {None} \cup 0 .. Messages] /\ Live' = {session}
  <2>1. row' \in [Ids -> {None} \cup 0 .. Messages]
    BY <1>1, <1>2, <1>3, NumberFacts
  <2>2. row'[session] = sent /\ sent # None
    BY <1>1, <1>2, <1>3, NumberFacts, Limits
  <2>3. \A d \in Ids : d # session => row'[d] = None
    BY <1>1, <1>2, <1>3 DEF Live
  <2> QED
    BY <1>2, <2>1, <2>2, <2>3 DEF Live
<1>5. TypeOK'
  <2>1. pending' \in [what : {"none", "start", "gap", "gap_and_stop", "abandoned"},
                      at : {None} \cup 0 .. Messages]
    BY <1>1 DEF NoWork
  <2>2. pending'.what \in {"gap", "gap_and_stop", "abandoned"} => pending'.at # None
    BY <1>1
  <2> QED
    BY <1>1, <1>4, <2>1, <2>2 DEF TypeOK
<1>6. LinksOrdered' /\ SessionIsLast' /\ WireOrdered' /\ GapsStarted'
  BY <1>1 DEF LinksOrdered, SessionIsLast, WireOrdered, GapsStarted, Accepted
<1>7. RowsOfSession'
  BY <1>1, <1>2, <1>4 DEF RowsOfSession
<1>8. Guarded'
  <2> SUFFICES ASSUME ~unguarded
               PROVE  Accepted' \subseteq {session'} /\ OpenGapCovers' /\ LossesFollow'
    BY <1>1 DEF Guarded
  <2>1. Lost' = Lost /\ HasOpenGap' = HasOpenGap /\ Accepted' = Accepted
    BY <1>1 DEF Lost, HasOpenGap, Accepted
  <2>2. OpenGapCovers'
    BY <1>1, <1>2, <2>1 DEF Guarded, OpenGapCovers
  <2>3. LossesFollow'
    BY <1>1, <2>1, FollowStill DEF Guarded
  <2> QED
    BY <1>1, <2>1, <2>2, <2>3 DEF Guarded
<1> QED
  BY <1>5, <1>6, <1>7, <1>8


(* A handler whose connection is gone ends its connection's row, and the   *)
(* session only if it is its own; then a gap is to come.                   *)
LEMMA DisconnectsKeeps ==
  ASSUME IInv, NEW c \in Ids, Disconnects(c)
  PROVE  Consistent'
<1> USE DEF IInv, Consistent
<1>1. /\ UNCHANGED <<sent, online, link, wire, up, paused, watch, stored, gaps, crashes, outages,
                     unguarded, passed>>
      /\ up /\ pending = NoWork /\ pending.what = "none"
      /\ conn[c] = "closing"
      /\ conn' = [conn EXCEPT ![c] = "ended"]
      /\ row' = Ended(c)
      /\ session = c => session' = 0 /\ pending' = Work("gap", sent)
      /\ session # c => session' = session /\ pending' = pending
  BY DEF Disconnects, EndsSession, Runs, NoWork
<1>2. session = c => pending'.what = "gap" /\ pending'.at = sent
  BY <1>1 DEF Work
<1>3. conn \in [Ids -> {"none", "accepting", "open", "closing", "ended"}]
  BY DEF TypeOK
<1>4. /\ conn' \in [Ids -> {"none", "accepting", "open", "closing", "ended"}]
      /\ \A d \in Ids : d # c => conn'[d] = conn[d]
      /\ conn'[c] = "ended"
  BY <1>1, <1>3
<1>5. c \in 0 .. Connections /\ c # 0
  BY NumberFacts, Limits DEF Ids
<1>6. row' \in [Ids -> {None} \cup 0 .. Messages] /\ Live' = Live \ {c}
  BY <1>1, <1>5, EndedRow DEF Live
<1>7. Live = IF session = 0 THEN {} ELSE {session}
  BY <1>1 DEF RowsOfSession
<1>8. TypeOK'
  <2>1. pending' \in [what : {"none", "start", "gap", "gap_and_stop", "abandoned"},
                      at : {None} \cup 0 .. Messages]
    <3>1. Work("gap", sent) \in [what : {"none", "start", "gap", "gap_and_stop", "abandoned"},
                                 at : {None} \cup 0 .. Messages]
      BY NumberFacts DEF Work
    <3> QED
      BY <1>1, <3>1 DEF TypeOK
  <2>2. pending'.what \in {"gap", "gap_and_stop", "abandoned"} => pending'.at # None
    BY <1>1, <1>2, NumberFacts, Limits
  <2>3. session' \in 0 .. Connections
    BY <1>1, Limits DEF TypeOK
  <2>4. link' # 0 => conn'[link'] \in {"accepting", "open"}
    <3>1. link # 0 => link \in Ids /\ conn[link] \in {"accepting", "open"} /\ link # c
      BY <1>1, NumberFacts DEF TypeOK
    <3> QED
      BY <1>1, <1>4, <3>1
  <2> QED
    BY <1>1, <1>4, <1>6, <2>1, <2>2, <2>3, <2>4 DEF TypeOK
<1>9. LinksOrdered'
  <2>1. \A d \in Ids : (conn'[d] = "none") = (conn[d] = "none")
    BY <1>1, <1>4
  <2>2. \A d \in Ids : conn'[d] = "accepting" => conn[d] = "accepting"
    BY <1>4
  <2> QED
    BY <1>1, <2>1, <2>2 DEF LinksOrdered
<1>10. Accepted' = Accepted \ {c} /\ c \in Accepted
  BY <1>1, <1>4 DEF Accepted
<1>11. SessionIsLast'
  <2>1. \A d \in Accepted : d \in Ids
    BY DEF Accepted
  <2>2. CASE session = c
    <3>1. \A d \in Accepted' : d < c
      BY <1>10, <2>1, <2>2, <1>5, NumberFacts DEF SessionIsLast
    <3> QED
      BY <1>1, <1>4, <2>2, <3>1 DEF SessionIsLast
  <2>3. CASE session # c
    <3>1. \A d \in Ids : conn[d] = "ended" => conn'[d] = "ended"
      BY <1>4
    <3> QED
      BY <1>1, <1>10, <2>3, <3>1 DEF SessionIsLast
  <2> QED
    BY <2>2, <2>3
<1>12. RowsOfSession'
  <2>1. Live' = (IF session' = 0 THEN {} ELSE {session'})
    BY <1>1, <1>5, <1>6, <1>7
  <2>2. pending'.what \in {"none", "gap"} /\ (pending'.what = "gap" => session' = 0)
    BY <1>1, <1>2
  <2> QED
    BY <1>1, <2>1, <2>2 DEF RowsOfSession
<1>13. WireOrdered' /\ GapsStarted'
  BY <1>1 DEF WireOrdered, GapsStarted
<1>14. Guarded'
  <2> SUFFICES ASSUME ~unguarded
               PROVE  Accepted' \subseteq {session'} /\ OpenGapCovers' /\ LossesFollow'
    BY <1>1 DEF Guarded
  <2>1. Lost' = Lost /\ HasOpenGap' = HasOpenGap
    BY <1>1 DEF Lost, HasOpenGap
  <2>2. session = c
    BY <1>10 DEF Guarded
  <2>3. Accepted' \subseteq {session'}
    BY <1>10, <2>2 DEF Guarded
  <2>4. OpenGapCovers'
    BY <1>1, <1>2, <2>1, <2>2 DEF Guarded, OpenGapCovers
  <2>5. LossesFollow'
    BY <1>1, <2>1, <2>2, FollowStill DEF Guarded
  <2> QED
    BY <2>3, <2>4, <2>5
<1> QED
  BY <1>8, <1>9, <1>11, <1>12, <1>13, <1>14

(* The gap of an ended session covers all that was lost.                   *)
LEMMA OpensGapKeeps ==
  ASSUME IInv, OpensGap
  PROVE  Consistent'
<1> USE DEF IInv, Consistent
<1>1. /\ UNCHANGED <<sent, online, link, wire, conn, session, row, paused, watch, stored, crashes,
                     outages, unguarded, passed>>
      /\ up /\ pending.what \in {"gap", "gap_and_stop"}
      /\ gaps' = Opened(pending.at)
      /\ up' = (pending.what = "gap")
      /\ pending' = NoWork /\ pending'.what = "none" /\ pending'.at = None
  BY DEF OpensGap, NoWork
<1>2. pending.at \in 0 .. Messages
  BY <1>1 DEF TypeOK
<1>3. session = 0 /\ Live = {} /\ (pending.what = "gap_and_stop" => link = 0 /\ Accepted = {})
  BY <1>1 DEF RowsOfSession
<1>4. gaps' \subseteq GapRecords /\ GapsStarted'
  <2>1. \A g \in gaps' : g.before <= sent
    BY <1>1, <1>2, OpenedGap, NumberFacts DEF GapsStarted
  <2> QED
    BY <1>1, <1>2, <2>1, OpenedGap DEF GapsStarted
<1>5. TypeOK'
  <2>1. pending' \in [what : {"none", "start", "gap", "gap_and_stop", "abandoned"},
                      at : {None} \cup 0 .. Messages]
    BY <1>1 DEF NoWork
  <2>2. up' \in BOOLEAN
    BY <1>1
  <2>3. pending'.what \notin {"gap", "gap_and_stop", "abandoned"}
    BY <1>1
  <2> QED
    BY <1>1, <1>4, <2>1, <2>2, <2>3 DEF TypeOK, GapRecords
<1>6. LinksOrdered' /\ SessionIsLast' /\ WireOrdered' /\ Live' = Live /\ Accepted' = Accepted
  BY <1>1 DEF LinksOrdered, SessionIsLast, WireOrdered, Accepted, Live
<1>7. RowsOfSession'
  BY <1>1, <1>3, <1>6 DEF RowsOfSession
<1>8. Guarded'
  <2> SUFFICES ASSUME ~unguarded
               PROVE  Accepted' \subseteq {session'} /\ OpenGapCovers' /\ LossesFollow'
    BY <1>1 DEF Guarded
  <2>1. /\ Lost' \subseteq Lost
        /\ HasOpenGap'
        /\ \A g \in gaps' : OpenEnded(g) => \A m \in Lost' : m > g.before
    BY <1>1, <1>2, OpenedLosses DEF Guarded, OpenGapCovers, LossesFollow
  <2>2. OpenGapCovers'
    BY <2>1 DEF OpenGapCovers
  <2>3. LossesFollow'
    BY <1>1, <2>1, FollowStill DEF Guarded
  <2> QED
    BY <1>1, <1>6, <2>2, <2>3 DEF Guarded
<1> QED
  BY <1>4, <1>5, <1>6, <1>7, <1>8

(* A page stores newer messages than those that are still lost only if     *)
(* those come later.                                                       *)
LEMMA PageStoredKeeps ==
  ASSUME IInv, PageStored
  PROVE  Consistent'
<1> USE DEF IInv, Consistent
<1>1. PICK n \in 1 .. sent : /\ stored' = stored \cup HistoryPage(n)
                             /\ passed' = (passed \cup 1 .. n) \ stored'
  BY DEF PageStored
<1>2. UNCHANGED <<sent, online, link, wire, conn, up, session, row, paused, watch, pending, gaps,
                  crashes, outages, unguarded>>
  BY DEF PageStored
<1>3. n \in Nat /\ n <= sent /\ sent \in Nat /\ 1 .. n \subseteq 1 .. sent
  BY NumberFacts
<1>4. HistoryPage(n) \subseteq 1 .. n
  BY DEF HistoryPage
<1>5. TypeOK'
  <2>1. stored' \subseteq 1 .. sent'
    BY <1>1, <1>2, <1>3, <1>4 DEF TypeOK
  <2>2. passed' \subseteq (1 .. sent') \ stored'
    BY <1>1, <1>2, <1>3 DEF TypeOK
  <2> QED
    BY <1>2, <2>1, <2>2 DEF TypeOK
<1>6. LinksOrdered' /\ SessionIsLast' /\ RowsOfSession' /\ WireOrdered' /\ GapsStarted'
  BY <1>2 DEF LinksOrdered, SessionIsLast, RowsOfSession, WireOrdered, GapsStarted, Accepted, Live
<1>7. ASSUME ~unguarded PROVE Accepted' \subseteq {session'} /\ OpenGapCovers' /\ LossesFollow'
  <2>1. \A m \in Lost' : m \in Lost /\ m \notin 1 .. n
    BY <1>1, <1>2 DEF Lost
  <2>2. \A m \in Lost' : m \in Lost /\ n < m
    BY <1>3, <2>1, NumberFacts
  <2>3. HasOpenGap' = HasOpenGap /\ Accepted' = Accepted /\ Live' = Live
    BY <1>2 DEF HasOpenGap, Accepted, Live
  <2>4. OpenGapCovers'
    BY <1>2, <1>7, <2>2, <2>3 DEF Guarded, OpenGapCovers
  <2>5. ~paused => \A m \in Lost', x \in stored' : x < m
    <3> SUFFICES ASSUME ~paused, NEW m \in Lost', NEW x \in stored' PROVE x < m
      OBVIOUS
    <3>1. CASE x \in stored
      BY <1>7, <2>2, <3>1 DEF Guarded, LossesFollow
    <3>2. CASE x \in 1 .. n
      BY <1>3, <2>2, <3>2, NumberFacts
    <3> QED
      BY <1>1, <1>4, <3>1, <3>2
  <2>6. ~paused => \A c \in {session', link'} \ {0}, m \in Lost' :
          OnWire(m, c) \/ Older(m, c) \/ WillBeNoticed(m, c)
    BY <1>2, <1>7, <2>2 DEF Guarded, LossesFollow
  <2>7. ~paused /\ ~HasOpenGap' => \A c \in {session'} \ {0}, m \in Lost' :
          OnWire(m, c) \/ WillBeNoticed(m, c)
    BY <1>2, <1>7, <2>2, <2>3 DEF Guarded, LossesFollow
  <2>8. LossesFollow'
    BY <1>2, <2>3, <2>5, <2>6, <2>7
    DEF LossesFollow, OnWire, Older, WillBeNoticed, Newer, HasOpenGap
  <2> QED
    BY <1>2, <1>7, <2>3, <2>4, <2>8 DEF Guarded
<1>8. Guarded'
  BY <1>2, <1>7 DEF Guarded
<1> QED
  BY <1>5, <1>6, <1>8

(* When the collector stops or crashes, its connections are gone.          *)
LEMMA LinksLost ==
  ASSUME IInv, ConnectionsLost, sent' = sent
  PROVE  /\ wire' \in [Ids -> Seq(Events)]
         /\ conn' \in [Ids -> {"none", "accepting", "open", "closing", "ended"}]
         /\ link' = 0 /\ link' \in 0 .. Connections
         /\ Accepted' = {} /\ LinksOrdered' /\ WireOrdered'
<1>1. conn \in [Ids -> {"none", "accepting", "open", "closing", "ended"}]
  BY DEF IInv, Consistent, TypeOK
<1>2. link' = 0 /\ link' \in 0 .. Connections
  BY Limits DEF ConnectionsLost
<1>3. wire' \in [Ids -> Seq(Events)] /\ \A c \in Ids : Len(wire'[c]) = 0
  BY DEF ConnectionsLost
<1>4. \A c \in Ids : conn'[c] = IF conn[c] = "none" THEN "none" ELSE "ended"
  BY DEF ConnectionsLost
<1>5. conn' \in [Ids -> {"none", "accepting", "open", "closing", "ended"}]
  BY DEF ConnectionsLost
<1>6. Accepted' = {}
  BY <1>4 DEF Accepted
<1>7. LinksOrdered'
  <2>1. \A c \in Ids : (conn'[c] = "none") = (conn[c] = "none") /\ conn'[c] # "accepting"
    BY <1>4
  <2> QED
    BY <1>2, <2>1 DEF IInv, Consistent, LinksOrdered
<1>8. WireOrdered'
  BY <1>3 DEF WireOrdered
<1> QED
  BY <1>2, <1>3, <1>5, <1>6, <1>7, <1>8

(* Stopping ends the session, and a gap is to come.                        *)
LEMMA StopsKeeps ==
  ASSUME IInv, Stops
  PROVE  Consistent'
<1> USE DEF IInv, Consistent
<1>1. /\ UNCHANGED <<sent, online, up, paused, stored, gaps, outages, unguarded, passed>>
      /\ up /\ pending.what = "none"
      /\ crashes < Crashes /\ crashes' = crashes + 1 /\ watch' = None
      /\ ConnectionsLost
      /\ row' = Ended(session) /\ session' = 0
      /\ pending' = Work("gap_and_stop", sent)
      /\ pending'.what = "gap_and_stop" /\ pending'.at = sent
  BY DEF Stops, Runs, NoWork, Work
<1>2. /\ wire' \in [Ids -> Seq(Events)]
      /\ conn' \in [Ids -> {"none", "accepting", "open", "closing", "ended"}]
      /\ link' = 0 /\ link' \in 0 .. Connections
      /\ Accepted' = {} /\ LinksOrdered' /\ WireOrdered'
  BY <1>1, LinksLost
<1>3. row' \in [Ids -> {None} \cup 0 .. Messages] /\ Live' = {}
  <2>1. session \in 0 .. Connections
    BY DEF TypeOK
  <2>2. \A d \in Ids : d # session => row[d] = None
    BY <1>1 DEF RowsOfSession, Live
  <2> QED
    BY <1>1, <2>1, <2>2, EndedRow DEF Live
<1>4. TypeOK'
  <2>1. pending' \in [what : {"none", "start", "gap", "gap_and_stop", "abandoned"},
                      at : {None} \cup 0 .. Messages]
    BY <1>1, NumberFacts DEF Work
  <2>2. pending'.at # None
    BY <1>1, NumberFacts, Limits
  <2>3. crashes' \in 0 .. Crashes
    BY <1>1, Limits DEF TypeOK
  <2>4. session' \in 0 .. Connections
    BY <1>1, Limits
  <2> QED
    BY <1>1, <1>2, <1>3, <2>1, <2>2, <2>3, <2>4 DEF TypeOK, Events
<1>5. SessionIsLast' /\ RowsOfSession' /\ GapsStarted'
  BY <1>1, <1>2, <1>3 DEF SessionIsLast, RowsOfSession, GapsStarted
<1>6. Guarded'
  <2> SUFFICES ASSUME ~unguarded
               PROVE  Accepted' \subseteq {session'} /\ OpenGapCovers' /\ LossesFollow'
    BY <1>1 DEF Guarded
  <2>1. Lost' = Lost /\ HasOpenGap' = HasOpenGap
    BY <1>1 DEF Lost, HasOpenGap
  <2>2. OpenGapCovers'
    BY <1>1, <2>1 DEF Guarded, OpenGapCovers
  <2>3. LossesFollow'
    BY <1>1, <1>2, <2>1 DEF Guarded, LossesFollow
  <2> QED
    BY <1>2, <2>2, <2>3
<1> QED
  BY <1>2, <1>4, <1>5, <1>6

(* A crash leaves a live row, or an open gap, unless it comes between the  *)
(* end of a session and its gap.                                           *)
LEMMA CrashedKeeps ==
  ASSUME IInv, Crashed
  PROVE  Consistent'
<1> USE DEF IInv, Consistent
<1>1. /\ UNCHANGED <<sent, online, row, paused, stored, gaps, outages, passed>>
      /\ up /\ up' = FALSE
      /\ crashes < Crashes /\ crashes' = crashes + 1 /\ watch' = None
      /\ ConnectionsLost
      /\ session' = 0
      /\ pending' = NoWork /\ pending'.what = "none" /\ pending'.at = None
      /\ unguarded' = (unguarded \/ pending.what \in {"gap", "gap_and_stop"})
  BY DEF Crashed, NoWork
<1>2. /\ wire' \in [Ids -> Seq(Events)]
      /\ conn' \in [Ids -> {"none", "accepting", "open", "closing", "ended"}]
      /\ link' = 0 /\ link' \in 0 .. Connections
      /\ Accepted' = {} /\ LinksOrdered' /\ WireOrdered'
  BY <1>1, LinksLost
<1>3. TypeOK'
  <2>1. pending' \in [what : {"none", "start", "gap", "gap_and_stop", "abandoned"},
                      at : {None} \cup 0 .. Messages]
    BY <1>1 DEF NoWork
  <2>2. pending'.what \notin {"gap", "gap_and_stop", "abandoned"}
    BY <1>1
  <2>3. crashes' \in 0 .. Crashes
    BY <1>1, Limits DEF TypeOK
  <2>4. session' \in 0 .. Connections
    BY <1>1, Limits
  <2>5. unguarded' \in BOOLEAN /\ up' \in BOOLEAN
    BY <1>1 DEF TypeOK
  <2> QED
    BY <1>1, <1>2, <2>1, <2>2, <2>3, <2>4, <2>5 DEF TypeOK, Events
<1>4. Live' = Live
  BY <1>1 DEF Live
<1>5. SessionIsLast' /\ RowsOfSession' /\ GapsStarted'
  BY <1>1, <1>2, <1>4 DEF SessionIsLast, RowsOfSession, GapsStarted
<1>6. Guarded'
  <2> SUFFICES ASSUME ~unguarded, pending.what \notin {"gap", "gap_and_stop"}
               PROVE  Accepted' \subseteq {session'} /\ OpenGapCovers' /\ LossesFollow'
    BY <1>1 DEF Guarded
  <2>1. Lost' = Lost /\ HasOpenGap' = HasOpenGap
    BY <1>1 DEF Lost, HasOpenGap
  <2>2. Live = {} => HasOpenGap
    <3>1. pending.what \in {"none", "start", "abandoned"}
      BY DEF TypeOK
    <3>2. pending.what = "none" /\ Live = {} => session = 0
      BY <1>1 DEF RowsOfSession
    <3> QED
      BY <1>1, <3>1, <3>2 DEF Guarded, OpenGapCovers, RowsOfSession
  <2>3. OpenGapCovers'
    BY <1>1, <1>4, <2>1, <2>2 DEF Guarded, OpenGapCovers
  <2>4. LossesFollow'
    BY <1>1, <1>2, <2>1 DEF Guarded, LossesFollow
  <2> QED
    BY <1>2, <2>3, <2>4
<1> QED
  BY <1>2, <1>3, <1>5, <1>6

(* The live row that a start finds is the last one there is.               *)
LEMMA LastLive ==
  ASSUME IInv, Live # {}
  PROVE  Max(Live) \in Live /\ Max(Live) \in Ids /\ row[Max(Live)] \in 0 .. Messages
<1>1. Live \in SUBSET (0 .. Connections)
  BY Limits DEF Live, Ids
<1>2. Max(Live) \in Live
  BY <1>1, MaxExists, Limits
<1>3. Max(Live) \in Ids /\ row[Max(Live)] # None
  BY <1>2 DEF Live
<1> QED
  BY <1>2, <1>3 DEF IInv, Consistent, TypeOK

(* A collector that starts has a live row to end, or an open gap.          *)
LEMMA StartsKeeps ==
  ASSUME IInv, Starts
  PROVE  Consistent'
<1> USE DEF IInv, Consistent
<1>1. /\ UNCHANGED <<sent, online, link, wire, conn, session, row, paused, watch, stored, gaps, crashes,
                     outages, unguarded, passed>>
      /\ ~up /\ up' = TRUE
      /\ pending' = Abandoned
  BY DEF Starts
<1>2. /\ Live = {} => pending'.what = "none" /\ pending'.at = None
      /\ Live # {} => pending'.what = "abandoned" /\ pending'.at = row[Max(Live)]
  BY <1>1 DEF Abandoned, NoWork, Work
<1>3. TypeOK'
  <2>1. pending' \in [what : {"none", "start", "gap", "gap_and_stop", "abandoned"},
                      at : {None} \cup 0 .. Messages]
    BY <1>1, LastLive DEF Abandoned, NoWork, Work
  <2>2. pending'.what \in {"gap", "gap_and_stop", "abandoned"} => pending'.at # None
    BY <1>2, LastLive, Limits
  <2>3. up' \in BOOLEAN
    BY <1>1
  <2> QED
    BY <1>1, <2>1, <2>2, <2>3 DEF TypeOK
<1>4. LinksOrdered' /\ SessionIsLast' /\ WireOrdered' /\ GapsStarted'
      /\ Live' = Live /\ Accepted' = Accepted
  BY <1>1 DEF LinksOrdered, SessionIsLast, WireOrdered, GapsStarted, Accepted, Live
<1>5. RowsOfSession'
  BY <1>1, <1>2, <1>4 DEF RowsOfSession
<1>6. Guarded'
  <2> SUFFICES ASSUME ~unguarded
               PROVE  Accepted' \subseteq {session'} /\ OpenGapCovers' /\ LossesFollow'
    BY <1>1 DEF Guarded
  <2>1. Lost' = Lost /\ HasOpenGap' = HasOpenGap
    BY <1>1 DEF Lost, HasOpenGap
  <2>2. OpenGapCovers'
    BY <1>1, <1>2, <2>1 DEF Guarded, OpenGapCovers
  <2>3. LossesFollow'
    BY <1>1, <2>1, FollowStill DEF Guarded
  <2> QED
    BY <1>1, <1>4, <2>2, <2>3 DEF Guarded
<1> QED
  BY <1>3, <1>4, <1>5, <1>6

(* It is the one live row, so that none is left.                           *)
LEMMA EndsAbandonedKeeps ==
  ASSUME IInv, EndsAbandoned
  PROVE  Consistent'
<1> USE DEF IInv, Consistent
<1>1. /\ UNCHANGED <<sent, online, link, wire, conn, up, session, paused, watch, stored, gaps, crashes,
                     outages, unguarded, passed>>
      /\ up /\ pending.what = "abandoned"
      /\ row' = Ended(Max(Live))
      /\ pending' = Work("gap", pending.at)
      /\ pending'.what = "gap" /\ pending'.at = pending.at
  BY DEF EndsAbandoned, Work
<1>2. session = 0 /\ Live # {}
  BY <1>1 DEF RowsOfSession
<1>3. row' \in [Ids -> {None} \cup 0 .. Messages] /\ Live' = {}
  <2>1. Max(Live) \in Live /\ Max(Live) \in 0 .. Connections
    BY <1>2, LastLive, Limits DEF Ids
  <2>2. \A d \in Ids : d # Max(Live) => row[d] = None
    BY <2>1 DEF RowsOfSession, Live
  <2> HIDE DEF Live
  <2>3. row' \in [Ids -> {None} \cup 0 .. Messages] /\ \A d \in Ids : row'[d] = None
    BY <1>1, <2>1, <2>2, EndedRow
  <2> QED
    BY <2>3 DEF Live
<1>4. TypeOK'
  <2>1. pending' \in [what : {"none", "start", "gap", "gap_and_stop", "abandoned"},
                      at : {None} \cup 0 .. Messages]
    BY <1>1 DEF TypeOK, Work
  <2>2. pending'.at # None
    BY <1>1 DEF TypeOK
  <2> QED
    BY <1>1, <1>3, <2>1, <2>2 DEF TypeOK
<1>5. LinksOrdered' /\ SessionIsLast' /\ WireOrdered' /\ GapsStarted' /\ Accepted' = Accepted
  BY <1>1 DEF LinksOrdered, SessionIsLast, WireOrdered, GapsStarted, Accepted
<1>6. RowsOfSession'
  BY <1>1, <1>2, <1>3 DEF RowsOfSession
<1>7. Guarded'
  <2> SUFFICES ASSUME ~unguarded
               PROVE  Accepted' \subseteq {session'} /\ OpenGapCovers' /\ LossesFollow'
    BY <1>1 DEF Guarded
  <2>1. Lost' = Lost /\ HasOpenGap' = HasOpenGap
    BY <1>1 DEF Lost, HasOpenGap
  <2>2. OpenGapCovers'
    BY <1>1, <2>1 DEF Guarded, OpenGapCovers
  <2>3. LossesFollow'
    BY <1>1, <2>1, FollowStill DEF Guarded
  <2> QED
    BY <1>1, <1>5, <2>2, <2>3 DEF Guarded
<1> QED
  BY <1>3, <1>4, <1>5, <1>6, <1>7

(* The gap of an outage covers all that was lost.                          *)
LEMMA WatchdogPausesKeeps ==
  ASSUME IInv, WatchdogPauses
  PROVE  Consistent'
<1> USE DEF IInv, Consistent
<1>1. /\ UNCHANGED <<sent, online, link, wire, conn, up, session, row, pending, stored, crashes,
                     outages, unguarded, passed>>
      /\ gaps' = Opened(watch) /\ paused' = TRUE /\ watch # None /\ watch' = None
  BY DEF WatchdogPauses
<1>2. watch \in 0 .. Messages
  BY <1>1, NumberFacts, Limits DEF TypeOK
<1>3. gaps' \subseteq GapRecords /\ GapsStarted'
  <2>1. \A g \in gaps' : g.before <= sent
    BY <1>1, <1>2, OpenedGap, NumberFacts DEF GapsStarted
  <2> QED
    BY <1>1, <1>2, <2>1, OpenedGap DEF GapsStarted
<1>4. TypeOK'
  <2>1. paused' \in BOOLEAN
    BY <1>1
  <2> QED
    BY <1>1, <1>3, <2>1 DEF TypeOK, GapRecords
<1>5. LinksOrdered' /\ SessionIsLast' /\ RowsOfSession' /\ WireOrdered' /\ Accepted' = Accepted
  BY <1>1 DEF LinksOrdered, SessionIsLast, RowsOfSession, WireOrdered, Accepted, Live
<1>6. Guarded'
  <2> SUFFICES ASSUME ~unguarded
               PROVE  Accepted' \subseteq {session'} /\ OpenGapCovers' /\ LossesFollow'
    BY <1>1 DEF Guarded
  <2>1. /\ Lost' \subseteq Lost
        /\ HasOpenGap'
        /\ \A g \in gaps' : OpenEnded(g) => \A m \in Lost' : m > g.before
    BY <1>1, <1>2, OpenedLosses DEF Guarded, OpenGapCovers, LossesFollow
  <2>2. OpenGapCovers' /\ LossesFollow'
    BY <1>1, <2>1 DEF OpenGapCovers, LossesFollow
  <2> QED
    BY <1>1, <1>5, <2>2 DEF Guarded
<1> QED
  BY <1>3, <1>4, <1>5, <1>6

(* When QQ is back the gap is closed when the check began, and what is     *)
(* lost after that is on its way to the session or on a connection that is *)
(* still to be accepted.                                                   *)
LEMMA StillOnTheWay ==
  ASSUME IInv, ~unguarded, session # 0, NEW m \in Lost, OnTheWay(m)
  PROVE  /\ \A x \in stored : x < m
         /\ \A c \in {session, link} \ {0} : OnWire(m, c) \/ Older(m, c) \/ WillBeNoticed(m, c)
         /\ OnWire(m, session) \/ WillBeNoticed(m, session)
<1> USE DEF IInv, Consistent, WiresInOrder
<1>1. PICK d \in Ids : OnWire(m, d)
  BY DEF OnTheWay, OnWire
<1>2. PICK i \in 1 .. Len(wire[d]) : wire[d][i] = Message(m)
  BY <1>1 DEF OnWire
<1>3. wire[d][i].kind = "message" /\ wire[d][i].at = m
  BY <1>2 DEF Message
<1>4. \A x \in stored : x < m
  BY <1>2, <1>3 DEF HeardInOrder, Lost
<1>5. d = session \/ d = link
  <2>1. conn[d] \notin {"none", "ended"}
    <3>1. wire[d] # <<>>
      BY <1>2
    <3> QED
      BY <3>1 DEF UnusedEmpty
  <2>2. conn[d] \in {"open", "closing", "accepting"}
    BY <2>1 DEF TypeOK
  <2> QED
    BY <2>2 DEF LinksOrdered, Guarded, Accepted
<1>6. session \in Ids
  BY NumberFacts
<1>7. CASE link # 0 /\ link # session
  <2>1. link \in Ids /\ session < link
    <3>1. conn[session] # "none"
      BY DEF SessionIsLast, Accepted
    <3> QED
      BY <1>6, <1>7, <3>1, NumberFacts DEF LinksOrdered
  <2>2. d = session => Older(m, link)
    BY <1>2, <1>3, <1>6, <2>1 DEF WiresOrdered, Older
  <2>3. d = link => WillBeNoticed(m, session)
    <3>1. d = link => Newer(m, session)
      BY <1>2, <1>3, <1>6, <2>1 DEF WiresOrdered, Newer
    <3> QED
      BY <1>7, <3>1 DEF WillBeNoticed
  <2> QED
    BY <1>1, <1>4, <1>5, <2>2, <2>3
<1>8. CASE link = 0 \/ link = session
  BY <1>1, <1>4, <1>5, <1>8, NumberFacts
<1> QED
  BY <1>7, <1>8

LEMMA WatchdogRecoversKeeps ==
  ASSUME IInv, WatchdogRecovers
  PROVE  Consistent'
<1> USE DEF IInv, Consistent
<1>1. /\ UNCHANGED <<sent, online, link, wire, conn, up, session, row, pending, stored, crashes,
                     outages>>
      /\ up /\ pending.what = "none" /\ paused
      /\ gaps' = Closed(watch) /\ paused' = FALSE /\ watch # None /\ watch' = None
      /\ unguarded' = (unguarded \/ session = 0)
      /\ passed' = passed \cup {m \in watch + 1 .. sent : m \notin stored /\ ~OnTheWay(m)}
  BY DEF WatchdogRecovers, Runs, NoWork
<1>2. watch \in 0 .. Messages /\ watch \in Nat
  BY <1>1, NumberFacts, Limits DEF TypeOK
<1>3. gaps' \subseteq GapRecords /\ GapsStarted'
  <2>1. \A h \in Closed(watch) : \E g \in gaps : h.before = g.before
    <3>1. \A g \in gaps : [g EXCEPT !.end = watch].before = g.before
      BY DEF TypeOK
    <3> QED
      BY <3>1 DEF Closed
  <2> QED
    BY <1>1, <1>2, <2>1, ClosedGap DEF GapsStarted
<1>4. TypeOK'
  <2>1. paused' \in BOOLEAN /\ unguarded' \in BOOLEAN
    BY <1>1 DEF TypeOK
  <2>2. passed' \subseteq (1 .. sent) \ stored
    <3>1. watch + 1 .. sent \subseteq 1 .. sent
      BY <1>2, NumberFacts
    <3> QED
      BY <1>1, <3>1 DEF TypeOK
  <2> QED
    BY <1>1, <1>3, <2>1, <2>2 DEF TypeOK, GapRecords
<1>5. LinksOrdered' /\ SessionIsLast' /\ RowsOfSession' /\ WireOrdered' /\ Accepted' = Accepted
  BY <1>1 DEF LinksOrdered, SessionIsLast, RowsOfSession, WireOrdered, Accepted, Live
<1>6. Guarded'
  <2> SUFFICES ASSUME ~unguarded, session # 0
               PROVE  Accepted' \subseteq {session'} /\ OpenGapCovers' /\ LossesFollow'
    BY <1>1 DEF Guarded
  <2>1. HasOpenGap
    BY <1>1 DEF Guarded, OpenGapCovers
  <2>2. Lost' \subseteq Lost /\ ~HasOpenGap' /\ \A m \in Lost' : m > watch
    <3>1. stored \cup passed \subseteq stored' \cup passed'
      BY <1>1
    <3> QED
      BY <1>1, <1>2, <2>1, <3>1, ClosedLosses DEF Guarded, OpenGapCovers
  <2>3. \A m \in Lost' : m \in Lost /\ OnTheWay(m)
    <3> SUFFICES ASSUME NEW m \in Lost' PROVE m \in Lost /\ OnTheWay(m)
      OBVIOUS
    <3>1. m \in Lost /\ m \in watch + 1 .. sent
      BY <1>2, <2>2, NumberFacts
    <3>2. m \notin passed' /\ m \notin stored
      BY <1>1 DEF Lost
    <3> QED
      BY <1>1, <3>1, <3>2
  <2>4. OpenGapCovers'
    BY <1>1, <2>2 DEF OpenGapCovers, HasOpenGap
  <2>5. \A m \in Lost' :
          /\ \A x \in stored : x < m
          /\ \A c \in {session, link} \ {0} : OnWire(m, c) \/ Older(m, c) \/ WillBeNoticed(m, c)
          /\ OnWire(m, session) \/ WillBeNoticed(m, session)
    BY <2>3, StillOnTheWay
  <2>6. LossesFollow'
    BY <1>1, <2>5 DEF LossesFollow, OnWire, Older, WillBeNoticed, Newer
  <2> QED
    BY <1>1, <1>5, <2>4, <2>6 DEF Guarded
<1> QED
  BY <1>3, <1>4, <1>5, <1>6

(* A check that begins, or ends with nothing to do, changes nothing else.  *)
LEMMA WatchdogWaitsKeeps ==
  ASSUME IInv, watch' \in {None} \cup 0 .. sent,
         UNCHANGED <<sent, online, link, wire, conn, up, session, row, paused, pending, stored,
                     gaps, crashes, outages, unguarded, passed>>
  PROVE  IInv'
<1> USE DEF IInv, Consistent
<1>1. Lost' = Lost /\ Accepted' = Accepted /\ Live' = Live /\ HasOpenGap' = HasOpenGap
  BY DEF Lost, Accepted, Live, HasOpenGap
<1>2. TypeOK' /\ LinksOrdered' /\ SessionIsLast' /\ RowsOfSession' /\ WireOrdered' /\ GapsStarted'
  <2>1. TypeOK'
    BY DEF TypeOK
  <2>2. LinksOrdered' /\ SessionIsLast' /\ WireOrdered' /\ GapsStarted'
    BY <1>1 DEF LinksOrdered, SessionIsLast, WireOrdered, GapsStarted
  <2>3. RowsOfSession'
    BY <1>1 DEF RowsOfSession
  <2> QED
    BY <2>1, <2>2, <2>3
<1>3. OpenGapCovers => OpenGapCovers'
  BY <1>1 DEF OpenGapCovers
<1>4. LossesFollow => LossesFollow'
  BY <1>1, FollowStill
<1>5. Guarded'
  BY <1>1, <1>3, <1>4 DEF Guarded
<1>6. WiresInOrder'
  BY DEF WiresInOrder, WiresOrdered, UnusedEmpty, HeardInOrder
<1> QED
  BY <1>2, <1>5, <1>6


(* What follows the event handled.                                         *)
LEMMA EventHandled ==
  ASSUME IInv, NEW c \in Ids, wire[c] # <<>>, wire' = [wire EXCEPT ![c] = Tail(@)]
  PROVE  /\ wire' \in [Ids -> Seq(Events)]
         /\ \A d \in Ids : d # c => wire'[d] = wire[d]
         /\ Len(wire[c]) \in Nat /\ 1 \in 1 .. Len(wire[c])
         /\ Len(wire'[c]) = Len(wire[c]) - 1
         /\ \A i \in 1 .. Len(wire'[c]) :
              wire'[c][i] = wire[c][i + 1] /\ i + 1 \in 1 .. Len(wire[c])
         /\ Head(wire[c]) = wire[c][1]
<1>1. wire \in [Ids -> Seq(Events)] /\ wire[c] \in Seq(Events) /\ Len(wire[c]) \in Nat
  BY WireFacts DEF IInv, Consistent, TypeOK, Events
<1>2. wire'[c] = Tail(wire[c]) /\ \A d \in Ids : d # c => wire'[d] = wire[d]
  BY <1>1
<1>3. /\ Tail(wire[c]) \in Seq(Events)
      /\ Len(Tail(wire[c])) = Len(wire[c]) - 1
      /\ \A i \in 1 .. Len(Tail(wire[c])) : Tail(wire[c])[i] = wire[c][i + 1]
  BY <1>1, HeadTailProperties
<1>4. Len(wire[c]) # 0
  BY <1>1, EmptySeq
<1>5. wire' \in [Ids -> Seq(Events)]
  BY <1>1, <1>3
<1>6. \A i \in 1 .. Len(wire'[c]) : i + 1 \in 1 .. Len(wire[c])
  BY <1>1, <1>2, <1>3
<1>7. Head(wire[c]) = wire[c][1]
  BY <1>1
<1> QED
  BY <1>1, <1>2, <1>3, <1>4, <1>5, <1>6, <1>7

(* Of an event of the session that is a message or a sign of health, all   *)
(* that is lost afterwards comes later, when no gap was open before it.    *)
LEMMA LostLater ==
  ASSUME IInv, ~unguarded, ~paused, ~HasOpenGap, NEW c \in Ids, c = session,
         wire[c] # <<>>, wire[c][1].kind # "degraded", NEW m \in Lost,
         wire[c][1] # Message(m)
  PROVE  m > wire[c][1].at
<1>1. OnWire(m, c) \/ WillBeNoticed(m, c)
  BY NumberFacts DEF IInv, Consistent, Guarded, LossesFollow
<1>2. wire[c] \in Seq(Events) /\ Len(wire[c]) \in Nat /\ wire[c][1].at \in Nat
      /\ 1 \in 1 .. Len(wire[c])
  <2>1. wire[c] \in Seq(Events) /\ Len(wire[c]) \in Nat
    BY WireFacts
  <2>2. 1 \in 1 .. Len(wire[c])
    BY <2>1, EmptySeq
  <2> QED
    BY <2>1, <2>2, WireFacts
<1>3. CASE OnWire(m, c)
  <2>1. PICK i \in 1 .. Len(wire[c]) : wire[c][i] = Message(m)
    BY <1>3 DEF OnWire
  <2>2. 1 < i
    BY <1>2, <2>1
  <2>3. wire[c][i].kind = "message" /\ wire[c][i].at = m
    BY <2>1 DEF Message
  <2>4. wire[c][1].at < wire[c][i].at
    BY <1>2, <2>2, <2>3 DEF IInv, Consistent, WireOrdered
  <2> QED
    BY <1>2, <2>3, <2>4, NumberFacts
<1>4. CASE WillBeNoticed(m, c)
  BY <1>2, <1>4, NumberFacts DEF WillBeNoticed, Newer
<1> QED
  BY <1>1, <1>3, <1>4

(* An event of the session that is a message or a sign of health closes    *)
(* the open gap where it was sent, and what is still lost comes later.     *)
LEMMA HandlesHealthy ==
  ASSUME IInv, ~unguarded, NEW c \in Ids, c = session, wire[c] # <<>>,
         wire[c][1].kind # "degraded",
         wire' = [wire EXCEPT ![c] = Tail(@)],
         gaps' = IF paused THEN gaps ELSE Closed(wire[c][1].at),
         stored \subseteq stored', stored' \subseteq stored \cup {wire[c][1].at},
         wire[c][1].kind = "message" => wire[c][1].at \in stored',
         passed' = passed \ stored',
         UNCHANGED <<sent, online, link, up, session, pending, paused>>,
         up, pending.what = "none", Live' = Live
  PROVE  OpenGapCovers' /\ LossesFollow'
<1> USE DEF IInv, Consistent
<1> DEFINE at == wire[c][1].at
<1>1. /\ \A d \in Ids : d # c => wire'[d] = wire[d]
      /\ Len(wire[c]) \in Nat /\ 1 \in 1 .. Len(wire[c])
      /\ Len(wire'[c]) = Len(wire[c]) - 1
      /\ \A i \in 1 .. Len(wire'[c]) :
           wire'[c][i] = wire[c][i + 1] /\ i + 1 \in 1 .. Len(wire[c])
  BY EventHandled
<1>2. at \in Nat /\ at <= sent /\ at \in 0 .. Messages
  <2>1. at \in Nat /\ at <= sent
    BY <1>1, WireFacts
  <2> HIDE DEF at
  <2> QED
    BY <2>1, NumberFacts, Limits
<1>3. stored \subseteq stored' /\ stored \cup passed \subseteq stored' \cup passed'
  OBVIOUS
<1>4. \A g \in gaps : OpenEnded(g) => \A m \in Lost : m > g.before
  BY DEF Guarded, OpenGapCovers
<1>5. CASE paused
  <2>1. gaps' = gaps
    BY <1>5
  <2>2. Lost' \subseteq Lost /\ HasOpenGap' = HasOpenGap
    BY <1>3, <2>1 DEF Lost, HasOpenGap
  <2>3. OpenGapCovers'
    BY <1>4, <2>1, <2>2 DEF Guarded, OpenGapCovers
  <2> QED
    BY <1>5, <2>3 DEF LossesFollow
<1>6. CASE ~paused
  <2>1. gaps' = Closed(at)
    BY <1>6
  <2>2. Lost' \subseteq Lost /\ ~HasOpenGap' /\ (HasOpenGap => \A m \in Lost' : m > at)
    <3> HIDE DEF at
    <3> QED
      BY <1>2, <1>3, <1>4, <2>1, ClosedLosses
  <2>3. \A m \in Lost' : wire[c][1] # Message(m)
    <3>1. \A m \in Lost' : m \notin stored'
      BY DEF Lost
    <3> QED
      BY <3>1 DEF Message
  <2>4. \A m \in Lost' : m > at
    <3>1. ~HasOpenGap => \A m \in Lost' : m > at
      BY <1>6, <2>2, <2>3, LostLater
    <3> QED
      BY <2>2, <3>1
  <2>5. OpenGapCovers'
    BY <1>6, <2>2, NumberFacts DEF OpenGapCovers, HasOpenGap
  <2>6. ASSUME NEW d \in {session, link} \ {0}, NEW m \in Lost'
        PROVE  /\ OnWire(m, d)' \/ Older(m, d)' \/ WillBeNoticed(m, d)'
               /\ d = session => OnWire(m, d)' \/ WillBeNoticed(m, d)'
    <3>1. m \in Lost /\ m > at /\ wire[c][1] # Message(m)
      BY <2>2, <2>3, <2>4
    <3>2. CASE d # c
      <4>1. wire'[d] = wire[d]
        BY <1>1, <3>2, NumberFacts
      <4> QED
        BY <1>6, <3>1, <3>2, <4>1
        DEF Guarded, LossesFollow, OnWire, Older, WillBeNoticed, Newer
    <3>3. CASE d = c
      <4>1. OnWire(m, c) => OnWire(m, c)'
        <5> SUFFICES ASSUME NEW i \in 1 .. Len(wire[c]), wire[c][i] = Message(m)
                     PROVE  OnWire(m, c)'
          BY DEF OnWire
        <5>1. i - 1 \in 1 .. Len(wire'[c]) /\ i - 1 + 1 = i
          BY <1>1, <3>1
        <5>2. wire'[c][i - 1] = Message(m)
          BY <1>1, <5>1
        <5> QED
          BY <5>1, <5>2 DEF OnWire
      <4>2. ~Older(m, c)
        BY <1>1, <1>2, <3>1, NumberFacts DEF Older
      <4>3. WillBeNoticed(m, c) => WillBeNoticed(m, c)'
        BY <1>1 DEF WillBeNoticed, Newer
      <4>4. OnWire(m, c) \/ WillBeNoticed(m, c)
        BY <1>6, <3>1, <3>3, <4>2 DEF Guarded, LossesFollow
      <4> QED
        BY <3>3, <4>1, <4>3, <4>4
    <3> QED
      BY <3>2, <3>3
  <2>7. \A m \in Lost', x \in stored' : x < m
    <3> SUFFICES ASSUME NEW m \in Lost', NEW x \in stored' PROVE x < m
      OBVIOUS
    <3>1. x \in stored => x < m
      BY <1>6, <2>2 DEF Guarded, LossesFollow
    <3>2. x = at => x < m
      BY <1>2, <2>2, <2>4, NumberFacts
    <3> QED
      BY <3>1, <3>2
  <2>8. LossesFollow'
    BY <2>6, <2>7 DEF LossesFollow, OnWire, Older, WillBeNoticed, Newer
  <2> QED
    BY <2>5, <2>8
<1> QED
  BY <1>5, <1>6

(* Any event of any connection.                                            *)
LEMMA HandlesKeeps ==
  ASSUME IInv, NEW c \in Ids, Handles(c)
  PROVE  Consistent'
<1> USE DEF IInv, Consistent
<1> DEFINE event == wire[c][1]
<1>1. /\ UNCHANGED <<sent, online, link, conn, up, session, watch, pending, crashes, outages,
                     unguarded>>
      /\ up /\ pending.what = "none"
      /\ conn[c] \in {"open", "closing"}
      /\ wire[c] # <<>>
      /\ wire' = [wire EXCEPT ![c] = Tail(@)]
      /\ passed' = passed \ stored'
  BY DEF Handles, Runs, NoWork
<1>2. /\ wire' \in [Ids -> Seq(Events)]
      /\ \A d \in Ids : d # c => wire'[d] = wire[d]
      /\ Len(wire[c]) \in Nat /\ 1 \in 1 .. Len(wire[c])
      /\ \A i \in 1 .. Len(wire'[c]) :
           wire'[c][i] = wire[c][i + 1] /\ i + 1 \in 1 .. Len(wire[c])
      /\ Len(wire'[c]) = Len(wire[c]) - 1
      /\ Head(wire[c]) = event
  BY <1>1, EventHandled
<1>3. /\ event \in Events /\ event.at \in Nat /\ event.at <= sent /\ event.at \in 0 .. Messages
      /\ event.kind = "message" => event.at > 0
  <2>1. event \in Events /\ event.at \in Nat /\ event.at <= sent
    BY <1>2, WireFacts
  <2>2. event.kind = "message" => event.at > 0
    BY <1>2 DEF WireOrdered
  <2> HIDE DEF event
  <2> QED
    BY <2>1, <2>2, NumberFacts, Limits
<1>4. /\ event.kind = "message" =>
           stored' = stored \cup {event.at} /\ MarkHealthy(event.at) /\ row' = row /\ paused' = paused
      /\ event.kind = "healthy" =>
           /\ row' = IF session # 0 /\ row[session] # None
                       THEN [row EXCEPT ![session] = sent] ELSE row
           /\ MarkHealthy(event.at) /\ stored' = stored /\ paused' = paused
      /\ event.kind = "degraded" =>
           gaps' = Opened(event.at) /\ paused' = TRUE /\ stored' = stored /\ row' = row
      /\ event.kind \in {"message", "healthy", "degraded"}
  <2>1. event.kind \in {"message", "healthy", "degraded"}
    BY <1>3 DEF Events
  <2> HIDE DEF event
  <2> QED
    BY <1>2, <2>1 DEF Handles
<1> HIDE DEF event
<1>5. row' \in [Ids -> {None} \cup 0 .. Messages] /\ Live' = Live
  <2>1. row \in [Ids -> {None} \cup 0 .. Messages]
    BY DEF TypeOK
  <2>2. CASE row' = row
    BY <2>1, <2>2 DEF Live
  <2>3. CASE session # 0 /\ row[session] # None /\ row' = [row EXCEPT ![session] = sent]
    <3>1. session \in Ids /\ sent \in 0 .. Messages /\ sent # None
      BY <2>3, NumberFacts, Limits
    <3> QED
      BY <2>1, <2>3, <3>1 DEF Live
  <2> QED
    BY <1>4, <2>2, <2>3
<1>6. stored' \subseteq 1 .. sent /\ stored \subseteq stored' /\ passed' \subseteq (1 .. sent) \ stored'
  <2>1. event.kind = "message" => event.at \in 1 .. sent
    BY <1>3, NumberFacts
  <2> QED
    BY <1>1, <1>4, <2>1 DEF TypeOK
<1>7. gaps' \subseteq GapRecords /\ GapsStarted'
  <2>1. gaps' \in {gaps, Closed(event.at), Opened(event.at)}
    BY <1>4 DEF MarkHealthy
  <2>2. CASE gaps' = gaps
    BY <1>1, <2>2 DEF TypeOK, GapRecords, GapsStarted
  <2>3. CASE gaps' = Closed(event.at)
    <3>1. \A h \in Closed(event.at) : \E g \in gaps : h.before = g.before
      <4>1. \A g \in gaps : [g EXCEPT !.end = event.at].before = g.before
        BY DEF TypeOK
      <4> QED
        BY <4>1 DEF Closed
    <3> QED
      BY <1>1, <1>3, <2>3, <3>1, ClosedGap DEF GapsStarted
  <2>4. CASE gaps' = Opened(event.at)
    <3>1. \A g \in gaps' : g.before <= sent
      BY <1>3, <2>4, OpenedGap, NumberFacts DEF GapsStarted
    <3> QED
      BY <1>1, <1>3, <2>4, <3>1, OpenedGap DEF GapsStarted
  <2> QED
    BY <2>1, <2>2, <2>3, <2>4
<1>8. TypeOK'
  <2>1. paused' \in BOOLEAN
    BY <1>4 DEF TypeOK
  <2> QED
    BY <1>1, <1>2, <1>5, <1>6, <1>7, <2>1 DEF TypeOK, GapRecords, Events
<1>9. LinksOrdered' /\ SessionIsLast' /\ Accepted' = Accepted
  BY <1>1 DEF LinksOrdered, SessionIsLast, Accepted
<1>10. RowsOfSession'
  BY <1>1, <1>5, <1>9 DEF RowsOfSession
<1>11. WireOrdered'
  <2>1. \A d \in Ids \ {c} :
          /\ \A i \in 1 .. Len(wire'[d]) :
               wire'[d][i].at <= sent' /\ (wire'[d][i].kind = "message" => wire'[d][i].at > 0)
          /\ \A i, j \in 1 .. Len(wire'[d]) : i < j =>
               /\ wire'[d][i].at <= wire'[d][j].at
               /\ wire'[d][j].kind = "message" => wire'[d][i].at < wire'[d][j].at
    BY <1>1, <1>2 DEF WireOrdered
  <2>2. \A i, j \in 1 .. Len(wire'[c]) : i < j => i + 1 < j + 1
    BY <1>2
  <2>3. /\ \A i \in 1 .. Len(wire'[c]) :
             wire'[c][i].at <= sent' /\ (wire'[c][i].kind = "message" => wire'[c][i].at > 0)
        /\ \A i, j \in 1 .. Len(wire'[c]) : i < j =>
             /\ wire'[c][i].at <= wire'[c][j].at
             /\ wire'[c][j].kind = "message" => wire'[c][i].at < wire'[c][j].at
    <3>1. /\ \A i \in 1 .. Len(wire[c]) :
               wire[c][i].at <= sent /\ (wire[c][i].kind = "message" => wire[c][i].at > 0)
          /\ \A i, j \in 1 .. Len(wire[c]) : i < j =>
               /\ wire[c][i].at <= wire[c][j].at
               /\ wire[c][j].kind = "message" => wire[c][i].at < wire[c][j].at
      BY DEF WireOrdered
    <3>2. \A i \in 1 .. Len(wire'[c]) :
             wire'[c][i].at <= sent' /\ (wire'[c][i].kind = "message" => wire'[c][i].at > 0)
      BY <1>1, <1>2, <3>1
    <3>3. \A i, j \in 1 .. Len(wire'[c]) : i < j =>
             /\ wire[c][i + 1].at <= wire[c][j + 1].at
             /\ wire[c][j + 1].kind = "message" => wire[c][i + 1].at < wire[c][j + 1].at
      BY <1>2, <2>2, <3>1
    <3> QED
      BY <1>2, <3>2, <3>3
  <2> QED
    BY <2>1, <2>3 DEF WireOrdered
<1>12. ASSUME ~unguarded PROVE Accepted' \subseteq {session'} /\ OpenGapCovers' /\ LossesFollow'
  <2>1. c = session
    BY <1>1, <1>12 DEF Guarded, Accepted
  <2>2. CASE event.kind # "degraded"
    <3>1. /\ gaps' = (IF paused THEN gaps ELSE Closed(event.at)) /\ paused' = paused
          /\ stored' \subseteq stored \cup {event.at}
          /\ event.kind = "message" => event.at \in stored'
      BY <1>4, <2>2 DEF MarkHealthy
    <3>2. /\ UNCHANGED <<sent, online, link, up, session, pending, paused>>
          /\ wire[c] # <<>> /\ wire' = [wire EXCEPT ![c] = Tail(@)]
          /\ passed' = passed \ stored' /\ up /\ pending.what = "none"
          /\ stored \subseteq stored' /\ Live' = Live
      BY <1>1, <1>5, <1>6, <3>1
    <3>3. OpenGapCovers' /\ LossesFollow'
      BY <1>12, <2>1, <2>2, <3>1, <3>2, HandlesHealthy DEF event
    <3> QED
      BY <1>1, <1>9, <1>12, <3>3 DEF Guarded
  <2>3. CASE event.kind = "degraded"
    <3>1. passed' = passed /\ stored' = stored /\ gaps' = Opened(event.at) /\ paused'
      BY <1>1, <1>4, <2>3 DEF TypeOK
    <3>2. /\ Lost' \subseteq Lost
          /\ HasOpenGap'
          /\ \A g \in gaps' : OpenEnded(g) => \A m \in Lost' : m > g.before
      BY <1>1, <1>3, <1>12, <3>1, OpenedLosses DEF Guarded, OpenGapCovers, LossesFollow
    <3> QED
      BY <1>1, <1>9, <1>12, <3>1, <3>2 DEF Guarded, OpenGapCovers, LossesFollow
  <2> QED
    BY <1>1, <1>9, <1>12, <2>2, <2>3 DEF Guarded
<1>13. Guarded'
  BY <1>1, <1>12 DEF Guarded
<1> QED
  BY <1>7, <1>8, <1>9, <1>10, <1>11, <1>13


-----------------------------------------------------------------------------
(* The order of the events on all connections                              *)

(* Steps that leave the connections as they are, or accept or end one.     *)
LEMMA WiresAsTheyAre ==
  ASSUME IInv, wire' = wire, conn' = conn, stored' = stored, passed \subseteq passed',
         unguarded => unguarded'
  PROVE  WiresInOrder'
BY DEF IInv, WiresInOrder, WiresOrdered, UnusedEmpty, HeardInOrder

LEMMA AcceptsInOrder ==
  ASSUME IInv, NEW c \in Ids, Accepts(c)
  PROVE  WiresInOrder'
<1>1. \A d \in Ids : conn'[d] \in {"none", "ended"} => conn[d] \in {"none", "ended"}
  BY DEF Accepts, IInv, Consistent, TypeOK
<1> QED
  BY <1>1 DEF Accepts, IInv, WiresInOrder, WiresOrdered, UnusedEmpty, HeardInOrder

LEMMA DisconnectsInOrder ==
  ASSUME IInv, NEW c \in Ids, Disconnects(c)
  PROVE  WiresInOrder'
<1>1. wire[c] = <<>> /\ \A d \in Ids \ {c} : conn'[d] = conn[d]
  BY DEF Disconnects, IInv, Consistent, TypeOK
<1> QED
  BY <1>1 DEF Disconnects, IInv, WiresInOrder, WiresOrdered, UnusedEmpty, HeardInOrder

LEMMA LostInOrder ==
  ASSUME ConnectionsLost
  PROVE  WiresInOrder'
<1>1. \A c \in Ids : wire'[c] = <<>> /\ Len(wire'[c]) = 0
  BY DEF ConnectionsLost
<1> QED
  BY <1>1 DEF WiresInOrder, WiresOrdered, UnusedEmpty, HeardInOrder

(* What a page stores is older than what it has not passed over.           *)
LEMMA PageStoredInOrder ==
  ASSUME IInv, PageStored
  PROVE  WiresInOrder'
<1> USE DEF IInv, WiresInOrder
<1>1. PICK n \in 1 .. sent : /\ stored' = stored \cup HistoryPage(n)
                             /\ passed' = (passed \cup 1 .. n) \ stored'
  BY DEF PageStored
<1>2. wire' = wire /\ conn' = conn /\ unguarded' = unguarded
  BY DEF PageStored
<1>3. n \in Nat /\ HistoryPage(n) \subseteq 1 .. n
  BY NumberFacts DEF HistoryPage
<1>4. ASSUME ~unguarded PROVE HeardInOrder'
  <2> SUFFICES ASSUME NEW c \in Ids, NEW i \in 1 .. Len(wire[c]), wire[c][i].kind = "message",
                      wire[c][i].at \notin stored' \cup passed', NEW x \in stored'
               PROVE  x < wire[c][i].at
    BY <1>2 DEF HeardInOrder
  <2>1. wire[c][i].at \in Nat /\ wire[c][i].at > 0
    BY WireFacts DEF Consistent, WireOrdered
  <2>2. wire[c][i].at \notin 1 .. n /\ wire[c][i].at \notin stored \cup passed
    BY <1>1
  <2>3. n < wire[c][i].at
    BY <1>3, <2>1, <2>2
  <2>4. CASE x \in stored
    BY <1>4, <2>2, <2>4 DEF HeardInOrder
  <2>5. CASE x \in 1 .. n
    BY <1>3, <2>1, <2>3, <2>5
  <2> QED
    BY <1>1, <1>3, <2>4, <2>5
<1> QED
  BY <1>2, <1>4 DEF WiresOrdered, UnusedEmpty

(* Of the events on each connection some later part, or an earlier one.    *)
LEMMA FewerInOrder ==
  ASSUME IInv, NEW c \in Ids, \A d \in Ids \ {c} : wire'[d] = wire[d],
         NEW k \in Nat,
         \A i \in 1 .. Len(wire'[c]) :
           wire'[c][i] = wire[c][i + k] /\ i + k \in 1 .. Len(wire[c])
  PROVE  /\ WiresOrdered'
         /\ \A d \in Ids : \A i \in 1 .. Len(wire'[d]) :
              \E j \in 1 .. Len(wire[d]) : wire'[d][i] = wire[d][j]
<1>1. \A d \in Ids : \A i \in 1 .. Len(wire'[d]) :
        \E j \in 1 .. Len(wire[d]) : wire'[d][i] = wire[d][j]
  <2>1. ASSUME NEW d \in Ids, NEW i \in 1 .. Len(wire'[d])
        PROVE  \E j \in 1 .. Len(wire[d]) : wire'[d][i] = wire[d][j]
    <3>1. CASE d = c
      BY <3>1
    <3>2. CASE d # c
      BY <3>2
    <3> QED
      BY <3>1, <3>2
  <2> QED
    BY <2>1
<1>2. WiresOrdered'
  <2> SUFFICES ASSUME NEW d \in Ids, NEW e \in Ids, d < e,
                      NEW i \in 1 .. Len(wire'[d]), NEW j \in 1 .. Len(wire'[e])
               PROVE  /\ wire'[d][i].at <= wire'[e][j].at
                      /\ wire'[e][j].kind = "message" => wire'[d][i].at < wire'[e][j].at
    BY DEF WiresOrdered
  <2>1. PICK x \in 1 .. Len(wire[d]) : wire'[d][i] = wire[d][x]
    BY <1>1
  <2>2. PICK y \in 1 .. Len(wire[e]) : wire'[e][j] = wire[e][y]
    BY <1>1
  <2>3. /\ wire[d][x].at <= wire[e][y].at
        /\ wire[e][y].kind = "message" => wire[d][x].at < wire[e][y].at
    BY DEF IInv, WiresInOrder, WiresOrdered
  <2> QED
    BY <2>1, <2>2, <2>3
<1> QED
  BY <1>1, <1>2

LEMMA BreaksInOrder ==
  ASSUME IInv, Breaks
  PROVE  WiresInOrder'
<1> USE DEF IInv, WiresInOrder
<1>1. /\ link \in Ids /\ stored' = stored /\ passed' = passed /\ unguarded' = unguarded
      /\ conn' = [conn EXCEPT ![link] = IF @ = "open" THEN "closing" ELSE "ended"]
  BY NumberFacts DEF Breaks
<1>2. PICK n \in 0 .. (IF conn[link] = "open" THEN Len(wire[link]) ELSE 0) :
        wire' = [wire EXCEPT ![link] = SubSeq(@, 1, n)]
  BY DEF Breaks
<1>3. wire \in [Ids -> Seq(Events)] /\ wire[link] \in Seq(Events) /\ Len(wire[link]) \in Nat
  BY <1>1, WireFacts DEF Consistent, TypeOK, Events
<1>4. n \in Nat /\ n <= Len(wire[link]) /\ (conn[link] # "open" => n = 0)
  BY <1>2, <1>3
<1>5. /\ \A d \in Ids \ {link} : wire'[d] = wire[d] /\ conn'[d] = conn[d]
      /\ wire'[link] = SubSeq(wire[link], 1, n)
      /\ conn'[link] = IF conn[link] = "open" THEN "closing" ELSE "ended"
  BY <1>1, <1>2, <1>3 DEF Consistent, TypeOK
<1>6. /\ SubSeq(wire[link], 1, n) \in Seq(Events)
      /\ Len(SubSeq(wire[link], 1, n)) = n
      /\ \A i \in 1 .. n : SubSeq(wire[link], 1, n)[i] = wire[link][i]
  BY <1>3, <1>4
<1>7. \A i \in 1 .. Len(wire'[link]) :
        wire'[link][i] = wire[link][i + 0] /\ i + 0 \in 1 .. Len(wire[link])
  BY <1>3, <1>4, <1>5, <1>6
<1>8. /\ WiresOrdered'
      /\ \A d \in Ids : \A i \in 1 .. Len(wire'[d]) :
           \E j \in 1 .. Len(wire[d]) : wire'[d][i] = wire[d][j]
  BY <1>1, <1>5, <1>7, FewerInOrder
<1>9. ~unguarded => HeardInOrder'
  BY <1>1, <1>8 DEF HeardInOrder
<1>10. UnusedEmpty'
  <2>1. conn'[link] = "ended" => wire'[link] = <<>>
    <3>1. conn'[link] = "ended" => n = 0
      BY <1>4, <1>5
    <3>2. n = 0 => wire'[link] = <<>>
      BY <1>5, <1>6, EmptySeq
    <3> QED
      BY <3>1, <3>2
  <2>2. conn'[link] # "none"
    BY <1>5
  <2> QED
    BY <1>5, <2>1, <2>2 DEF UnusedEmpty
<1> QED
  BY <1>1, <1>8, <1>9, <1>10

(* One event more on the connection NapCat sends on, the last there is.    *)
LEMMA MoreInOrder ==
  ASSUME IInv, NEW event \in Events, Sends(event), conn' = conn,
         link # 0 => link \in Ids /\ conn[link] \in {"accepting", "open"},
         \A c \in Ids : \A i \in 1 .. Len(wire[c]) :
           /\ wire[c][i].at <= event.at
           /\ event.kind = "message" => wire[c][i].at < event.at
  PROVE  /\ WiresOrdered' /\ UnusedEmpty'
         /\ \A c \in Ids : \A i \in 1 .. Len(wire'[c]) :
              wire'[c][i] = event \/ \E j \in 1 .. Len(wire[c]) : wire'[c][i] = wire[c][j]
<1> USE DEF IInv, WiresInOrder
<1>1. CASE wire' = wire
  BY <1>1 DEF WiresOrdered, UnusedEmpty
<1>2. CASE wire' # wire
  <2>1. link \in Ids /\ wire' = [wire EXCEPT ![link] = Append(@, event)]
    BY <1>2 DEF Sends
  <2>2. wire \in [Ids -> Seq(Events)] /\ wire[link] \in Seq(Events) /\ Len(wire[link]) \in Nat
    BY <2>1, WireFacts DEF Consistent, TypeOK, Events
  <2>3. /\ wire'[link] = Append(wire[link], event)
        /\ \A d \in Ids \ {link} : wire'[d] = wire[d]
    BY <2>1, <2>2
  <2>4. /\ Len(wire'[link]) = Len(wire[link]) + 1
        /\ \A i \in 1 .. Len(wire[link]) : wire'[link][i] = wire[link][i]
        /\ wire'[link][Len(wire[link]) + 1] = event
        /\ \A i \in 1 .. Len(wire'[link]) : i \in 1 .. Len(wire[link]) \/ i = Len(wire[link]) + 1
    BY <2>2, <2>3, AppendProperties
  <2>5. \A d \in Ids : d > link => wire'[d] = <<>>
    <3>1. link # 0 /\ \A d \in Ids : d > link => d # link
      BY <2>1, NumberFacts
    <3> QED
      BY <2>1, <2>3, <3>1 DEF Consistent, LinksOrdered, UnusedEmpty
  <2>6. \A c \in Ids : \A i \in 1 .. Len(wire'[c]) :
          (c = link /\ wire'[c][i] = event) \/ \E j \in 1 .. Len(wire[c]) : wire'[c][i] = wire[c][j]
    <3>1. \A i \in 1 .. Len(wire'[link]) :
            wire'[link][i] = event \/ \E j \in 1 .. Len(wire[link]) : wire'[link][i] = wire[link][j]
      BY <2>4
    <3>2. \A c \in Ids \ {link} : \A i \in 1 .. Len(wire'[c]) :
            \E j \in 1 .. Len(wire[c]) : wire'[c][i] = wire[c][j]
      BY <2>3
    <3> QED
      BY <2>1, <3>1, <3>2
  <2>7. UnusedEmpty'
    BY <2>1, <2>3, NumberFacts DEF UnusedEmpty
  <2>8. WiresOrdered'
    <3> SUFFICES ASSUME NEW d \in Ids, NEW e \in Ids, d < e,
                        NEW i \in 1 .. Len(wire'[d]), NEW j \in 1 .. Len(wire'[e])
                 PROVE  /\ wire'[d][i].at <= wire'[e][j].at
                        /\ wire'[e][j].kind = "message" => wire'[d][i].at < wire'[e][j].at
      BY DEF WiresOrdered
    <3>1. d # link
      BY <2>1, <2>5, NumberFacts
    <3>2. PICK x \in 1 .. Len(wire[d]) : wire'[d][i] = wire[d][x]
      BY <2>6, <3>1
    <3>3. CASE wire'[e][j] = event
      BY <3>2, <3>3
    <3>4. CASE \E y \in 1 .. Len(wire[e]) : wire'[e][j] = wire[e][y]
      BY <3>2, <3>4 DEF WiresOrdered
    <3> QED
      BY <2>6, <3>3, <3>4
  <2> QED
    BY <2>6, <2>7, <2>8
<1> QED
  BY <1>1, <1>2

LEMMA HeartbeatSentInOrder ==
  ASSUME IInv, HeartbeatSent
  PROVE  WiresInOrder'
<1> USE DEF IInv, WiresInOrder
<1> DEFINE h == Heartbeat(online)
<1>1. h \in Events /\ h.at = sent /\ h.kind # "message" /\ Sends(h)
  BY NumberFacts DEF Heartbeat, Events, HeartbeatSent
<1>2. conn' = conn /\ stored' = stored /\ passed' = passed /\ unguarded' = unguarded
  BY DEF HeartbeatSent
<1>3. link # 0 => link \in Ids /\ conn[link] \in {"accepting", "open"}
  BY NumberFacts DEF Consistent, TypeOK
<1> HIDE DEF h
<1>4. /\ WiresOrdered' /\ UnusedEmpty'
      /\ \A c \in Ids : \A i \in 1 .. Len(wire'[c]) :
           wire'[c][i] = h \/ \E j \in 1 .. Len(wire[c]) : wire'[c][i] = wire[c][j]
  BY <1>1, <1>2, <1>3, WireFacts, MoreInOrder
<1>5. ~unguarded => HeardInOrder'
  BY <1>1, <1>2, <1>4 DEF HeardInOrder
<1> QED
  BY <1>2, <1>4, <1>5

LEMMA MessageSentInOrder ==
  ASSUME IInv, MessageSent
  PROVE  WiresInOrder'
<1> USE DEF IInv, WiresInOrder
<1> DEFINE n == sent + 1
<1>1. n \in 0 .. Messages /\ sent < n
  BY NumberFacts, Limits DEF MessageSent
<1>2. Message(n) \in Events /\ Message(n).at = n /\ Sends(Message(n))
  BY <1>1 DEF Message, Events, MessageSent
<1>3. conn' = conn /\ stored' = stored /\ passed' = passed /\ unguarded' = unguarded
  BY DEF MessageSent
<1>4. link # 0 => link \in Ids /\ conn[link] \in {"accepting", "open"}
  BY NumberFacts DEF Consistent, TypeOK
<1>5. \A c \in Ids : \A i \in 1 .. Len(wire[c]) : wire[c][i].at < n /\ wire[c][i].at <= n
  BY WireFacts, NumberFacts
<1>6. \A x \in stored : x < n
  BY NumberFacts
<1> HIDE DEF n
<1>7. /\ WiresOrdered' /\ UnusedEmpty'
      /\ \A c \in Ids : \A i \in 1 .. Len(wire'[c]) :
           wire'[c][i] = Message(n) \/ \E j \in 1 .. Len(wire[c]) : wire'[c][i] = wire[c][j]
  BY <1>2, <1>3, <1>4, <1>5, MoreInOrder
<1>8. ~unguarded => HeardInOrder'
  BY <1>2, <1>3, <1>6, <1>7 DEF HeardInOrder
<1> QED
  BY <1>3, <1>7, <1>8

(* A new connection comes last, with an event that is.                     *)
LEMMA ConnectsInOrder ==
  ASSUME IInv, Connects
  PROVE  WiresInOrder'
<1> USE DEF IInv, WiresInOrder
<1> DEFINE h == Heartbeat(TRUE)
<1>1. PICK c \in Ids :
        /\ conn[c] = "none"
        /\ conn' = [conn EXCEPT ![c] = "accepting"]
        /\ wire' = [wire EXCEPT ![c] = <<h>>]
  BY DEF Connects
<1>2. stored' = stored /\ passed' = passed /\ unguarded' = unguarded
  BY DEF Connects
<1>3. h.at = sent /\ h.kind = "healthy"
  BY DEF Heartbeat
<1> HIDE DEF h
<1>4. /\ \A d \in Ids \ {c} : wire'[d] = wire[d] /\ conn'[d] = conn[d]
      /\ wire'[c] = <<h>> /\ conn'[c] = "accepting"
  BY <1>1 DEF Consistent, TypeOK
<1>5. Len(wire'[c]) = 1 /\ wire'[c][1] = h /\ \A i \in 1 .. Len(wire'[c]) : i = 1
  BY <1>4
<1>6. \A d \in Ids : d > c => wire'[d] = <<>>
  <2>1. \A d \in Ids : d > c => d # c
    BY NumberFacts
  <2> QED
    BY <1>1, <1>4, <2>1, NumberFacts DEF Consistent, LinksOrdered, UnusedEmpty
<1>7. WiresOrdered'
  <2> SUFFICES ASSUME NEW d \in Ids, NEW e \in Ids, d < e,
                      NEW i \in 1 .. Len(wire'[d]), NEW j \in 1 .. Len(wire'[e])
               PROVE  /\ wire'[d][i].at <= wire'[e][j].at
                      /\ wire'[e][j].kind = "message" => wire'[d][i].at < wire'[e][j].at
    BY DEF WiresOrdered
  <2>1. d # c
    BY <1>6, NumberFacts
  <2>2. CASE e = c
    <3>1. wire'[e][j] = h /\ wire'[d] = wire[d] /\ i \in 1 .. Len(wire[d])
      BY <1>4, <1>5, <2>1, <2>2
    <3> QED
      BY <1>3, <3>1, WireFacts
  <2>3. CASE e # c
    BY <1>4, <2>1, <2>3 DEF WiresOrdered
  <2> QED
    BY <2>2, <2>3
<1>8. ~unguarded => HeardInOrder'
  <2> SUFFICES ASSUME ~unguarded, NEW d \in Ids, NEW i \in 1 .. Len(wire'[d]),
                      wire'[d][i].kind = "message",
                      wire'[d][i].at \notin stored \cup passed, NEW x \in stored
               PROVE  x < wire'[d][i].at
    BY <1>2 DEF HeardInOrder
  <2>1. d # c
    BY <1>3, <1>5
  <2> QED
    BY <1>4, <2>1 DEF HeardInOrder
<1>9. UnusedEmpty'
  BY <1>4 DEF UnusedEmpty
<1> QED
  BY <1>2, <1>7, <1>8, <1>9

(* The messages of the session are heard before those of a connection      *)
(* that is still to be accepted.                                           *)
LEMMA HandlesInOrder ==
  ASSUME IInv, NEW c \in Ids, Handles(c)
  PROVE  WiresInOrder'
<1> USE DEF IInv, WiresInOrder
<1> DEFINE event == wire[c][1]
<1>1. /\ conn' = conn /\ unguarded' = unguarded /\ conn[c] \in {"open", "closing"}
      /\ wire[c] # <<>> /\ wire' = [wire EXCEPT ![c] = Tail(@)]
      /\ passed' = passed \ stored'
  BY DEF Handles
<1>2. /\ \A d \in Ids : d # c => wire'[d] = wire[d]
      /\ Len(wire[c]) \in Nat /\ 1 \in 1 .. Len(wire[c])
      /\ \A i \in 1 .. Len(wire'[c]) :
           wire'[c][i] = wire[c][i + 1] /\ i + 1 \in 1 .. Len(wire[c])
      /\ Head(wire[c]) = event
  BY <1>1, EventHandled
<1>3. event \in Events /\ event.at \in Nat
  BY <1>2, WireFacts
<1>4. stored' = stored \/ stored' = stored \cup {event.at}
  <2>1. event.kind \in {"message", "healthy", "degraded"}
    BY <1>3 DEF Events
  <2> HIDE DEF event
  <2> QED
    BY <1>2, <2>1 DEF Handles
<1>5. /\ WiresOrdered'
      /\ \A d \in Ids : \A i \in 1 .. Len(wire'[d]) :
           \E j \in 1 .. Len(wire[d]) : wire'[d][i] = wire[d][j]
  BY <1>2, FewerInOrder
<1>6. UnusedEmpty'
  BY <1>1, <1>2 DEF UnusedEmpty
<1>7. ASSUME ~unguarded PROVE HeardInOrder'
  <2> SUFFICES ASSUME NEW d \in Ids, NEW i \in 1 .. Len(wire'[d]),
                      wire'[d][i].kind = "message",
                      wire'[d][i].at \notin stored' \cup passed', NEW x \in stored'
               PROVE  x < wire'[d][i].at
    BY DEF HeardInOrder
  <2>1. PICK j \in 1 .. Len(wire[d]) : wire'[d][i] = wire[d][j]
    BY <1>5
  <2>2. wire'[d][i].at \notin stored \cup passed
    BY <1>1, <1>4
  <2>3. CASE x \in stored
    BY <1>7, <2>1, <2>2, <2>3 DEF HeardInOrder
  <2>4. CASE x = event.at /\ d = c
    <3>1. wire'[d][i] = wire[c][i + 1] /\ i + 1 \in 1 .. Len(wire[c]) /\ 1 < i + 1
      BY <1>2, <2>4
    <3> QED
      BY <1>2, <2>4, <3>1 DEF Consistent, WireOrdered
  <2>5. CASE x = event.at /\ d # c
    <3>1. c = session /\ session # 0
      BY <1>1, <1>7, NumberFacts DEF Consistent, Guarded, Accepted
    <3>2. wire[d] # <<>> /\ conn[d] \notin {"none", "ended"}
      <4>1. wire[d] # <<>>
        BY <2>1
      <4> QED
        BY <4>1 DEF UnusedEmpty
    <3>3. conn[d] \in {"open", "closing", "accepting"}
      BY <3>2 DEF Consistent, TypeOK
    <3>4. d = link
      BY <1>7, <2>5, <3>1, <3>3 DEF Consistent, LinksOrdered, Guarded, Accepted
    <3>5. c < d
      <4>1. ~(c > d)
        BY <1>1, <3>4, NumberFacts DEF Consistent, LinksOrdered
      <4> QED
        BY <2>5, <4>1, NumberFacts
    <3> QED
      BY <1>2, <2>1, <2>5, <3>5 DEF WiresOrdered
  <2> QED
    BY <1>4, <2>3, <2>4, <2>5
<1> QED
  BY <1>1, <1>5, <1>6, <1>7

-----------------------------------------------------------------------------
(* The theorems                                                            *)

(* The invariant holds when the collector starts.                          *)
LEMMA InitInv == Init => IInv
<1> SUFFICES ASSUME Init PROVE IInv
  OBVIOUS
<1> USE DEF Init
<1>1. 1 \in Ids /\ 1 \in 0 .. Connections /\ 0 \in 0 .. Messages /\ 1 .. 0 = {}
  BY Limits DEF Ids
<1>2. TypeOK
  <2>1. /\ wire \in [Ids -> Seq([kind : {"message", "healthy", "degraded"}, at : 0 .. Messages])]
        /\ conn \in [Ids -> {"none", "accepting", "open", "closing", "ended"}]
        /\ row \in [Ids -> {None} \cup 0 .. Messages]
        /\ conn[link] = "open"
    BY <1>1
  <2>2. /\ pending \in [what : {"none", "start", "gap", "gap_and_stop", "abandoned"},
                        at : {None} \cup 0 .. Messages]
        /\ pending.what = "none"
    BY DEF NoWork
  <2>3. crashes \in 0 .. Crashes /\ outages \in 0 .. Outages
    BY Limits
  <2> QED
    BY <1>1, <2>1, <2>2, <2>3 DEF TypeOK
<1>3. Accepted = {1} /\ Live = {1}
  <2>1. 0 # None
    BY Limits
  <2> QED
    BY <1>1, <2>1 DEF Accepted, Live
<1>4. LinksOrdered
  BY <1>1, Limits DEF LinksOrdered, Ids
<1>5. SessionIsLast
  BY <1>3 DEF SessionIsLast
<1>6. RowsOfSession
  BY <1>3 DEF RowsOfSession, NoWork
<1>7. WireOrdered /\ GapsStarted
  BY DEF WireOrdered, GapsStarted
<1>8. Guarded
  <2>1. Lost = {}
    BY <1>1 DEF Lost
  <2> QED
    BY <1>3, <2>1 DEF Guarded, OpenGapCovers, LossesFollow, NoWork
<1>9. WiresInOrder
  BY DEF WiresInOrder, WiresOrdered, UnusedEmpty, HeardInOrder
<1> QED
  BY <1>2, <1>4, <1>5, <1>6, <1>7, <1>8, <1>9 DEF IInv, Consistent

(* The invariant is inductive.                                             *)
LEMMA NextInv == IInv /\ [Next]_vars => IInv'
<1> SUFFICES ASSUME IInv, [Next]_vars PROVE IInv'
  OBVIOUS
<1> USE DEF IInv
<1>1. CASE MessageSent
  BY <1>1, MessageSentKeeps, MessageSentInOrder
<1>2. CASE HeartbeatSent
  BY <1>2, HeartbeatSentKeeps, HeartbeatSentInOrder
<1>3. CASE QQChanges
  BY <1>3, QQChangesKeeps, WiresAsTheyAre DEF QQChanges
<1>4. CASE Connects
  BY <1>4, ConnectsKeeps, ConnectsInOrder
<1>5. CASE Breaks
  BY <1>5, BreaksKeeps, BreaksInOrder
<1>6. ASSUME NEW c \in Ids, Accepts(c) PROVE IInv'
  BY <1>6, AcceptsKeeps, AcceptsInOrder
<1>7. ASSUME NEW c \in Ids, Handles(c) PROVE IInv'
  BY <1>7, HandlesKeeps, HandlesInOrder
<1>8. ASSUME NEW c \in Ids, Disconnects(c) PROVE IInv'
  BY <1>8, DisconnectsKeeps, DisconnectsInOrder
<1>9. CASE SessionStarts
  BY <1>9, SessionStartsKeeps, WiresAsTheyAre DEF SessionStarts
<1>10. CASE OpensGap
  BY <1>10, OpensGapKeeps, WiresAsTheyAre DEF OpensGap
<1>11. CASE PageStored
  BY <1>11, PageStoredKeeps, PageStoredInOrder
<1>12. CASE Stops
  BY <1>12, StopsKeeps, LostInOrder DEF Stops
<1>13. CASE Crashed
  BY <1>13, CrashedKeeps, LostInOrder DEF Crashed
<1>14. CASE Starts
  BY <1>14, StartsKeeps, WiresAsTheyAre DEF Starts
<1>15. CASE EndsAbandoned
  BY <1>15, EndsAbandonedKeeps, WiresAsTheyAre DEF EndsAbandoned
<1>16. CASE WatchdogPauses
  BY <1>16, WatchdogPausesKeeps, WiresAsTheyAre DEF WatchdogPauses
<1>17. CASE WatchdogRecovers
  BY <1>17, WatchdogRecoversKeeps, WiresAsTheyAre DEF WatchdogRecovers
<1>18. CASE WatchdogLooks
  BY <1>18, WatchdogWaitsKeeps, NumberFacts DEF WatchdogLooks
<1>19. CASE WatchdogEnds
  BY <1>19, WatchdogWaitsKeeps DEF WatchdogEnds
<1>20. CASE UNCHANGED vars
  BY <1>20, WatchdogWaitsKeeps DEF vars, Consistent, TypeOK
<1> QED
  BY <1>1, <1>2, <1>3, <1>4, <1>5, <1>6, <1>7, <1>8, <1>9, <1>10, <1>11, <1>12, <1>13,
     <1>14, <1>15, <1>16, <1>17, <1>18, <1>19, <1>20
  DEF Next

(* In every state rows, connections and gaps are in order: what is lost is *)
(* older than what will be heard of next, or in a gap (runtime.py).        *)
THEOREM InductiveInvariant == Spec => []IInv
  BY InitInv, NextInv, PTL DEF Spec

(* The variables keep their types: pending work is the one transaction     *)
(* that is still to come, and what was stored or passed was sent.          *)
THEOREM TypeCorrect == Spec => []TypeOK
<1>1. IInv => TypeOK
  BY DEF IInv, Consistent
<1> QED
  BY <1>1, InductiveInvariant, PTL

(* start_collector_session and end_collector_session: at most one row of   *)
(* collector_sessions is live, whatever connection ends or crash comes in  *)
(* between.                                                                *)
THEOREM OneLiveSessionHolds == Spec => []OneLiveSession
<1>1. IInv => OneLiveSession
  <2> SUFFICES ASSUME IInv PROVE Cardinality(Live) <= 1
    BY DEF OneLiveSession
  <2>1. \A c, d \in Live : c = d
    BY DEF IInv, Consistent, RowsOfSession
  <2>2. CASE Live = {}
    BY <2>2, FS_EmptySet
  <2>3. CASE Live # {}
    <3>1. PICK c \in Live : TRUE
      BY <2>3
    <3>2. Live = {c}
      BY <2>1, <3>1
    <3> QED
      BY <3>2, FS_Singleton
  <2> QED
    BY <2>2, <2>3
<1> QED
  BY <1>1, InductiveInvariant, PTL

(* begin_event_session and end_event_session: the handler of the last      *)
(* connection accepted has the session, whichever older handlers are still *)
(* to end.                                                                 *)
THEOREM LastConnectionHasSessionHolds == Spec => []LastConnectionHasSession
<1>1. IInv => LastConnectionHasSession
  <2> SUFFICES ASSUME IInv, Runs, Accepted # {},
                      \A c \in Ids : c > Max(Accepted) => conn[c] # "ended"
               PROVE  session = Max(Accepted) /\ Live = {session}
    BY DEF LastConnectionHasSession
  <2>1. Accepted \in SUBSET (0 .. Connections) /\ \A c \in Accepted : c \in Ids
    BY Limits DEF Accepted, Ids
  <2>2. Max(Accepted) \in Accepted /\ \A c \in Accepted : c <= Max(Accepted)
    BY <2>1, MaxExists, Limits
  <2>3. session # 0
    <3> SUFFICES ASSUME session = 0 PROVE FALSE
      OBVIOUS
    <3>1. PICK d \in Ids : conn[d] = "ended" /\ \A c \in Accepted : c < d
      BY DEF IInv, Consistent, SessionIsLast
    <3>2. d > Max(Accepted)
      BY <2>1, <2>2, <3>1, NumberFacts
    <3> QED
      BY <3>1, <3>2
  <2>4. session \in Accepted /\ \A c \in Accepted : c <= session
    BY <2>3 DEF IInv, Consistent, SessionIsLast
  <2>5. session = Max(Accepted)
    <3>1. session \in Nat /\ Max(Accepted) \in Nat
      BY <2>1, <2>2, <2>4, NumberFacts
    <3>2. Max(Accepted) <= session /\ session <= Max(Accepted)
      BY <2>2, <2>4
    <3> QED
      BY <3>1, <3>2
  <2>6. Live = {session}
    BY <2>3 DEF IInv, Consistent, RowsOfSession, Runs, NoWork
  <2> QED
    BY <2>5, <2>6
<1> QED
  BY <1>1, InductiveInvariant, PTL

(* handle_event, end_event_session, recover_abandoned_session and the      *)
(* watchdog together: once the collector has caught up, every message that *)
(* it has not stored lies in a gap, for any interleaving of losses and of  *)
(* their being noticed that leaves it guarded.                             *)
THEOREM MissedIsCoveredHolds == Spec => []MissedIsCovered
<1>1. IInv => MissedIsCovered
  <2> SUFFICES ASSUME IInv, CaughtUp, ~unguarded,
                      NEW m \in (1 .. sent) \ (stored \cup passed)
               PROVE  \E g \in gaps : Covers(g, m)
    BY DEF MissedIsCovered
  <2>1. ASSUME m \notin Lost PROVE \E g \in gaps : Covers(g, m)
    <3>1. PICK g \in gaps : ~(OpenEnded(g) \/ m <= g.before \/ m > g.end)
      BY <2>1 DEF Lost
    <3>2. g.before \in Nat /\ g.end \in Int /\ m \in Nat
      BY Limits DEF IInv, Consistent, TypeOK
    <3> QED
      BY <3>1, <3>2 DEF Covers
  <2>2. CASE HasOpenGap /\ m \in Lost
    BY <2>2 DEF IInv, Consistent, Guarded, OpenGapCovers, HasOpenGap, Covers
  <2>3. ASSUME ~HasOpenGap, m \in Lost PROVE FALSE
    <3>1. ~paused /\ session # 0
      BY <2>3, NumberFacts DEF IInv, Consistent, Guarded, OpenGapCovers, CaughtUp, Runs, NoWork
    <3>2. OnWire(m, session) \/ WillBeNoticed(m, session)
      BY <2>3, <3>1 DEF IInv, Consistent, Guarded, LossesFollow
    <3>3. session \in Ids /\ wire[session] = <<>> /\ session = link /\ online
      BY <3>1, NumberFacts DEF CaughtUp
    <3> QED
      BY <3>2, <3>3 DEF OnWire, WillBeNoticed
  <2> QED
    BY <2>1, <2>2, <2>3
<1> QED
  BY <1>1, InductiveInvariant, PTL
=============================================================================
