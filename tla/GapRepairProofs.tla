-------------------------- MODULE GapRepairProofs --------------------------
(***************************************************************************)
(* For any number of messages, gaps, logins, restarts and archivals and    *)
(* any size of page: the types, that one gap at most is open-ended, what   *)
(* becomes of accepted gaps, cancelled jobs and repairs that nobody works  *)
(* on, and when a gap that is marked repaired has no hole.                 *)
(***************************************************************************)
EXTENDS GapRepair, WellFoundedInduction, TLAPS

-----------------------------------------------------------------------------
(* The inductive invariant                                                 *)

(* From the cursor up to the end of a gap nothing is missing in S: that is *)
(* what the pages walked so far have stored.                               *)
Walked(cursor, r, S) ==
  r.end # None /\ cursor # NoCursor => cursor.seq .. r.end - 1 \subseteq S

(* A row of message_gaps, when n messages were sent and S are stored: its  *)
(* boundaries enclose it, and a gap that has not ended is not repaired.    *)
RowOK(r, n, S) ==
  /\ r \in GapType
  /\ r.start <= n /\ r.end <= n + 1 /\ r.before <= r.start
  /\ r.cursor.seq <= n /\ r.after <= n
  /\ r.after # None => r.end # None /\ r.after >= r.end
  /\ r.end = None => r.status \in {"none", "open", "paused", "accepted"} /\ r.cursor = NoCursor
  /\ r.status = "none" => r.end = None
  /\ Walked(r.cursor, r, S)

RowsOK == \A g \in Ids : RowOK(gap[g], sent, stored)

(* What bounds the counters.                                               *)
CountersOK ==
  /\ sent > 0
  /\ ~session.online => session.login < MaxLogins
  /\ Archived => archivals <= MaxArchivals

(* The repair loop of the API asks for a gap that has ended.               *)
ManualOK ==
  /\ manual.cursor.seq <= sent
  /\ manual.pc = "asked" =>
       /\ manual.wake
       /\ manual.gap \in Ids /\ gap[manual.gap].end # None
       /\ manual.before <= gap[manual.gap].start
       /\ Walked(manual.cursor, gap[manual.gap], stored)

SomeEnded == \E g \in Ids : gap[g].end # None

(* A job is there for a whitelisted group that has had a gap to repair.    *)
JobOK ==
  /\ job.cursor.seq <= sent /\ auto.cursor.seq <= sent
  /\ JobActive \/ job.cursor # NoCursor \/ Ticking \/ auto.cursor # NoCursor \/ auto.page # {} =>
       Whitelisted /\ SomeEnded

(* The tick has gaps to write that have ended, and knows what the job is   *)
(* to become when it comes to write it.                                    *)
TickOK ==
  /\ auto.page \subseteq 1 .. sent
  /\ \A g \in auto.todo : gap[g].end # None /\ gap[g].confirmed
  /\ auto.pc = "ending" => auto.found # "none"

(* While the repair loop sleeps, the gaps under repair are the tick's.     *)
SleepingLeaves == ~manual.wake => Repairing \subseteq Repairable

(* When the tick gives the job up, while the repair loop sleeps, it has    *)
(* still to write the gaps under repair.                                   *)
EndingLeaves ==
  /\ auto.pc = "failing" \/ (auto.pc = "ending" /\ auto.found # "repairing")
  /\ ~manual.wake
  => Repairing \subseteq auto.todo

(* A group whose gaps are repaired by hand, or one with a single gap.      *)
OneWalk == ~Whitelisted \/ Gaps <= 1

(* Nothing is missing between a message of the page and the end of a gap.  *)
PageReaches(page, r, S) ==
  r.end # None => \A m \in page : m .. r.end - 1 \subseteq S

WalksOK ==
  OneWalk =>
    /\ \A g \in Ids :
         /\ Walked(job.cursor, gap[g], stored) /\ Walked(auto.cursor, gap[g], stored)
         /\ PageReaches(auto.page, gap[g], stored)
    /\ RepairedIsComplete

IInv ==
  /\ TypeOK /\ CountersOK /\ RowsOK /\ ManualOK /\ JobOK /\ TickOK /\ OneOpenGap
  /\ SleepingLeaves /\ EndingLeaves /\ OnlyCancelledIsLeft /\ WalksOK


-----------------------------------------------------------------------------
(* Numbers, pages and cursors                                              *)

(* A set of natural numbers has a least one ...                            *)
LEMMA LeastExists ==
  ASSUME NEW T \in SUBSET Nat, T # {}
  PROVE  Min(T) \in T /\ \A y \in T : Min(T) <= y
<1> DEFINE R == OpToRel(<, Nat)
<1>1. IsWellFoundedOn(R, Nat)
  BY NatLessThanWellFounded
<1>2. \A x, y \in Nat : <<x, y>> \in R <=> x < y
  BY DEF OpToRel
<1> HIDE DEF R
<1>3. \E x \in T : \A y \in T : ~(<<y, x>> \in R)
  BY <1>1, WFMin
<1>4. \E x \in T : \A y \in T : ~(y < x)
  BY <1>2, <1>3, Zenon
<1>5. \E x \in T : \A y \in T : x <= y
  BY <1>4
<1> QED
  BY <1>5 DEF Min

(* ... and a bounded one a greatest, the least of its bounds.              *)
LEMMA GreatestExists ==
  ASSUME NEW n \in Nat, NEW S \in SUBSET (0 .. n), S # {}
  PROVE  Max(S) \in S /\ \A x \in S : x <= Max(S)
<1> DEFINE U == {u \in Nat : \A x \in S : x <= u}
<1> DEFINE u == Min(U)
<1>1. u \in U /\ \A v \in U : u <= v
  <2>1. n \in U
    OBVIOUS
  <2> QED
    BY <2>1, LeastExists
<1> HIDE DEF u
<1>2. u \in S
  <2> SUFFICES ASSUME u \notin S PROVE FALSE
    OBVIOUS
  <2>1. PICK x \in S : TRUE
    OBVIOUS
  <2>2. x <= u /\ x # u /\ x \in Nat
    BY <1>1, <2>1
  <2>3. u - 1 \in U
    BY <1>1, <2>2
  <2> QED
    BY <1>1, <2>3
<1> QED
  BY <1>1, <1>2 DEF Max

(* The constants, one by one.                                              *)
LEMMA Limits ==
  /\ Messages \in Nat /\ Messages > 0 /\ Gaps \in Nat /\ PageSize \in Nat /\ PageSize > 0
  /\ MaxLogins \in Nat /\ MaxLogins > 0 /\ MaxArchivals \in Nat
  /\ None = 0 /\ Whitelisted \in BOOLEAN
  BY GapAssumption DEF GapAssumption, None

(* The boundaries of a gap are numbers of stored messages, or none.        *)
LEMMA Boundaries ==
  ASSUME NEW n \in Nat, NEW S \in SUBSET (1 .. n)
  PROVE  /\ Latest(S) \in S \cup {None} /\ Latest(S) \in 0 .. n
         /\ Earliest(S) \in S \cup {None} /\ Earliest(S) \in 0 .. n
<1>1. S \subseteq 0 .. n /\ S \subseteq Nat /\ 0 \in 0 .. n
  OBVIOUS
<1>2. S # {} => Max(S) \in S /\ Min(S) \in S
  BY <1>1, LeastExists, GreatestExists
<1> QED
  BY <1>1, <1>2, Limits DEF Latest, Earliest

(* The message a page ends with.                                           *)
Top(cursor) == IF cursor = NoCursor THEN sent ELSE cursor.seq

(* The cursor that comes with a page is known by its oldest message.       *)
LEMMA NextFacts ==
  ASSUME TypeOK, NEW page \in SUBSET (1 .. sent)
  PROVE  /\ NextCursor(page) \in CursorType /\ NextCursor(page).seq <= sent
         /\ NextCursor(page) # NoCursor => NextCursor(page).seq \in page
<1>1. sent \in Nat /\ sent <= Messages /\ session.login \in 0 .. MaxLogins
  BY Limits DEF TypeOK, SessionType
<1>2. CASE page = {}
  <2>1. NextCursor(page) = NoCursor
    BY <1>2 DEF NextCursor
  <2>2. NoCursor \in CursorType /\ NoCursor.seq = 0
    BY Limits DEF NoCursor, Cursor, CursorType
  <2> QED
    BY <1>1, <2>1, <2>2
<1>3. CASE page # {}
  <2>1. Min(page) \in page
    BY <1>3, LeastExists
  <2>2. NextCursor(page) = Cursor(Min(page), session.login)
    BY <1>3 DEF NextCursor
  <2>3. Min(page) \in 0 .. Messages /\ Min(page) <= sent
    <3>1. \A m \in page : m \in 0 .. Messages /\ m <= sent
      BY <1>1, Limits
    <3> QED
      BY <2>1, <3>1
  <2>4. /\ NextCursor(page) = [seq |-> Min(page), login |-> session.login]
        /\ NextCursor(page).seq = Min(page)
    BY <2>2 DEF Cursor
  <2> QED
    BY <1>1, <2>1, <2>3, <2>4 DEF CursorType
<1> QED
  BY <1>2, <1>3

(* A page reaches down from its top without a hole, and so does the cursor *)
(* that comes with it.                                                     *)
LEMMA PageFacts ==
  ASSUME TypeOK, NEW cursor \in CursorType, cursor.seq <= sent
  PROVE  /\ Page(cursor) \subseteq 1 .. sent
         /\ Top(cursor) \in 0 .. sent
         /\ \A m \in Page(cursor) : m .. Top(cursor) \subseteq Page(cursor)
         /\ NextCursor(Page(cursor)) \in CursorType
         /\ NextCursor(Page(cursor)).seq <= sent
         /\ NextCursor(Page(cursor)) # NoCursor =>
              NextCursor(Page(cursor)).seq .. Top(cursor) \subseteq Page(cursor)
<1>1. sent \in Nat /\ sent <= Messages /\ cursor.seq \in Nat /\ session.login \in 0 .. MaxLogins
  BY Limits DEF TypeOK, CursorType, SessionType
<1>2. Top(cursor) \in 0 .. sent
  BY <1>1 DEF Top
<1> DEFINE top == Top(cursor)
<1> HIDE DEF top
<1>3. Page(cursor) = {m \in 1 .. top : m > top - PageSize}
  BY DEF Page, Top, top
<1>4. top \in Nat /\ top <= sent
  BY <1>1, <1>2 DEF top
<1>5. Page(cursor) \subseteq 1 .. sent
  BY <1>1, <1>3, <1>4
<1>6. \A m \in Page(cursor) : m .. top \subseteq Page(cursor)
  BY <1>3, <1>4, Limits
<1>7. /\ NextCursor(Page(cursor)) \in CursorType /\ NextCursor(Page(cursor)).seq <= sent
      /\ NextCursor(Page(cursor)) # NoCursor => NextCursor(Page(cursor)).seq \in Page(cursor)
  BY <1>5, NextFacts
<1> QED
  BY <1>2, <1>5, <1>6, <1>7 DEF top

(* A row stays in order while messages are sent and stored.                *)
LEMMA RowGrows ==
  ASSUME NEW n \in Nat, NEW k \in Nat, n <= k, NEW S, NEW T, S \subseteq T, NEW r, RowOK(r, n, S)
  PROVE  RowOK(r, k, T)
<1>1. /\ r.start \in Nat /\ r.end \in Nat /\ r.before \in Nat /\ r.after \in Nat
      /\ r.cursor.seq \in Nat
  BY Limits DEF RowOK, GapType, CursorType
<1>2. r.start <= k /\ r.end <= k + 1 /\ r.cursor.seq <= k /\ r.after <= k
  BY <1>1 DEF RowOK
<1>3. Walked(r.cursor, r, T)
  BY DEF RowOK, Walked
<1> QED
  BY <1>2, <1>3 DEF RowOK


-----------------------------------------------------------------------------
(* What the operations on gaps do to a row                                 *)

OpenRow(r) == r.end = None /\ r.status \in {"open", "paused", "repairing"}

(* A gap that has ended stays where it is, and confirmed if it was.        *)
Stays(r, q) ==
  r.end # None => q.end = r.end /\ q.start = r.start /\ (r.confirmed => q.confirmed)

(* Nothing but a repair marks a gap repaired or under repair, and nothing  *)
(* but an answer takes back what was accepted.                             *)
Follows(r, q) ==
  /\ Stays(r, q)
  /\ q.status \in {"repaired", "repairing"} => q.status = r.status
  /\ r.status = "accepted" => q.status = "accepted"

(* A field of its row, by name.                                            *)
LEMMA RowFields ==
  ASSUME NEW r \in GapType
  PROVE  /\ r.status \in {"none", "open", "paused", "repairing", "repaired", "unverified", "accepted"}
         /\ r.start \in Nat /\ r.end \in Nat /\ r.before \in Nat /\ r.after \in Nat
         /\ r.start <= Messages /\ r.before <= Messages /\ r.after <= Messages
         /\ r.confirmed \in BOOLEAN /\ r.cursor \in CursorType
         /\ r.cursor.seq \in Nat /\ r.cursor.seq <= Messages
  BY Limits DEF GapType, CursorType

(* A row whose neighbours are looked up again changes nothing else.        *)
LEMMA RefreshedRow ==
  ASSUME TypeOK, RowsOK, NEW g \in Ids, NEW n \in Nat, sent <= n, n <= Messages,
         NEW S \in SUBSET (1 .. n), stored \subseteq S
  PROVE  /\ RowOK(Refreshed(g, S), n, S)
         /\ Refreshed(g, S).status = gap[g].status /\ Refreshed(g, S).start = gap[g].start
         /\ Refreshed(g, S).end = gap[g].end /\ Refreshed(g, S).confirmed = gap[g].confirmed
         /\ Refreshed(g, S).cursor = gap[g].cursor
<1> DEFINE r == gap[g]
<1> DEFINE before == IF r.before = None THEN Latest({m \in S : m <= r.start}) ELSE r.before
<1> DEFINE after == IF r.after = None /\ r.end # None THEN Earliest({m \in S : m >= r.end}) ELSE r.after
<1>1. r \in GapType /\ sent \in Nat
  BY Limits DEF TypeOK
<1>2. RowOK(r, n, S)
  BY <1>1, RowGrows DEF RowsOK
<1>3. Refreshed(g, S) = [r EXCEPT !.before = before, !.after = after]
  BY DEF Refreshed
<1>4. before \in 0 .. Messages /\ before <= r.start
  <2>1. CASE r.before = None
    <3>1. {m \in S : m <= r.start} \in SUBSET (1 .. n)
      OBVIOUS
    <3>2. /\ Latest({m \in S : m <= r.start}) \in {m \in S : m <= r.start} \cup {None}
          /\ Latest({m \in S : m <= r.start}) \in 0 .. n
      BY <3>1, Boundaries
    <3>3. before = Latest({m \in S : m <= r.start})
      BY <2>1
    <3>4. r.start \in Nat
      BY <1>1, RowFields
    <3> HIDE DEF before, r
    <3>5. before \in 0 .. n /\ (before = 0 \/ before <= r.start)
      BY <3>2, <3>3, Limits
    <3> QED
      BY <3>4, <3>5, Limits
  <2>2. CASE r.before # None
    BY <1>1, <1>2, <2>2, RowFields, Limits DEF RowOK
  <2> QED
    BY <2>1, <2>2
<1>5. after \in 0 .. Messages /\ after <= n /\ (after # None => r.end # None /\ after >= r.end)
  <2>1. CASE r.after = None /\ r.end # None
    <3>1. {m \in S : m >= r.end} \in SUBSET (1 .. n)
      OBVIOUS
    <3>2. /\ Earliest({m \in S : m >= r.end}) \in {m \in S : m >= r.end} \cup {None}
          /\ Earliest({m \in S : m >= r.end}) \in 0 .. n
      BY <3>1, Boundaries
    <3>3. after = Earliest({m \in S : m >= r.end})
      BY <2>1
    <3> HIDE DEF after, r
    <3>4. after \in 0 .. n /\ (after = 0 \/ after >= r.end)
      BY <3>2, <3>3, Limits
    <3> QED
      BY <2>1, <3>4, Limits
  <2>2. CASE ~(r.after = None /\ r.end # None)
    BY <1>1, <1>2, <2>2, RowFields, Limits DEF RowOK
  <2> QED
    BY <2>1, <2>2
<1> HIDE DEF before, after, r
<1>6. [r EXCEPT !.before = before, !.after = after] \in GapType
  BY <1>1, <1>4, <1>5 DEF GapType
<1> QED
  BY <1>1, <1>2, <1>3, <1>4, <1>5, <1>6 DEF RowOK, Walked, r, GapType

(* Closing ends the open-ended gap, and leaves the others as they are.     *)
LEMMA ClosedRows ==
  ASSUME TypeOK, RowsOK, NEW n \in Nat, sent <= n, n <= Messages, NEW end \in 1 .. n + 1,
         NEW S \in SUBSET (1 .. n), stored \subseteq S
  PROVE  /\ Closed(end, S) \in [Ids -> GapType]
         /\ \A g \in Ids : LET q == Closed(end, S)[g] IN
              /\ RowOK(q, n, S) /\ ~OpenRow(q)
              /\ q.status = gap[g].status /\ Follows(gap[g], q)
<1> DEFINE after == Earliest({m \in S : m >= end})
<1> DEFINE C(r) == IF r.end = None /\ r.status \in {"open", "paused"}
                     THEN [r EXCEPT !.end = end, !.after = after] ELSE r
<1>1. Closed(end, S) = [g \in Ids |-> C(gap[g])]
  BY DEF Closed
<1>2. after \in 0 .. Messages /\ after <= n /\ (after # None => after >= end)
  <2>1. {m \in S : m >= end} \in SUBSET (1 .. n)
    OBVIOUS
  <2>2. after \in {m \in S : m >= end} \cup {None} /\ after \in 0 .. n
    BY <2>1, Boundaries
  <2> QED
    BY <2>2, Limits
<1> HIDE DEF after
<1>3. ASSUME NEW g \in Ids
      PROVE  /\ C(gap[g]) \in GapType /\ RowOK(C(gap[g]), n, S) /\ ~OpenRow(C(gap[g]))
             /\ C(gap[g]).status = gap[g].status /\ Follows(gap[g], C(gap[g]))
  <2> DEFINE r == gap[g]
  <2>1. r \in GapType /\ RowOK(r, n, S)
    <3>1. r \in GapType /\ sent \in Nat
      BY Limits DEF TypeOK
    <3>2. RowOK(r, sent, stored)
      BY DEF RowsOK
    <3> HIDE DEF r
    <3> QED
      BY <3>1, <3>2, RowGrows
  <2>2. CASE r.end = None /\ r.status \in {"open", "paused"}
    <3> DEFINE q == [r EXCEPT !.end = end, !.after = after]
    <3>1. C(r) = q
      BY <2>2
    <3>2. end \in 0 .. Messages + 1 /\ end # None /\ end <= n + 1
      BY Limits
    <3>3. q \in GapType
      BY <1>2, <2>1, <3>2 DEF GapType
    <3>4. /\ q.status = r.status /\ q.start = r.start /\ q.end = end /\ q.before = r.before
          /\ q.after = after /\ q.cursor = r.cursor
      BY <2>1 DEF GapType
    <3> HIDE DEF q
    <3>5. RowOK(q, n, S)
      BY <1>2, <2>1, <2>2, <3>2, <3>3, <3>4, Limits DEF RowOK, Walked
    <3>6. Follows(r, q) /\ ~OpenRow(q)
      BY <2>2, <3>2, <3>4 DEF Follows, Stays, OpenRow
    <3> QED
      BY <3>1, <3>3, <3>4, <3>5, <3>6
  <2>3. CASE ~(r.end = None /\ r.status \in {"open", "paused"})
    BY <2>1, <2>3 DEF RowOK, OpenRow, Follows, Stays
  <2> QED
    BY <2>2, <2>3
<1> HIDE DEF C
<1> QED
  BY <1>1, <1>3

(* Pausing takes repairs back to paused, and leaves the others as they     *)
(* are.                                                                    *)
LEMMA PausedRows ==
  ASSUME NEW n \in Nat, NEW S, NEW gaps \in [Ids -> GapType],
         \A g \in Ids : RowOK(gaps[g], n, S)
  PROVE  /\ Paused(gaps) \in [Ids -> GapType]
         /\ \A g \in Ids : LET q == Paused(gaps)[g] IN
              /\ RowOK(q, n, S) /\ q.status # "repairing"
              /\ (OpenRow(q) => OpenRow(gaps[g])) /\ Follows(gaps[g], q)
<1> DEFINE P(r) == IF r.status = "repairing" THEN [r EXCEPT !.status = "paused"] ELSE r
<1>1. Paused(gaps) = [g \in Ids |-> P(gaps[g])]
  BY DEF Paused
<1>2. ASSUME NEW g \in Ids
      PROVE  /\ P(gaps[g]) \in GapType /\ RowOK(P(gaps[g]), n, S) /\ P(gaps[g]).status # "repairing"
             /\ (OpenRow(P(gaps[g])) => OpenRow(gaps[g])) /\ Follows(gaps[g], P(gaps[g]))
  <2> DEFINE r == gaps[g]
  <2>1. r \in GapType /\ RowOK(r, n, S)
    OBVIOUS
  <2>2. CASE r.status = "repairing"
    <3> DEFINE q == [r EXCEPT !.status = "paused"]
    <3>1. P(r) = q
      BY <2>2
    <3>2. /\ q \in GapType /\ q.status = "paused" /\ q.start = r.start /\ q.end = r.end
          /\ q.before = r.before /\ q.after = r.after /\ q.cursor = r.cursor
          /\ q.confirmed = r.confirmed
      BY <2>1 DEF GapType
    <3> HIDE DEF q
    <3>3. RowOK(q, n, S)
      BY <2>1, <2>2, <3>2 DEF RowOK, Walked
    <3>4. Follows(r, q) /\ ~OpenRow(q)
      BY <2>1, <2>2, <3>2 DEF RowOK, Follows, Stays, OpenRow
    <3> QED
      BY <3>1, <3>2, <3>3, <3>4
  <2>3. CASE r.status # "repairing"
    BY <2>1, <2>3 DEF Follows, Stays
  <2> QED
    BY <2>2, <2>3
<1> HIDE DEF P
<1> QED
  BY <1>1, <1>2

(* An outage joins the open-ended gap, or is the only one.                 *)
LEMMA RegisteredRows ==
  ASSUME TypeOK, RowsOK, OneOpenGap, HasRoom,
         NEW start \in 0 .. sent, NEW end \in 0 .. sent, NEW confirmed \in BOOLEAN
  PROVE  /\ Registered(start, end, confirmed) \in [Ids -> GapType]
         /\ \A g \in Ids : LET q == Registered(start, end, confirmed)[g] IN
              RowOK(q, sent, stored) /\ Follows(gap[g], q)
         /\ \A g, h \in Ids :
              /\ OpenRow(Registered(start, end, confirmed)[g])
              /\ OpenRow(Registered(start, end, confirmed)[h])
              => g = h
<1> DEFINE N == Registered(start, end, confirmed)
<1>1. gap \in [Ids -> GapType] /\ sent \in Nat /\ sent <= Messages /\ stored \in SUBSET (1 .. sent)
  BY Limits DEF TypeOK
<1>2. \A g \in Ids : OpenEnded(g) <=> OpenRow(gap[g])
  BY DEF OpenEnded, OpenRow
<1>3. CASE \E g \in Ids : OpenEnded(g)
  <2> DEFINE J(r) == [r EXCEPT !.confirmed = @ \/ confirmed]
  <2>1. N = [g \in Ids |-> IF OpenEnded(g) THEN J(gap[g]) ELSE gap[g]]
    BY <1>3 DEF Registered
  <2>2. \A r \in GapType :
          /\ J(r) \in GapType /\ J(r).status = r.status /\ J(r).start = r.start /\ J(r).end = r.end
          /\ J(r).before = r.before /\ J(r).after = r.after /\ J(r).cursor = r.cursor
          /\ (r.confirmed => J(r).confirmed)
    BY DEF GapType
  <2> HIDE DEF J
  <2>3. ASSUME NEW g \in Ids
        PROVE  /\ N[g] \in GapType /\ RowOK(N[g], sent, stored) /\ Follows(gap[g], N[g])
               /\ (OpenRow(N[g]) => OpenRow(gap[g]))
    <3>1. gap[g] \in GapType /\ RowOK(gap[g], sent, stored)
      BY <1>1 DEF RowsOK
    <3>2. CASE N[g] = gap[g]
      BY <3>1, <3>2 DEF Follows, Stays
    <3>3. CASE N[g] = J(gap[g])
      BY <2>2, <3>1, <3>3 DEF RowOK, Walked, Follows, Stays, OpenRow
    <3> QED
      BY <2>1, <3>2, <3>3
  <2>4. N \in [Ids -> GapType]
    BY <2>1, <2>3
  <2> QED
    BY <1>2, <2>3, <2>4 DEF OneOpenGap
<1>4. CASE ~\E g \in Ids : OpenEnded(g)
  <2> DEFINE u == Min(Unused)
  <2>1. u \in Ids /\ gap[u].status = "none"
    <3>1. Unused \in SUBSET Nat /\ Unused # {}
      BY <1>4, Limits DEF HasRoom, Unused, Ids
    <3>2. u \in Unused
      BY <3>1, LeastExists
    <3> QED
      BY <3>2 DEF Unused
  <2> DEFINE before == Latest({m \in stored : m <= start})
  <2> DEFINE after == IF end = None THEN None ELSE Earliest({m \in stored : m >= end})
  <2> DEFINE q == [NoGap EXCEPT !.status = "open", !.start = start, !.end = end,
                                !.confirmed = confirmed, !.before = before, !.after = after]
  <2>2. N = [gap EXCEPT ![u] = q]
    BY <1>4 DEF Registered
  <2>3. before \in 0 .. Messages /\ before <= start
    <3>1. {m \in stored : m <= start} \in SUBSET (1 .. sent)
      BY <1>1
    <3>2. before \in {m \in stored : m <= start} \cup {None} /\ before \in 0 .. sent
      BY <1>1, <3>1, Boundaries
    <3> QED
      BY <1>1, <3>2, Limits
  <2>4. after \in 0 .. Messages /\ after <= sent /\ (after # None => end # None /\ after >= end)
    <3>1. {m \in stored : m >= end} \in SUBSET (1 .. sent)
      BY <1>1
    <3>2. end # None => after \in {m \in stored : m >= end} \cup {None} /\ after \in 0 .. sent
      BY <1>1, <3>1, Boundaries
    <3> QED
      BY <1>1, <3>2, Limits
  <2> HIDE DEF u, before, after
  <2>5. NoCursor \in CursorType /\ NoCursor.seq = 0
    BY Limits DEF NoCursor, Cursor, CursorType
  <2>6. /\ q \in GapType /\ q.status = "open" /\ q.start = start /\ q.end = end
        /\ q.before = before /\ q.after = after /\ q.cursor = NoCursor
    <3>1. NoGap \in GapType /\ NoGap.cursor = NoCursor
      BY <2>5, Limits DEF NoGap, GapType
    <3>2. start \in 0 .. Messages /\ end \in 0 .. Messages + 1
      BY <1>1, Limits
    <3> QED
      BY <2>3, <2>4, <3>1, <3>2 DEF GapType
  <2> HIDE DEF q
  <2>7. RowOK(q, sent, stored)
    BY <1>1, <2>3, <2>4, <2>5, <2>6, Limits DEF RowOK, Walked
  <2>8. Follows(gap[u], q)
    <3>1. gap[u].end = None
      BY <2>1 DEF RowsOK, RowOK
    <3> QED
      BY <2>1, <2>6, <3>1 DEF Follows, Stays
  <2>9. N[u] = q /\ \A g \in Ids : g # u => N[g] = gap[g]
    BY <1>1, <2>1, <2>2
  <2>10. N \in [Ids -> GapType]
    BY <1>1, <2>2, <2>6
  <2>11. \A g \in Ids : RowOK(N[g], sent, stored) /\ Follows(gap[g], N[g])
    BY <2>7, <2>8, <2>9 DEF RowsOK, Follows, Stays
  <2>12. \A g \in Ids : OpenRow(N[g]) => g = u
    BY <1>2, <1>4, <2>9
  <2> QED
    BY <2>10, <2>11, <2>12
<1> QED
  BY <1>3, <1>4


-----------------------------------------------------------------------------
(* What a step keeps                                                       *)

(* The step leaves the gaps that have ended where they are, and loses no   *)
(* message.                                                                *)
GapsStay ==
  /\ sent \in Nat /\ sent' \in Nat /\ sent <= sent' /\ stored \subseteq stored'
  /\ \A g \in Ids : RowOK(gap'[g], sent', stored') /\ Stays(gap[g], gap'[g])

(* Gaps that stay where they are leave the repair loop's request in order. *)
LEMMA ManualKept ==
  ASSUME IInv, GapsStay, manual' \in {manual, [manual EXCEPT !.wake = TRUE]}
  PROVE  ManualOK'
<1>1. /\ manual'.pc = manual.pc /\ manual'.gap = manual.gap /\ manual'.cursor = manual.cursor
      /\ manual'.before = manual.before /\ (manual.wake => manual'.wake)
  BY DEF IInv, TypeOK, ManualType
<1>2. manual.cursor.seq <= sent'
  <2>1. manual.cursor.seq \in Nat
    BY DEF IInv, TypeOK, CursorType, ManualType
  <2> QED
    BY <2>1 DEF IInv, ManualOK, GapsStay
<1>3. ASSUME manual.pc = "asked"
      PROVE  /\ manual.gap \in Ids /\ gap'[manual.gap].end # None
             /\ manual.before <= gap'[manual.gap].start
             /\ Walked(manual.cursor, gap'[manual.gap], stored')
  <2>1. /\ manual.gap \in Ids /\ gap[manual.gap].end # None
        /\ manual.before <= gap[manual.gap].start
        /\ Walked(manual.cursor, gap[manual.gap], stored)
    BY <1>3 DEF IInv, ManualOK
  <2>2. gap'[manual.gap].end = gap[manual.gap].end /\ gap'[manual.gap].start = gap[manual.gap].start
    BY <2>1 DEF GapsStay, Stays
  <2> QED
    BY <2>1, <2>2 DEF GapsStay, Walked
<1>4. manual'.pc = "asked" =>
        /\ manual'.wake
        /\ manual'.gap \in Ids /\ gap'[manual'.gap].end # None
        /\ manual'.before <= gap'[manual'.gap].start
        /\ Walked(manual'.cursor, gap'[manual'.gap], stored')
  BY <1>1, <1>3 DEF IInv, ManualOK
<1> QED
  BY <1>1, <1>2, <1>4 DEF ManualOK

(* What the tick holds stays in order, too, until it is dropped.           *)
LEMMA TickKept ==
  ASSUME IInv, GapsStay, auto' = auto \/ auto' = AutoAt("starting")
  PROVE  TickOK'
<1>1. auto.page \in SUBSET (1 .. sent) /\ auto.todo \subseteq Ids
  BY DEF IInv, TypeOK, TickOK, AutoType
<1>2. auto.page \subseteq 1 .. sent'
  BY <1>1 DEF GapsStay
<1>3. \A g \in auto.todo : gap'[g].end # None /\ gap'[g].confirmed
  BY <1>1 DEF IInv, TickOK, GapsStay, Stays
<1>4. CASE auto' = auto
  BY <1>2, <1>3, <1>4 DEF IInv, TickOK
<1>5. CASE auto' = AutoAt("starting")
  BY <1>5 DEF AutoAt, TickOK
<1> QED
  BY <1>4, <1>5

(* A gap that had not ended has no walk behind it that counts.             *)
LEMMA WalksKept ==
  ASSUME IInv, GapsStay,
         job'.cursor \in {job.cursor, auto.cursor, NoCursor},
         auto'.cursor \in {auto.cursor, job.cursor, NextCursor(auto.page), NoCursor},
         auto'.page \in {auto.page, {}},
         \A g \in Ids : OneWalk /\ gap'[g].status = "repaired" =>
           gap[g].status = "repaired" \/ gap'[g].start + 1 .. gap'[g].end - 1 \subseteq stored'
  PROVE  WalksOK'
<1> SUFFICES ASSUME OneWalk
             PROVE  /\ \A g \in Ids : /\ Walked(job'.cursor, gap'[g], stored')
                                      /\ Walked(auto'.cursor, gap'[g], stored')
                                      /\ PageReaches(auto'.page, gap'[g], stored')
                    /\ \A g \in Ids : gap'[g].status = "repaired" =>
                         gap'[g].start + 1 .. gap'[g].end - 1 \subseteq stored'
  BY DEF WalksOK, OneWalk, RepairedIsComplete
<1>1. /\ \A g \in Ids : /\ Walked(job.cursor, gap[g], stored) /\ Walked(auto.cursor, gap[g], stored)
                        /\ PageReaches(auto.page, gap[g], stored)
      /\ RepairedIsComplete
  BY DEF IInv, WalksOK
<1>2. ASSUME NEW g \in Ids
      PROVE  /\ Walked(job'.cursor, gap'[g], stored') /\ Walked(auto'.cursor, gap'[g], stored')
             /\ PageReaches(auto'.page, gap'[g], stored')
  <2>1. CASE gap[g].end # None
    <3>1. gap'[g].end = gap[g].end /\ stored \subseteq stored'
      BY <2>1 DEF GapsStay, Stays
    <3>2. Walked(NextCursor(auto.page), gap[g], stored)
      BY <1>1, NextFacts DEF IInv, TickOK, Walked, PageReaches
    <3> QED
      BY <1>1, <3>1, <3>2 DEF Walked, PageReaches
  <2>2. CASE gap[g].end = None
    <3>1. /\ job.cursor = NoCursor /\ auto.cursor = NoCursor /\ auto.page = {}
          /\ NextCursor({}) = NoCursor
      <4>1. Gaps <= 1 => ~SomeEnded
        <5>1. Gaps <= 1 => \A h \in Ids : h = g
          BY Limits DEF Ids
        <5> QED
          BY <2>2, <5>1 DEF SomeEnded
      <4> QED
        BY <4>1 DEF IInv, JobOK, OneWalk, NextCursor
    <3> QED
      BY <3>1 DEF Walked, PageReaches
  <2> QED
    BY <2>1, <2>2
<1>3. ASSUME NEW g \in Ids, gap'[g].status = "repaired"
      PROVE  gap'[g].start + 1 .. gap'[g].end - 1 \subseteq stored'
  <2>1. CASE gap[g].status = "repaired"
    <3>1. gap[g].end # None
      BY <2>1 DEF IInv, RowsOK, RowOK
    <3>2. gap'[g].end = gap[g].end /\ gap'[g].start = gap[g].start
      BY <3>1 DEF GapsStay, Stays
    <3>3. gap[g].start + 1 .. gap[g].end - 1 \subseteq stored
      BY <1>1, <2>1 DEF RepairedIsComplete
    <3> QED
      BY <3>2, <3>3 DEF GapsStay
  <2>2. CASE gap[g].status # "repaired"
    BY <1>3, <2>2
  <2> QED
    BY <2>1, <2>2
<1> QED
  BY <1>2, <1>3

(* A job that is cancelled has no cursor.                                  *)
LEMMA CancelledJobFacts ==
  ASSUME TypeOK
  PROVE  /\ CancelledJob.cursor \in {job.cursor, NoCursor}
         /\ ~JobActive => CancelledJob = job
         /\ JobActive => CancelledJob.status = "cancelled" /\ CancelledJob.cursor = NoCursor
         /\ CancelledJob \in JobType
<1>1. NoCursor \in CursorType
  BY Limits DEF NoCursor, Cursor, CursorType
<1>2. CASE JobActive
  BY <1>1, <1>2 DEF CancelledJob, TypeOK, JobType
<1>3. CASE ~JobActive
  BY <1>3 DEF CancelledJob, TypeOK
<1> QED
  BY <1>2, <1>3

(* So they leave the job in order, cancelled or not.                       *)
LEMMA JobKept ==
  ASSUME IInv, GapsStay, job' \in {job, CancelledJob},
         auto' = auto \/ auto' = AutoAt("starting")
  PROVE  JobOK'
<1>1. SomeEnded => SomeEnded'
  BY DEF SomeEnded, GapsStay, Stays
<1>2. job'.cursor \in {job.cursor, NoCursor} /\ (JobActive' => JobActive)
  <2>1. CASE job' = job
    BY <2>1 DEF JobActive
  <2>2. CASE job' = CancelledJob /\ JobActive
    BY <2>2, CancelledJobFacts DEF IInv, JobActive
  <2>3. CASE job' = CancelledJob /\ ~JobActive
    BY <2>3, CancelledJobFacts DEF IInv, JobActive
  <2> QED
    BY <2>1, <2>2, <2>3
<1>3. /\ auto'.cursor \in {auto.cursor, NoCursor} /\ auto'.page \in {auto.page, {}}
      /\ (Ticking' => Ticking)
  BY DEF AutoAt, Ticking
<1>4. job'.cursor.seq <= sent' /\ auto'.cursor.seq <= sent'
  <2>1. job.cursor.seq \in Nat /\ auto.cursor.seq \in Nat /\ NoCursor.seq = 0
    BY Limits DEF IInv, TypeOK, CursorType, NoCursor, Cursor, JobType, AutoType
  <2> QED
    BY <1>2, <1>3, <2>1 DEF IInv, JobOK, GapsStay
<1> QED
  BY <1>1, <1>2, <1>3, <1>4 DEF IInv, JobOK

(* Nothing was put under repair, and what was is still worked on.          *)
LEMMA LeftKept ==
  ASSUME IInv, GapsStay, Repairing' \subseteq Repairing, job' \in {job, CancelledJob},
         auto' = auto, manual'.wake = manual.wake
  PROVE  SleepingLeaves' /\ EndingLeaves' /\ OnlyCancelledIsLeft'
<1>1. ASSUME NEW g \in Repairing', g \in Repairable PROVE g \in Repairable'
  <2>1. g \in Ids /\ gap[g].confirmed /\ gap[g].end # None /\ gap'[g].status = "repairing"
    BY <1>1 DEF Repairing, Repairable
  <2>2. gap'[g].confirmed /\ gap'[g].end # None
    BY <2>1 DEF GapsStay, Stays
  <2> QED
    BY <2>1, <2>2 DEF Repairable, Unresolved
<1>2. SleepingLeaves'
  BY <1>1 DEF IInv, SleepingLeaves
<1>3. OnlyCancelledIsLeft'
  <2>1. CASE job' = job
    BY <2>1 DEF IInv, OnlyCancelledIsLeft, WorkedOn, JobActive, Ticking
  <2>2. CASE job' = CancelledJob /\ JobActive
    BY <2>2, CancelledJobFacts DEF IInv, OnlyCancelledIsLeft, WorkedOn
  <2>3. CASE job' = CancelledJob /\ ~JobActive
    BY <2>3, CancelledJobFacts DEF IInv, OnlyCancelledIsLeft, WorkedOn, JobActive, Ticking
  <2> QED
    BY <2>1, <2>2, <2>3
<1>4. EndingLeaves'
  BY DEF IInv, EndingLeaves
<1> QED
  BY <1>2, <1>3, <1>4

(* A gap that was accepted stays so, but for the page of the repair loop   *)
(* and for what the tick has listed.                                       *)
AcceptedStay ==
  \A g \in Ids : gap[g].status = "accepted" /\ gap'[g].status # "accepted"
                  => \/ manual.pc = "asked" /\ manual.gap = g /\ manual'.pc = "idle"
                     \/ g \in auto.todo \ auto'.todo

(* A step of the rest of the system.                                       *)
LEMMA QuietKeeps ==
  ASSUME IInv, TypeOK', CountersOK',
         sent <= sent', stored \subseteq stored',
         \A g \in Ids : RowOK(gap'[g], sent', stored') /\ Follows(gap[g], gap'[g]),
         \A g, h \in Ids : OpenRow(gap'[g]) /\ OpenRow(gap'[h]) => g = h,
         job' \in {job, CancelledJob}, auto' = auto, manual' = manual
  PROVE  IInv' /\ AcceptedStay
<1>1. GapsStay
  <2>1. sent \in Nat /\ sent' \in Nat
    BY Limits DEF IInv, TypeOK
  <2> QED
    BY <2>1 DEF GapsStay, Follows
<1>2. RowsOK' /\ OneOpenGap'
  BY DEF RowsOK, OneOpenGap, OpenEnded, OpenRow
<1>3. ManualOK' /\ JobOK' /\ TickOK'
  BY <1>1, ManualKept, JobKept, TickKept
<1>4. SleepingLeaves' /\ EndingLeaves' /\ OnlyCancelledIsLeft'
  <2>1. Repairing' \subseteq Repairing
    BY DEF Repairing, Follows
  <2> QED
    BY <1>1, <2>1, LeftKept
<1>5. WalksOK'
  <2>1. job'.cursor \in {job.cursor, NoCursor}
    BY CancelledJobFacts DEF IInv
  <2>2. \A g \in Ids : gap'[g].status = "repaired" => gap[g].status = "repaired"
    BY DEF Follows
  <2> QED
    BY <1>1, <2>1, <2>2, WalksKept
<1>6. AcceptedStay
  BY DEF AcceptedStay, Follows
<1> QED
  BY <1>2, <1>3, <1>4, <1>5, <1>6 DEF IInv


(* Rows nobody writes stay in order.                                       *)
LEMMA UnchangedRows ==
  ASSUME IInv, gap' = gap, sent' = sent, stored' = stored
  PROVE  /\ gap' \in [Ids -> GapType]
         /\ \A g \in Ids : RowOK(gap'[g], sent', stored') /\ Follows(gap[g], gap'[g])
         /\ \A g, h \in Ids : OpenRow(gap'[g]) /\ OpenRow(gap'[h]) => g = h
  BY DEF IInv, TypeOK, RowsOK, OneOpenGap, OpenEnded, OpenRow, Follows, Stays

(* One row is replaced by another like it.                                 *)
LEMMA ReplacedRow ==
  ASSUME IInv, NEW u \in Ids, NEW q, gap' = [gap EXCEPT ![u] = q],
         RowOK(q, sent, stored), Follows(gap[u], q), OpenRow(q) => OpenRow(gap[u]),
         sent' = sent, stored' = stored
  PROVE  /\ gap' \in [Ids -> GapType]
         /\ \A g \in Ids : RowOK(gap'[g], sent', stored') /\ Follows(gap[g], gap'[g])
         /\ \A g, h \in Ids : OpenRow(gap'[g]) /\ OpenRow(gap'[h]) => g = h
<1>1. gap \in [Ids -> GapType] /\ q \in GapType
  BY DEF IInv, TypeOK, RowOK
<1>2. gap'[u] = q /\ \A g \in Ids : g # u => gap'[g] = gap[g]
  BY <1>1
<1>3. gap' \in [Ids -> GapType]
  BY <1>1
<1>4. \A g \in Ids : RowOK(gap'[g], sent', stored') /\ Follows(gap[g], gap'[g])
  BY <1>2 DEF IInv, RowsOK, Follows, Stays
<1>5. \A g \in Ids : OpenRow(gap'[g]) => OpenRow(gap[g])
  BY <1>2
<1>6. \A g, h \in Ids : OpenRow(gap'[g]) /\ OpenRow(gap'[h]) => g = h
  BY <1>5 DEF IInv, OneOpenGap, OpenEnded, OpenRow
<1> QED
  BY <1>3, <1>4, <1>6

-----------------------------------------------------------------------------
(* The event stream and the session                                        *)

(* A message is sent, and heard of if the stream is on.                    *)
LEMMA MessageSentKeeps ==
  ASSUME IInv, MessageSent
  PROVE  IInv' /\ AcceptedStay
<1>1. /\ sent < Messages /\ sent' = sent + 1
      /\ UNCHANGED <<stream, job, session, auto, manual, archivals>>
      /\ \/ stored' = stored \cup {sent'} /\ gap' = IF Active THEN Closed(sent', stored') ELSE gap
         \/ UNCHANGED <<stored, gap>>
  BY DEF MessageSent
<1>2. sent \in Nat /\ sent' \in Nat /\ sent <= sent' /\ sent' <= Messages /\ sent' \in 1 .. sent' + 1
  BY <1>1, Limits DEF IInv, TypeOK
<1>3. stored \subseteq stored' /\ stored' \in SUBSET (1 .. sent')
  <2>1. stored \subseteq 1 .. sent /\ 1 .. sent \subseteq 1 .. sent' /\ sent' \in 1 .. sent'
    BY <1>1, <1>2 DEF IInv, TypeOK
  <2> QED
    BY <1>1, <2>1
<1>4. /\ gap' \in [Ids -> GapType]
      /\ \A g \in Ids : RowOK(gap'[g], sent', stored') /\ Follows(gap[g], gap'[g])
      /\ \A g, h \in Ids : OpenRow(gap'[g]) /\ OpenRow(gap'[h]) => g = h
  <2>1. CASE gap' = Closed(sent', stored')
    <3>1. TypeOK /\ RowsOK
      BY DEF IInv
    <3> QED
      BY <1>2, <1>3, <2>1, <3>1, ClosedRows
  <2>2. CASE gap' = gap
    <3>1. \A g \in Ids : RowOK(gap[g], sent', stored')
      BY <1>2, <1>3, RowGrows DEF IInv, RowsOK
    <3> QED
      BY <2>2, <3>1 DEF IInv, TypeOK, OneOpenGap, OpenEnded, OpenRow, Follows, Stays
  <2> QED
    BY <1>1, <2>1, <2>2
<1>5. TypeOK'
  <2>1. sent' \in 0 .. Messages
    BY <1>2, Limits
  <2> QED
    BY <1>1, <1>3, <1>4, <2>1 DEF IInv, TypeOK
<1>6. CountersOK'
  BY <1>1, <1>2 DEF IInv, CountersOK, Archived
<1> QED
  BY <1>1, <1>2, <1>3, <1>4, <1>5, <1>6, QuietKeeps

(* A heartbeat closes the open-ended gap.                                  *)
LEMMA HeartbeatKeeps ==
  ASSUME IInv, Heartbeat
  PROVE  IInv' /\ AcceptedStay
<1>1. /\ gap' = Closed(sent + 1, stored)
      /\ UNCHANGED <<sent, stored, stream, job, session, auto, manual, archivals>>
  BY DEF Heartbeat
<1>2. sent \in Nat /\ sent <= Messages /\ sent + 1 \in 1 .. sent + 1 /\ stored \in SUBSET (1 .. sent)
  BY Limits DEF IInv, TypeOK
<1>3. /\ gap' \in [Ids -> GapType]
      /\ \A g \in Ids : RowOK(gap'[g], sent', stored') /\ Follows(gap[g], gap'[g])
      /\ \A g, h \in Ids : OpenRow(gap'[g]) /\ OpenRow(gap'[h]) => g = h
  <2>1. TypeOK /\ RowsOK
    BY DEF IInv
  <2> QED
    BY <1>1, <1>2, <2>1, ClosedRows
<1>4. TypeOK' /\ CountersOK'
  BY <1>1, <1>3 DEF IInv, TypeOK, CountersOK, Archived
<1> QED
  BY <1>1, <1>2, <1>3, <1>4, QuietKeeps

(* Every outage that is registered.                                        *)
LEMMA OutageKeeps ==
  ASSUME IInv, HasRoom, NEW start \in 0 .. sent, NEW end \in 0 .. sent, NEW confirmed \in BOOLEAN,
         gap' = Registered(start, end, confirmed),
         stream' \in {"on", "stalled", "off"},
         session' \in SessionType,
         session'.login = session.login,
         ~session'.online => session.login < MaxLogins,
         UNCHANGED <<sent, stored, job, auto, manual, archivals>>
  PROVE  IInv' /\ AcceptedStay
<1>1. /\ gap' \in [Ids -> GapType]
      /\ \A g \in Ids : RowOK(gap'[g], sent', stored') /\ Follows(gap[g], gap'[g])
      /\ \A g, h \in Ids : OpenRow(gap'[g]) /\ OpenRow(gap'[h]) => g = h
  <2>1. TypeOK /\ RowsOK /\ OneOpenGap
    BY DEF IInv
  <2> QED
    BY <2>1, RegisteredRows
<1>2. TypeOK' /\ CountersOK'
  BY <1>1 DEF IInv, TypeOK, CountersOK, Archived
<1>3. sent <= sent' /\ stored \subseteq stored'
  BY Limits DEF IInv, TypeOK
<1> QED
  BY <1>1, <1>2, <1>3, QuietKeeps

(* An outage begins at a message that was sent, or before all of them.     *)
LEMMA OutageFacts ==
  ASSUME IInv
  PROVE  /\ sent \in 0 .. sent /\ 0 \in 0 .. sent /\ None \in 0 .. sent
         /\ \A start \in {sent - 1, sent} \ {0} : start \in 0 .. sent
         /\ ~session.online => session.login < MaxLogins
         /\ stream \in {"on", "stalled", "off"}
         /\ session \in SessionType
  BY Limits DEF IInv, TypeOK, CountersOK

(* The stream falls silent.                                                *)
LEMMA StreamStallsKeeps ==
  ASSUME IInv, StreamStalls
  PROVE  IInv' /\ AcceptedStay
<1>1. /\ HasRoom /\ stream' = "stalled"
      /\ UNCHANGED <<sent, stored, job, session, auto, manual, archivals>>
  BY DEF StreamStalls
<1>2. PICK start \in {sent - 1, sent} \ {0} : gap' = Registered(start, None, FALSE)
  BY DEF StreamStalls
<1> QED
  BY <1>1, <1>2, OutageFacts, OutageKeeps

(* The connection of the stream ends.                                      *)
LEMMA StreamBreaksKeeps ==
  ASSUME IInv, StreamBreaks
  PROVE  IInv' /\ AcceptedStay
<1>1. /\ HasRoom /\ stream' = "off" /\ gap' = Registered(sent, None, TRUE)
      /\ UNCHANGED <<sent, stored, job, session, auto, manual, archivals>>
  BY DEF StreamBreaks
<1> QED
  BY <1>1, OutageFacts, OutageKeeps

(* QQ loses its login.                                                     *)
LEMMA LoginLostKeeps ==
  ASSUME IInv, LoginLost
  PROVE  IInv' /\ AcceptedStay
<1>1. /\ HasRoom /\ gap' = Registered(sent, None, TRUE) /\ session.login < MaxLogins
      /\ session' = [session EXCEPT !.online = FALSE,
                                    !.control = IF Active THEN "paused_session" ELSE @]
      /\ UNCHANGED <<sent, stored, stream, job, auto, manual, archivals>>
  BY DEF LoginLost
<1>2. /\ session' \in SessionType
      /\ session'.login = session.login
  BY <1>1, OutageFacts DEF SessionType
<1> QED
  BY <1>1, <1>2, OutageFacts, OutageKeeps

(* An administrator pauses the collection.                                 *)
LEMMA CollectionPausedKeeps ==
  ASSUME IInv, CollectionPaused
  PROVE  IInv' /\ AcceptedStay
<1>1. /\ HasRoom /\ gap' = Registered(sent, None, TRUE)
      /\ session' = [session EXCEPT !.control = "paused_manual"]
      /\ UNCHANGED <<sent, stored, stream, job, auto, manual, archivals>>
  BY DEF CollectionPaused
<1>2. /\ session' \in SessionType
      /\ session'.login = session.login /\ (~session'.online => ~session.online)
  BY <1>1, OutageFacts DEF SessionType
<1> QED
  BY <1>1, <1>2, OutageFacts, OutageKeeps

(* A gap is reported by hand.                                              *)
LEMMA GapReportedKeeps ==
  ASSUME IInv, NEW start \in 1 .. sent, NEW end \in 1 .. sent, GapReported(start, end)
  PROVE  IInv' /\ AcceptedStay
<1>1. /\ HasRoom /\ gap' = Registered(start, end, FALSE)
      /\ UNCHANGED <<sent, stored, stream, job, session, auto, manual, archivals>>
  BY DEF GapReported
<1>2. start \in 0 .. sent /\ end \in 0 .. sent
  BY Limits DEF IInv, TypeOK
<1> QED
  BY <1>1, <1>2, OutageFacts, OutageKeeps

(* A step that leaves the gaps alone, or cancels an active job.            *)
LEMMA AsideKeeps ==
  ASSUME IInv, TypeOK', CountersOK',
         UNCHANGED <<sent, stored, gap, auto, manual>>, job' \in {job, CancelledJob}
  PROVE  IInv' /\ AcceptedStay
<1>1. sent <= sent' /\ stored \subseteq stored'
  BY Limits DEF IInv, TypeOK
<1> QED
  BY <1>1, UnchangedRows, QuietKeeps

(* The stream is back.                                                     *)
LEMMA StreamReturnsKeeps ==
  ASSUME IInv, StreamReturns
  PROVE  IInv' /\ AcceptedStay
<1>1. /\ stream' = "on"
      /\ UNCHANGED <<sent, stored, gap, job, session, auto, manual, archivals>>
  BY DEF StreamReturns
<1>2. TypeOK' /\ CountersOK'
  BY <1>1 DEF IInv, TypeOK, CountersOK, Archived
<1> QED
  BY <1>1, <1>2, AsideKeeps

(* QQ is logged in again.                                                  *)
LEMMA LoggedInKeeps ==
  ASSUME IInv, LoggedIn
  PROVE  IInv' /\ AcceptedStay
<1>1. /\ ~session.online /\ session' = [session EXCEPT !.online = TRUE, !.login = @ + 1]
      /\ UNCHANGED <<sent, stored, stream, gap, job, auto, manual, archivals>>
  BY DEF LoggedIn
<1>2. session.login \in 1 .. MaxLogins /\ session.login < MaxLogins
  BY <1>1 DEF IInv, TypeOK, CountersOK, SessionType
<1>3. session.login + 1 \in 1 .. MaxLogins
  BY <1>2, Limits
<1>4. /\ session' \in SessionType
      /\ session'.online
  BY <1>1, <1>3, OutageFacts DEF SessionType
<1>5. TypeOK' /\ CountersOK'
  BY <1>1, <1>4 DEF IInv, TypeOK, CountersOK, Archived
<1> QED
  BY <1>1, <1>5, AsideKeeps

(* An administrator resumes the collection.                                *)
LEMMA CollectionResumedKeeps ==
  ASSUME IInv, CollectionResumed
  PROVE  IInv' /\ AcceptedStay
<1>1. /\ session' = [session EXCEPT !.control = IF session.online THEN "active" ELSE "paused_session"]
      /\ UNCHANGED <<sent, stored, stream, gap, job, auto, manual, archivals>>
  BY DEF CollectionResumed
<1>2. /\ session' \in SessionType
      /\ session'.login = session.login /\ (~session'.online => ~session.online)
  BY <1>1, OutageFacts DEF SessionType
<1>3. TypeOK' /\ CountersOK'
  BY <1>1, <1>2 DEF IInv, TypeOK, CountersOK, Archived
<1> QED
  BY <1>1, <1>3, AsideKeeps

(* A group is archived, and its job cancelled.                             *)
LEMMA GroupArchivedKeeps ==
  ASSUME IInv, GroupArchived
  PROVE  IInv' /\ AcceptedStay
<1>1. /\ archivals < MaxArchivals /\ archivals' = archivals + 1 /\ job' = CancelledJob
      /\ UNCHANGED <<sent, stored, stream, gap, session, auto, manual>>
  BY DEF GroupArchived
<1>2. archivals' \in 0 .. MaxArchivals + 1 /\ archivals' <= MaxArchivals
  BY <1>1, Limits DEF IInv, TypeOK
<1>3. TypeOK' /\ CountersOK'
  BY <1>1, <1>2, CancelledJobFacts DEF IInv, TypeOK, CountersOK, Archived
<1> QED
  BY <1>1, <1>3, AsideKeeps

-----------------------------------------------------------------------------
(* Administrators                                                          *)

(* A row looked up again is in order among the rows as they are.           *)
LEMMA FreshRow ==
  ASSUME IInv, NEW g \in Ids
  PROVE  LET q == Refreshed(g, stored) IN
         /\ RowOK(q, sent, stored) /\ q \in GapType
         /\ q.status = gap[g].status /\ q.start = gap[g].start /\ q.end = gap[g].end
         /\ q.confirmed = gap[g].confirmed /\ q.cursor = gap[g].cursor
         /\ Follows(gap[g], q) /\ (OpenRow(q) => OpenRow(gap[g]))
<1>1. TypeOK /\ RowsOK
  BY DEF IInv
<1>2. sent \in Nat /\ sent <= sent /\ sent <= Messages /\ stored \in SUBSET (1 .. sent)
  BY <1>1, Limits DEF TypeOK
<1> DEFINE q == Refreshed(g, stored)
<1>3. /\ RowOK(q, sent, stored)
      /\ q.status = gap[g].status /\ q.start = gap[g].start /\ q.end = gap[g].end
      /\ q.confirmed = gap[g].confirmed /\ q.cursor = gap[g].cursor
  BY <1>1, <1>2, RefreshedRow
<1> HIDE DEF q
<1> QED
  BY <1>3 DEF RowOK, Follows, Stays, OpenRow, q

(* A row's status is set, to a state of a gap that is not under repair.    *)
LEMMA RowMarked ==
  ASSUME NEW n, NEW S, NEW r, RowOK(r, n, S), NEW status \in {"paused", "accepted"},
         r.status \notin {"none", "repaired"}, r.status = "accepted" => status = "accepted",
         status = "paused" => r.end # None
  PROVE  LET q == [r EXCEPT !.status = status] IN
         RowOK(q, n, S) /\ Follows(r, q) /\ (OpenRow(q) => OpenRow(r))
<1> DEFINE q == [r EXCEPT !.status = status]
<1>1. r \in GapType
  BY DEF RowOK
<1>2. /\ q \in GapType /\ q.status = status /\ q.start = r.start /\ q.end = r.end
      /\ q.before = r.before /\ q.after = r.after /\ q.cursor = r.cursor
      /\ q.confirmed = r.confirmed
  BY <1>1 DEF GapType
<1> HIDE DEF q
<1>3. RowOK(q, n, S)
  BY <1>2 DEF RowOK, Walked
<1>4. Follows(r, q) /\ (OpenRow(q) => OpenRow(r))
  BY <1>2 DEF Follows, Stays, OpenRow
<1> QED
  BY <1>3, <1>4 DEF q

(* A step of an administrator that replaces one row by another like it.    *)
LEMMA RowStepKeeps ==
  ASSUME IInv, NEW u \in Ids, NEW q, gap' = [gap EXCEPT ![u] = q],
         RowOK(q, sent, stored), Follows(gap[u], q), OpenRow(q) => OpenRow(gap[u]),
         job' \in {job, CancelledJob},
         UNCHANGED <<sent, stored, stream, session, auto, manual, archivals>>
  PROVE  IInv' /\ AcceptedStay
<1>1. /\ gap' \in [Ids -> GapType]
      /\ \A g \in Ids : RowOK(gap'[g], sent', stored') /\ Follows(gap[g], gap'[g])
      /\ \A g, h \in Ids : OpenRow(gap'[g]) /\ OpenRow(gap'[h]) => g = h
  BY ReplacedRow
<1>2. TypeOK' /\ CountersOK'
  BY <1>1, CancelledJobFacts DEF IInv, TypeOK, CountersOK, Archived
<1>3. sent <= sent' /\ stored \subseteq stored'
  BY Limits DEF IInv, TypeOK
<1> QED
  BY <1>1, <1>2, <1>3, QuietKeeps

(* A repair that the budget refuses has cancelled the job.                 *)
LEMMA RepairRefusedKeeps ==
  ASSUME IInv, NEW g \in Ids, RepairRefused(g)
  PROVE  IInv' /\ AcceptedStay
<1>1. /\ gap' = [gap EXCEPT ![g] = Refreshed(g, stored)]
      /\ job' \in {job, CancelledJob}
      /\ UNCHANGED <<sent, stored, stream, session, auto, manual, archivals>>
  BY DEF RepairRefused
<1> QED
  BY <1>1, FreshRow, RowStepKeeps

(* An administrator pauses a repair.                                       *)
LEMMA RepairPausedKeeps ==
  ASSUME IInv, NEW g \in Ids, RepairPaused(g)
  PROVE  IInv' /\ AcceptedStay
<1>1. /\ gap[g].status = "repairing"
      /\ gap' = [gap EXCEPT ![g] = [gap[g] EXCEPT !.status = "paused"]]
      /\ UNCHANGED <<sent, stored, stream, job, session, auto, manual, archivals>>
  BY DEF RepairPaused
<1>2. RowOK(gap[g], sent, stored) /\ gap[g].end # None
  BY <1>1 DEF IInv, RowsOK, RowOK
<1> QED
  BY <1>1, <1>2, RowMarked, RowStepKeeps

(* An administrator accepts a gap.                                         *)
LEMMA GapAcceptedKeeps ==
  ASSUME IInv, NEW g \in Ids, GapAccepted(g)
  PROVE  IInv' /\ AcceptedStay
<1>1. /\ gap[g].status \notin {"none", "repaired", "accepted"}
      /\ gap' = [gap EXCEPT ![g] = [gap[g] EXCEPT !.status = "accepted"]]
      /\ UNCHANGED <<sent, stored, stream, job, session, auto, manual, archivals>>
  BY DEF GapAccepted
<1>2. RowOK(gap[g], sent, stored)
  BY DEF IInv, RowsOK
<1> QED
  BY <1>1, <1>2, RowMarked, RowStepKeeps

-----------------------------------------------------------------------------
(* The repair loop of the API                                              *)

(* The page wanted for a gap that has ended leaves nothing out above it.   *)
LEMMA WantedCursor ==
  ASSUME IInv, NEW r, RowOK(r, sent, stored)
  PROVE  /\ Wanted(r) \in CursorType /\ Wanted(r).seq <= sent
         /\ Walked(Wanted(r), r, stored)
<1>1. r \in GapType
  BY DEF RowOK
<1>2. /\ r.after \in Nat /\ r.end \in Nat /\ r.after <= Messages /\ r.cursor \in CursorType
      /\ sent \in Nat /\ session.login \in 0 .. MaxLogins
  BY <1>1, RowFields, Limits DEF IInv, TypeOK, SessionType
<1>3. CASE r.cursor = NoCursor /\ r.after # None
  <2>1. Wanted(r) = Cursor(r.after, session.login)
    BY <1>3 DEF Wanted
  <2>2. r.after >= r.end /\ r.after <= sent
    BY <1>3 DEF RowOK
  <2>3. Wanted(r).seq = r.after /\ Wanted(r) \in CursorType
    <3>1. r.after \in 0 .. Messages
      BY <1>2, Limits
    <3> QED
      BY <1>2, <2>1, <3>1 DEF Cursor, CursorType
  <2>4. r.after .. r.end - 1 \subseteq stored
    BY <1>2, <2>2
  <2> QED
    BY <2>2, <2>3, <2>4 DEF Walked
<1>4. CASE ~(r.cursor = NoCursor /\ r.after # None)
  BY <1>2, <1>4 DEF Wanted, RowOK
<1> QED
  BY <1>3, <1>4

(* The repair loop is refused a request and waits.                         *)
LEMMA ManualWaitsKeeps ==
  ASSUME IInv, ManualWaits
  PROVE  IInv' /\ AcceptedStay
<1>1. UNCHANGED <<sent, stored, stream, job, session, auto, manual, archivals>>
  BY DEF ManualWaits
<1>2. PICK g \in Ids : /\ IsNext(g)
                       /\ gap' = [gap EXCEPT ![g] =
                            [Refreshed(g, stored) EXCEPT !.cursor = Wanted(Refreshed(g, stored))]]
  BY DEF ManualWaits
<1> DEFINE r == Refreshed(g, stored)
<1> DEFINE q == [r EXCEPT !.cursor = Wanted(r)]
<1>3. /\ RowOK(r, sent, stored) /\ r \in GapType /\ r.status = gap[g].status
      /\ Follows(gap[g], r) /\ (OpenRow(r) => OpenRow(gap[g]))
  BY FreshRow
<1>4. gap[g].status = "repairing" /\ gap' = [gap EXCEPT ![g] = q]
  BY <1>2 DEF IsNext, Repairing
<1> HIDE DEF r
<1>5. Wanted(r) \in CursorType /\ Wanted(r).seq <= sent /\ Walked(Wanted(r), r, stored)
  BY <1>3, WantedCursor
<1>6. /\ q \in GapType /\ q.status = r.status /\ q.start = r.start /\ q.end = r.end
      /\ q.before = r.before /\ q.after = r.after /\ q.cursor = Wanted(r)
      /\ q.confirmed = r.confirmed
  BY <1>3, <1>5 DEF GapType
<1> HIDE DEF q
<1>7. RowOK(q, sent, stored)
  BY <1>3, <1>4, <1>5, <1>6 DEF RowOK, Walked
<1>8. Follows(gap[g], q) /\ (OpenRow(q) => OpenRow(gap[g]))
  BY <1>3, <1>6 DEF Follows, Stays, OpenRow
<1> QED
  BY <1>1, <1>4, <1>7, <1>8, RowStepKeeps

(* What an idle loop remembers.                                            *)
LEMMA IdleManual ==
  ASSUME NEW wake \in BOOLEAN
  PROVE  /\ ManualIdle(wake) \in ManualType
         /\ ManualIdle(wake).pc = "idle" /\ ManualIdle(wake).wake = wake
         /\ ManualIdle(wake).cursor.seq = 0
<1>1. NoCursor \in CursorType /\ NoCursor.seq = 0
  BY Limits DEF NoCursor, Cursor, CursorType
<1>2. None \in 0 .. Gaps /\ None \in 0 .. Messages
  BY Limits
<1> QED
  BY <1>1, <1>2 DEF ManualIdle, ManualType

(* The repair loop finds nothing to do and sleeps.                         *)
LEMMA ManualSleepsKeeps ==
  ASSUME IInv, ManualSleeps
  PROVE  IInv' /\ AcceptedStay
<1>1. /\ Repairing = {}
      /\ sent' = sent /\ stored' = stored /\ stream' = stream /\ gap' = gap /\ job' = job
      /\ session' = session /\ auto' = auto /\ archivals' = archivals
  BY DEF ManualSleeps
<1>2. /\ manual' \in ManualType
      /\ manual'.pc = "idle" /\ manual'.cursor.seq = 0
  <2>1. manual' = ManualIdle(FALSE)
    BY DEF ManualSleeps
  <2> QED
    BY <2>1, IdleManual
<1>3. TypeOK' /\ CountersOK' /\ RowsOK' /\ OneOpenGap' /\ JobOK' /\ TickOK'
  <2>1. TypeOK'
    BY <1>1, <1>2 DEF IInv, TypeOK
  <2>2. CountersOK'
    BY <1>1 DEF IInv, CountersOK, Archived
  <2>3. RowsOK' /\ OneOpenGap' /\ JobOK' /\ TickOK'
    BY <1>1 DEF IInv, RowsOK, OneOpenGap, OpenEnded, JobOK, JobActive, Ticking, SomeEnded, TickOK
  <2> QED
    BY <2>1, <2>2, <2>3
<1>4. ManualOK'
  <2>1. 0 <= sent'
    BY <1>1, Limits DEF IInv, TypeOK
  <2> QED
    BY <1>2, <2>1 DEF ManualOK
<1>5. SleepingLeaves' /\ EndingLeaves' /\ OnlyCancelledIsLeft'
  BY <1>1 DEF SleepingLeaves, EndingLeaves, OnlyCancelledIsLeft, Repairing
<1>6. WalksOK'
  BY <1>1 DEF IInv, WalksOK, OneWalk, RepairedIsComplete
<1>7. AcceptedStay
  BY <1>1 DEF AcceptedStay
<1> QED
  BY <1>3, <1>4, <1>5, <1>6, <1>7 DEF IInv

(* The repair loop changes one row, and is awake.                          *)
LEMMA LoopStepKeeps ==
  ASSUME IInv, NEW u \in Ids, NEW q, gap' = [gap EXCEPT ![u] = q],
         NEW S \in SUBSET (1 .. sent), stored' = stored \cup S,
         RowOK(q, sent, stored'), Stays(gap[u], q), OpenRow(q) => OpenRow(gap[u]),
         OneWalk /\ q.status = "repaired" =>
           gap[u].status = "repaired" \/ q.start + 1 .. q.end - 1 \subseteq stored',
         job' \in {job, CancelledJob}, auto' = auto,
         manual' \in ManualType,
         gap[u].status # "accepted" \/ (manual.pc = "asked" /\ manual.gap = u /\ manual'.pc = "idle"),
         manual'.wake, GapsStay => ManualOK',
         UNCHANGED <<sent, stream, session, archivals>>
  PROVE  IInv' /\ AcceptedStay
<1>1. gap \in [Ids -> GapType] /\ q \in GapType /\ sent \in Nat /\ stored \in SUBSET (1 .. sent)
  BY Limits DEF IInv, TypeOK, RowOK
<1>2. gap'[u] = q /\ \A g \in Ids : g # u => gap'[g] = gap[g]
  BY <1>1
<1>3. \A g \in Ids : RowOK(gap'[g], sent', stored')
  <2>1. \A g \in Ids : RowOK(gap[g], sent', stored')
    BY <1>1, RowGrows DEF IInv, RowsOK
  <2> QED
    BY <1>2, <2>1
<1>4. GapsStay
  <2>1. \A g \in Ids : Stays(gap[g], gap'[g])
    BY <1>2 DEF Stays
  <2>2. sent' \in Nat /\ sent <= sent' /\ stored \subseteq stored'
    BY <1>1
  <2> QED
    BY <1>1, <1>3, <2>1, <2>2 DEF GapsStay
<1>5. TypeOK'
  <2>1. gap' \in [Ids -> GapType] /\ stored' \in SUBSET (1 .. sent)
    BY <1>1
  <2> QED
    BY <2>1, CancelledJobFacts DEF IInv, TypeOK
<1>6. CountersOK' /\ RowsOK'
  BY <1>3 DEF IInv, CountersOK, Archived, RowsOK
<1>7. OneOpenGap'
  <2>1. \A g \in Ids : OpenRow(gap'[g]) => OpenRow(gap[g])
    BY <1>2
  <2> QED
    BY <2>1 DEF IInv, OneOpenGap, OpenEnded, OpenRow
<1>8. JobOK' /\ TickOK'
  BY <1>4, JobKept, TickKept
<1>9. SleepingLeaves' /\ EndingLeaves' /\ OnlyCancelledIsLeft'
  BY DEF SleepingLeaves, EndingLeaves, OnlyCancelledIsLeft, WorkedOn
<1>10. WalksOK'
  <2>1. job'.cursor \in {job.cursor, NoCursor}
    BY CancelledJobFacts DEF IInv
  <2>2. \A g \in Ids : OneWalk /\ gap'[g].status = "repaired" =>
          gap[g].status = "repaired" \/ gap'[g].start + 1 .. gap'[g].end - 1 \subseteq stored'
    BY <1>2
  <2> QED
    BY <1>4, <2>1, <2>2, WalksKept
<1>11. AcceptedStay
  BY <1>2 DEF AcceptedStay
<1> QED
  BY <1>4, <1>5, <1>6, <1>7, <1>8, <1>9, <1>10, <1>11 DEF IInv

(* An administrator starts a repair and wakes the loop.                    *)
LEMMA RepairStartedKeeps ==
  ASSUME IInv, NEW g \in Ids, RepairStarted(g)
  PROVE  IInv' /\ AcceptedStay
<1> DEFINE r == Refreshed(g, stored)
<1> DEFINE q == [r EXCEPT !.status = "repairing"]
<1>1. /\ gap[g].end # None /\ gap' = [gap EXCEPT ![g] = q] /\ job' = CancelledJob
      /\ gap[g].status # "accepted" /\ manual' = [manual EXCEPT !.wake = TRUE]
      /\ UNCHANGED <<sent, stored, stream, session, auto, archivals>>
  BY DEF RepairStarted, StartAllowed, Unresolved
<1>2. /\ RowOK(r, sent, stored) /\ r \in GapType /\ r.end = gap[g].end /\ Follows(gap[g], r)
  BY FreshRow
<1> HIDE DEF r
<1>3. /\ q \in GapType /\ q.status = "repairing" /\ q.start = r.start /\ q.end = r.end
      /\ q.before = r.before /\ q.after = r.after /\ q.cursor = r.cursor
      /\ q.confirmed = r.confirmed
  BY <1>2 DEF GapType
<1> HIDE DEF q
<1>4. RowOK(q, sent, stored)
  BY <1>1, <1>2, <1>3 DEF RowOK, Walked
<1>5. Stays(gap[g], q) /\ ~OpenRow(q)
  BY <1>1, <1>2, <1>3 DEF Follows, Stays, OpenRow
<1>6. /\ manual' \in ManualType
      /\ manual'.wake
  BY <1>1 DEF IInv, TypeOK, ManualType
<1>7. GapsStay => ManualOK'
  BY <1>1, ManualKept
<1>8. stored' = stored \cup {} /\ {} \in SUBSET (1 .. sent)
  BY <1>1
<1> QED
  BY <1>1, <1>3, <1>4, <1>5, <1>6, <1>7, <1>8, LoopStepKeeps

(* The repair loop asks for the page of a gap.                             *)
LEMMA ManualAsksKeeps ==
  ASSUME IInv, ManualAsks
  PROVE  IInv' /\ AcceptedStay
<1>1. UNCHANGED <<sent, stored, stream, job, session, auto, archivals>>
  BY DEF ManualAsks
<1>2. PICK g \in Ids : /\ IsNext(g)
                       /\ gap' = [gap EXCEPT ![g] = Refreshed(g, stored)]
                       /\ manual' = [pc |-> "asked", wake |-> TRUE, gap |-> g,
                                     cursor |-> Wanted(Refreshed(g, stored)),
                                     before |-> Refreshed(g, stored).before,
                                     after |-> Refreshed(g, stored).after]
  BY DEF ManualAsks
<1> DEFINE r == Refreshed(g, stored)
<1>3. /\ RowOK(r, sent, stored) /\ r \in GapType /\ r.status = gap[g].status /\ r.end = gap[g].end
      /\ Follows(gap[g], r) /\ (OpenRow(r) => OpenRow(gap[g]))
  BY FreshRow
<1>4. gap[g].status = "repairing" /\ gap' = [gap EXCEPT ![g] = r]
  BY <1>2 DEF IsNext, Repairing
<1>5. /\ manual'.pc = "asked" /\ manual'.wake /\ manual'.gap = g /\ manual'.cursor = Wanted(r)
      /\ manual'.before = r.before
      /\ manual' = [pc |-> "asked", wake |-> TRUE, gap |-> g, cursor |-> Wanted(r),
                    before |-> r.before, after |-> r.after]
  BY <1>2
<1> HIDE DEF r
<1>6. Wanted(r) \in CursorType /\ Wanted(r).seq <= sent /\ Walked(Wanted(r), r, stored)
  BY <1>3, WantedCursor
<1>7. manual' \in ManualType
  <2>1. g \in 0 .. Gaps /\ r.before \in 0 .. Messages /\ r.after \in 0 .. Messages
    BY <1>3, Limits DEF Ids, GapType
  <2> QED
    BY <1>5, <1>6, <2>1 DEF ManualType
<1>8. ManualOK'
  <2>1. gap'[g] = r
    BY <1>4 DEF IInv, TypeOK
  <2>2. r.end # None /\ r.before <= r.start
    BY <1>3, <1>4 DEF RowOK
  <2> QED
    BY <1>1, <1>5, <1>6, <2>1, <2>2 DEF ManualOK
<1>9. stored' = stored \cup {} /\ {} \in SUBSET (1 .. sent)
  BY <1>1
<1>10. r.status # "repaired" /\ Stays(gap[g], r)
  BY <1>3, <1>4 DEF Follows
<1>11. RowOK(r, sent, stored')
  BY <1>1, <1>3
<1> QED
  BY <1>1, <1>3, <1>4, <1>5, <1>7, <1>8, <1>9, <1>10, <1>11, LoopStepKeeps

(* A page that follows a walk continues it: from the next cursor, and from *)
(* any message of the page, up to the end of the gap nothing is missing.   *)
LEMMA PageWalked ==
  ASSUME IInv, NEW c \in CursorType, c.seq <= sent,
         NEW r, RowOK(r, sent, stored), r.end # None, Walked(c, r, stored)
  PROVE  /\ Walked(NextCursor(Page(c)), r, stored \cup Page(c))
         /\ \A b \in Page(c) : b .. r.end - 1 \subseteq stored \cup Page(c)
<1> DEFINE page == Page(c)
<1> DEFINE T == stored \cup page
<1> DEFINE top == Top(c)
<1> DEFINE next == NextCursor(page)
<1>1. /\ page \subseteq 1 .. sent /\ top \in 0 .. sent
      /\ \A m \in page : m .. top \subseteq page
      /\ next \in CursorType
      /\ next # NoCursor => next.seq .. top \subseteq page
  BY PageFacts DEF IInv
<1>2. sent \in Nat /\ r.end \in Nat /\ r.end <= sent + 1
  BY RowFields, Limits DEF IInv, TypeOK, RowOK
<1>3. top + 1 .. r.end - 1 \subseteq stored
  <2>1. CASE c = NoCursor
    <3>1. top = sent
      BY <2>1 DEF Top
    <3> HIDE DEF top
    <3> QED
      BY <1>2, <3>1
  <2>2. CASE c # NoCursor
    <3>1. top = c.seq /\ c.seq .. r.end - 1 \subseteq stored /\ c.seq \in Nat
      BY <2>2, Limits DEF Top, Walked, CursorType
    <3> HIDE DEF top
    <3> QED
      BY <1>2, <3>1
  <2> QED
    BY <2>1, <2>2
<1>4. next # NoCursor => next.seq \in Nat
  BY <1>1 DEF CursorType
<1> HIDE DEF page, top, next
<1>5. ASSUME NEW b \in Nat, b .. top \subseteq page
      PROVE  b .. r.end - 1 \subseteq T
  BY <1>1, <1>2, <1>3, <1>5
<1>6. next # NoCursor => next.seq .. r.end - 1 \subseteq T
  BY <1>1, <1>4, <1>5
<1>7. \A b \in page : b .. r.end - 1 \subseteq T
  <2>1. \A b \in page : b \in Nat
    BY <1>1, <1>2
  <2> QED
    BY <1>1, <1>5, <2>1
<1> QED
  BY <1>6, <1>7 DEF Walked, page, next

(* The page of the repair loop arrives.                                    *)
LEMMA ManualAnsweredKeeps ==
  ASSUME IInv, ManualAnswered
  PROVE  IInv' /\ AcceptedStay
<1> DEFINE page == Page(manual.cursor)
<1> DEFINE status == CASE Proves(page, manual) -> "repaired"
                       [] ~Proves(page, manual) /\ Exhausts(page, manual.cursor) -> "unverified"
                       [] OTHER -> "repairing"
<1> DEFINE next == IF status = "repairing" THEN NextCursor(page) ELSE NoCursor
<1> DEFINE g == manual.gap
<1> DEFINE r == gap[g]
<1> DEFINE q == [r EXCEPT !.status = status, !.cursor = next]
<1>1. /\ manual.pc = "asked" /\ stored' = stored \cup page /\ manual' = ManualIdle(TRUE)
      /\ UNCHANGED <<sent, stream, job, session, auto, archivals>>
      /\ gap' = [gap EXCEPT ![g].status = status, ![g].cursor = next]
  BY DEF ManualAnswered
<1>2. /\ g \in Ids /\ r.end # None /\ manual.before <= r.start
      /\ Walked(manual.cursor, r, stored) /\ manual.cursor.seq <= sent
  BY <1>1 DEF IInv, ManualOK
<1>3. manual.cursor \in CursorType /\ sent \in Nat /\ gap \in [Ids -> GapType] /\ r \in GapType
  BY <1>2, Limits DEF IInv, TypeOK, ManualType
<1>4. gap' = [gap EXCEPT ![g] = q]
  BY <1>1, <1>2, <1>3
<1>5. RowOK(r, sent, stored)
  BY <1>2 DEF IInv, RowsOK
<1>6. /\ Walked(NextCursor(page), r, stored')
      /\ \A b \in page : b .. r.end - 1 \subseteq stored'
  BY <1>1, <1>2, <1>3, <1>5, PageWalked
<1>7. page \subseteq 1 .. sent /\ NextCursor(page) \in CursorType /\ NextCursor(page).seq <= sent
  BY <1>2, <1>3, PageFacts DEF IInv
<1>8. status \in {"repaired", "unverified", "repairing"} /\ (status = "repaired" => Proves(page, manual))
  OBVIOUS
<1>9. NoCursor \in CursorType /\ NoCursor.seq = 0 /\ 0 <= sent
  BY <1>3, Limits DEF NoCursor, Cursor, CursorType
<1> HIDE DEF status
<1>10. next \in CursorType /\ next.seq <= sent /\ Walked(next, r, stored')
  BY <1>6, <1>7, <1>9 DEF Walked
<1> HIDE DEF next, page, g, r
<1>11. /\ q \in GapType /\ q.status = status /\ q.start = r.start /\ q.end = r.end
       /\ q.before = r.before /\ q.after = r.after /\ q.cursor = next
       /\ q.confirmed = r.confirmed
  BY <1>3, <1>8, <1>10 DEF GapType
<1> HIDE DEF q
<1>12. RowOK(q, sent, stored')
  BY <1>2, <1>5, <1>8, <1>10, <1>11 DEF RowOK, Walked
<1>13. Stays(r, q) /\ ~OpenRow(q)
  BY <1>2, <1>11 DEF Stays, OpenRow
<1>14. q.status = "repaired" => q.start + 1 .. q.end - 1 \subseteq stored'
  <2> SUFFICES ASSUME status = "repaired" PROVE r.start + 1 .. r.end - 1 \subseteq stored'
    BY <1>11
  <2>1. manual.before \in page
    BY <1>8 DEF Proves
  <2>2. manual.before .. r.end - 1 \subseteq stored'
    BY <1>6, <2>1
  <2>3. manual.before \in Nat /\ r.start \in Nat /\ r.end \in Nat
    BY <1>3, RowFields, Limits DEF IInv, TypeOK, ManualType
  <2> QED
    BY <1>2, <2>2, <2>3
<1>15. /\ manual' \in ManualType
       /\ manual'.wake /\ manual'.pc = "idle" /\ manual'.cursor.seq = 0
  BY <1>1, IdleManual
<1>16. ManualOK'
  BY <1>1, <1>9, <1>15 DEF ManualOK
<1> QED
  BY <1>1, <1>2, <1>4, <1>7, <1>12, <1>13, <1>14, <1>15, <1>16, LoopStepKeeps DEF g, r

(* The request of the repair loop fails.                                   *)
LEMMA ManualFailsKeeps ==
  ASSUME IInv, ManualFails
  PROVE  IInv' /\ AcceptedStay
<1> DEFINE g == manual.gap
<1> DEFINE r == gap[g]
<1> DEFINE q == [r EXCEPT !.status = "paused", !.cursor = manual.cursor]
<1>1. /\ manual.pc = "asked" /\ manual' = ManualIdle(TRUE)
      /\ UNCHANGED <<sent, stored, stream, job, session, auto, archivals>>
      /\ gap' = [gap EXCEPT ![g].status = "paused", ![g].cursor = manual.cursor]
  BY DEF ManualFails
<1>2. /\ g \in Ids /\ r.end # None
      /\ Walked(manual.cursor, r, stored) /\ manual.cursor.seq <= sent
  BY <1>1 DEF IInv, ManualOK
<1>3. manual.cursor \in CursorType /\ sent \in Nat /\ gap \in [Ids -> GapType] /\ r \in GapType
  BY <1>2, Limits DEF IInv, TypeOK, ManualType
<1>4. gap' = [gap EXCEPT ![g] = q]
  BY <1>1, <1>2, <1>3
<1>5. RowOK(r, sent, stored)
  BY <1>2 DEF IInv, RowsOK
<1> HIDE DEF g, r
<1>6. /\ q \in GapType /\ q.status = "paused" /\ q.start = r.start /\ q.end = r.end
      /\ q.before = r.before /\ q.after = r.after /\ q.cursor = manual.cursor
      /\ q.confirmed = r.confirmed
  BY <1>3 DEF GapType
<1> HIDE DEF q
<1>7. RowOK(q, sent, stored')
  BY <1>1, <1>2, <1>5, <1>6 DEF RowOK, Walked
<1>8. Stays(r, q) /\ ~OpenRow(q)
  BY <1>2, <1>6 DEF Stays, OpenRow
<1>9. /\ manual' \in ManualType
      /\ manual'.wake /\ manual'.pc = "idle" /\ manual'.cursor.seq = 0
  BY <1>1, IdleManual
<1>10. ManualOK'
  <2>1. 0 <= sent'
    BY <1>1, <1>3
  <2> QED
    BY <1>9, <2>1 DEF ManualOK
<1>11. stored' = stored \cup {} /\ {} \in SUBSET (1 .. sent)
  BY <1>1
<1> QED
  BY <1>1, <1>2, <1>4, <1>6, <1>7, <1>8, <1>9, <1>10, <1>11, LoopStepKeeps DEF g, r

-----------------------------------------------------------------------------
(* Restarts and recovered sessions                                         *)

(* Every repair is paused, and nobody works on any.                        *)
LEMMA AllPausedKeeps ==
  ASSUME IInv, TypeOK', CountersOK', sent' = sent, stored' = stored,
         \A g \in Ids : /\ RowOK(gap'[g], sent', stored') /\ Follows(gap[g], gap'[g])
                        /\ gap'[g].status # "repairing",
         \A g, h \in Ids : OpenRow(gap'[g]) /\ OpenRow(gap'[h]) => g = h,
         job'.cursor \in {job.cursor, NoCursor}, auto' = auto \/ auto' = AutoAt("starting"),
         GapsStay => JobOK', GapsStay => ManualOK'
  PROVE  IInv' /\ AcceptedStay
<1>1. GapsStay
  <2>1. sent \in Nat
    BY Limits DEF IInv, TypeOK
  <2> QED
    BY <2>1 DEF GapsStay, Follows
<1>2. RowsOK' /\ OneOpenGap'
  BY DEF RowsOK, OneOpenGap, OpenEnded, OpenRow
<1>3. Repairing' = {}
  BY DEF Repairing
<1>4. SleepingLeaves' /\ EndingLeaves' /\ OnlyCancelledIsLeft'
  BY <1>3 DEF SleepingLeaves, EndingLeaves, OnlyCancelledIsLeft
<1>5. WalksOK'
  <2>1. \A g \in Ids : gap'[g].status = "repaired" => gap[g].status = "repaired"
    BY DEF Follows
  <2>2. auto'.cursor \in {auto.cursor, NoCursor} /\ auto'.page \in {auto.page, {}}
    BY DEF AutoAt
  <2> QED
    BY <1>1, <2>1, <2>2, WalksKept
<1>6. AcceptedStay
  BY DEF AcceptedStay, Follows
<1>7. TickOK'
  BY <1>1, TickKept
<1> QED
  BY <1>1, <1>2, <1>4, <1>5, <1>6, <1>7 DEF IInv

(* The API process dies and starts.                                        *)
LEMMA ApiRestartsKeeps ==
  ASSUME IInv, ApiRestarts
  PROVE  IInv' /\ AcceptedStay
<1>1. /\ sent' = sent /\ stored' = stored /\ stream' = stream /\ job' = job
      /\ session' = session /\ auto' = auto /\ archivals' = archivals
  BY DEF ApiRestarts
<1>2. /\ manual' \in ManualType
      /\ manual'.pc = "idle" /\ manual'.cursor.seq = 0
  <2>1. manual' = ManualIdle(FALSE)
    BY DEF ApiRestarts
  <2> QED
    BY <2>1, IdleManual
<1>3. sent \in Nat /\ gap \in [Ids -> GapType] /\ \A g \in Ids : RowOK(gap[g], sent, stored)
  BY Limits DEF IInv, TypeOK, RowsOK
<1>4. /\ gap' \in [Ids -> GapType]
      /\ \A g \in Ids : /\ RowOK(gap'[g], sent, stored) /\ Follows(gap[g], gap'[g])
                        /\ gap'[g].status # "repairing" /\ (OpenRow(gap'[g]) => OpenRow(gap[g]))
  <2>1. gap' = Paused(gap)
    BY DEF ApiRestarts
  <2> QED
    BY <1>3, <2>1, PausedRows
<1>5. TypeOK'
  BY <1>1, <1>2, <1>4 DEF IInv, TypeOK
<1>6. CountersOK'
  BY <1>1 DEF IInv, CountersOK, Archived
<1>7. \A g, h \in Ids : OpenRow(gap'[g]) /\ OpenRow(gap'[h]) => g = h
  BY <1>4 DEF IInv, OneOpenGap, OpenEnded, OpenRow
<1>8. ManualOK'
  <2>1. 0 <= sent'
    BY <1>1, <1>3
  <2> QED
    BY <1>2, <2>1 DEF ManualOK
<1>9. GapsStay => JobOK'
  <2>1. auto' = auto
    BY <1>1
  <2> QED
    BY <1>1, <2>1, JobKept
<1> QED
  BY <1>1, <1>4, <1>5, <1>6, <1>7, <1>8, <1>9, AllPausedKeeps

(* What a tick that holds nothing remembers.                               *)
LEMMA IdleAuto ==
  ASSUME NEW pc \in {"starting", "idle", "picked", "ending", "failing"}
  PROVE  /\ AutoAt(pc) \in AutoType
         /\ AutoAt(pc).pc = pc /\ AutoAt(pc).cursor = NoCursor
         /\ AutoAt(pc).page = {} /\ AutoAt(pc).todo = {} /\ AutoAt(pc).found = "none"
<1>1. NoCursor \in CursorType
  BY Limits DEF NoCursor, Cursor, CursorType
<1> QED
  BY <1>1 DEF AutoAt, AutoType

(* The collector dies and starts.                                          *)
LEMMA CollectorRestartsKeeps ==
  ASSUME IInv, CollectorRestarts
  PROVE  IInv' /\ AcceptedStay
<1>1. /\ stream' = "off"
      /\ \/ session' = session
         \/ session.online /\ session' = [session EXCEPT !.control = "active"]
      /\ sent' = sent /\ stored' = stored /\ job' = job /\ manual' = manual
      /\ archivals' = archivals
  BY DEF CollectorRestarts
<1>2. auto' = AutoAt("starting") /\ auto' \in AutoType
  BY IdleAuto DEF CollectorRestarts
<1>3. sent \in Nat /\ gap \in [Ids -> GapType] /\ \A g \in Ids : RowOK(gap[g], sent, stored)
  BY Limits DEF IInv, TypeOK, RowsOK
<1>4. /\ gap' \in [Ids -> GapType]
      /\ \A g \in Ids : /\ RowOK(gap'[g], sent, stored) /\ Follows(gap[g], gap'[g])
                        /\ gap'[g].status # "repairing"
      /\ \A g, h \in Ids : OpenRow(gap'[g]) /\ OpenRow(gap'[h]) => g = h
  <2>1. CASE gap' = Paused(gap)
    <3>1. /\ gap' \in [Ids -> GapType]
          /\ \A g \in Ids : /\ RowOK(gap'[g], sent, stored) /\ Follows(gap[g], gap'[g])
                            /\ gap'[g].status # "repairing" /\ (OpenRow(gap'[g]) => OpenRow(gap[g]))
      BY <1>3, <2>1, PausedRows
    <3>2. \A g, h \in Ids : OpenRow(gap[g]) /\ OpenRow(gap[h]) => g = h
      BY DEF IInv, OneOpenGap, OpenEnded, OpenRow
    <3> QED
      BY <3>1, <3>2
  <2>2. ASSUME HasRoom, NEW start \in {sent - 1, sent} \ {0},
               gap' = Paused(Registered(start, None, FALSE))
        PROVE  /\ gap' \in [Ids -> GapType]
               /\ \A g \in Ids : /\ RowOK(gap'[g], sent, stored) /\ Follows(gap[g], gap'[g])
                                 /\ gap'[g].status # "repairing"
               /\ \A g, h \in Ids : OpenRow(gap'[g]) /\ OpenRow(gap'[h]) => g = h
    <3> DEFINE N == Registered(start, None, FALSE)
    <3>1. /\ N \in [Ids -> GapType]
          /\ \A g \in Ids : RowOK(N[g], sent, stored) /\ Follows(gap[g], N[g])
          /\ \A g, h \in Ids : OpenRow(N[g]) /\ OpenRow(N[h]) => g = h
      <4>1. TypeOK /\ RowsOK /\ OneOpenGap
        BY DEF IInv
      <4>2. start \in 0 .. sent /\ None \in 0 .. sent
        BY OutageFacts
      <4> QED
        BY <2>2, <4>1, <4>2, RegisteredRows
    <3> HIDE DEF N
    <3>2. gap' = Paused(N)
      BY <2>2 DEF N
    <3>3. /\ gap' \in [Ids -> GapType]
          /\ \A g \in Ids : /\ RowOK(gap'[g], sent, stored) /\ Follows(N[g], gap'[g])
                            /\ gap'[g].status # "repairing" /\ (OpenRow(gap'[g]) => OpenRow(N[g]))
      BY <1>3, <3>1, <3>2, PausedRows
    <3>4. \A g \in Ids : Follows(gap[g], gap'[g])
      BY <3>1, <3>3 DEF Follows, Stays
    <3> QED
      BY <3>1, <3>3, <3>4
  <2> QED
    BY <2>1, <2>2 DEF CollectorRestarts
<1>5. /\ session' \in SessionType
      /\ session'.login = session.login /\ session'.online = session.online
  BY <1>1, OutageFacts DEF SessionType
<1>6. TypeOK'
  BY <1>1, <1>2, <1>4, <1>5 DEF IInv, TypeOK
<1>7. CountersOK'
  BY <1>1, <1>5 DEF IInv, CountersOK, Archived
<1>8. GapsStay => ManualOK' /\ JobOK'
  BY <1>1, <1>2, ManualKept, JobKept
<1> QED
  BY <1>1, <1>2, <1>4, <1>6, <1>7, <1>8, AllPausedKeeps

(* A job that is queued was none or complete, and is needed.               *)
LEMMA EnqueuedJob ==
  ASSUME NEW old \in JobType,
         NEW needed \in BOOLEAN
  PROVE  LET new == Enqueued(old, needed) IN
         /\ new \in JobType
         /\ new.cursor \in {old.cursor, NoCursor}
         /\ new # old => /\ needed /\ Whitelisted /\ new.status = "queued"
                         /\ old.status \in {"none", "complete"}
<1>1. NoCursor \in CursorType
  BY Limits DEF NoCursor, Cursor, CursorType
<1>2. CASE ~needed \/ ~Whitelisted
  <2>1. Enqueued(old, needed) = old
    BY <1>2, Limits DEF Enqueued
  <2> QED
    BY <2>1
<1>3. CASE needed /\ Whitelisted /\ old.status = "none"
  <2>1. Enqueued(old, needed) = [NoJob EXCEPT !.status = "queued"]
    BY <1>3, Limits DEF Enqueued
  <2> QED
    BY <1>1, <1>3, <2>1 DEF NoJob, JobType
<1>4. CASE needed /\ Whitelisted /\ old.status = "complete"
  <2>1. Enqueued(old, needed) = [old EXCEPT !.status = "queued"]
    BY <1>4, Limits DEF Enqueued
  <2> QED
    BY <1>4, <2>1 DEF JobType
<1>5. CASE needed /\ Whitelisted /\ old.status \notin {"none", "complete"}
  <2>1. Enqueued(old, needed) = old
    BY <1>5, Limits DEF Enqueued
  <2> QED
    BY <2>1
<1> QED
  BY <1>2, <1>3, <1>4, <1>5, Limits

(* Repairs of an old login are taken back, and their cursors with them.    *)
LEMMA InvalidatedRows ==
  ASSUME TypeOK, NEW gaps \in [Ids -> GapType],
         \A g \in Ids : RowOK(gaps[g], sent, stored) /\ gaps[g].status = gap[g].status
  PROVE  /\ Invalidated(gaps) \in [Ids -> GapType]
         /\ \A g \in Ids : LET q == Invalidated(gaps)[g] IN
              /\ RowOK(q, sent, stored) /\ Follows(gaps[g], q)
              /\ q.status # "repairing" /\ (OpenRow(q) => OpenRow(gaps[g]))
<1> DEFINE P == Paused(gaps)
<1>1. sent \in Nat /\ NoCursor \in CursorType /\ NoCursor.seq = 0
  BY Limits DEF TypeOK, NoCursor, Cursor, CursorType
<1>2. /\ P \in [Ids -> GapType]
      /\ \A g \in Ids : /\ RowOK(P[g], sent, stored) /\ P[g].status # "repairing"
                        /\ (OpenRow(P[g]) => OpenRow(gaps[g])) /\ Follows(gaps[g], P[g])
  BY <1>1, PausedRows
<1>3. Invalidated(gaps) =
        [g \in Ids |-> IF Unresolved(g) THEN [P[g] EXCEPT !.cursor = NoCursor] ELSE gaps[g]]
  BY DEF Invalidated
<1> HIDE DEF P
<1>4. ASSUME NEW g \in Ids
      PROVE  LET q == Invalidated(gaps)[g] IN
             /\ q \in GapType
             /\ RowOK(q, sent, stored) /\ Follows(gaps[g], q)
             /\ q.status # "repairing" /\ (OpenRow(q) => OpenRow(gaps[g]))
  <2>1. CASE Unresolved(g)
    <3> DEFINE q == [P[g] EXCEPT !.cursor = NoCursor]
    <3>1. Invalidated(gaps)[g] = q
      BY <1>3, <2>1
    <3>2. /\ q \in GapType /\ q.status = P[g].status /\ q.start = P[g].start /\ q.end = P[g].end
          /\ q.before = P[g].before /\ q.after = P[g].after /\ q.cursor = NoCursor
          /\ q.confirmed = P[g].confirmed
      BY <1>1, <1>2 DEF GapType
    <3> HIDE DEF q
    <3>3. RowOK(q, sent, stored)
      BY <1>1, <1>2, <3>2 DEF RowOK, Walked
    <3>4. /\ Follows(gaps[g], q) /\ q.status # "repairing"
          /\ (OpenRow(q) => OpenRow(gaps[g]))
      BY <1>2, <3>2 DEF Follows, Stays, OpenRow
    <3> QED
      BY <3>1, <3>2, <3>3, <3>4
  <2>2. CASE ~Unresolved(g)
    <3>1. Invalidated(gaps)[g] = gaps[g]
      BY <1>3, <2>2
    <3>2. gaps[g].status # "repairing"
      BY <2>2 DEF Unresolved
    <3> QED
      BY <3>1, <3>2 DEF Follows, Stays
  <2> QED
    BY <2>1, <2>2
<1> QED
  BY <1>3, <1>4

(* The watchdog recovers the session for a new login.                      *)
LEMMA SessionRecoveredKeeps ==
  ASSUME IInv, SessionRecovered
  PROVE  IInv' /\ AcceptedStay
<1>1. /\ sent' = sent /\ stored' = stored /\ stream' = stream /\ auto' = auto
      /\ manual' = manual /\ archivals' = archivals
      /\ auto.pc \in {"starting", "idle"} /\ session.online
      /\ session' = [session EXCEPT !.control = "active"]
  BY DEF SessionRecovered
<1>2. sent \in Nat /\ sent <= Messages /\ sent + 1 \in 1 .. sent + 1 /\ stored \in SUBSET (1 .. sent)
  BY Limits DEF IInv, TypeOK
<1> DEFINE C == Closed(sent + 1, stored)
<1>3. /\ C \in [Ids -> GapType]
      /\ \A g \in Ids : /\ RowOK(C[g], sent, stored) /\ ~OpenRow(C[g])
                        /\ C[g].status = gap[g].status /\ Follows(gap[g], C[g])
  <2>1. TypeOK /\ RowsOK
    BY DEF IInv
  <2> QED
    BY <1>2, <2>1, ClosedRows
<1>4. gap' = Invalidated(C)
  BY DEF SessionRecovered
<1> HIDE DEF C
<1>5. /\ gap' \in [Ids -> GapType]
      /\ \A g \in Ids : /\ RowOK(gap'[g], sent, stored) /\ Follows(C[g], gap'[g])
                        /\ gap'[g].status # "repairing" /\ (OpenRow(gap'[g]) => OpenRow(C[g]))
  <2>1. TypeOK
    BY DEF IInv
  <2> QED
    BY <1>3, <1>4, <2>1, InvalidatedRows
<1>6. \A g \in Ids : Follows(gap[g], gap'[g]) /\ ~OpenRow(gap'[g])
  BY <1>3, <1>5 DEF Follows, Stays
<1>7. /\ job' \in JobType
      /\ job'.cursor = NoCursor
      /\ JobActive' => Whitelisted /\ Repairable' # {}
  <2> DEFINE needed == Repairable' # {}
  <2>1. NoCursor \in CursorType
    BY Limits DEF NoCursor, Cursor, CursorType
  <2>2. /\ NoJob \in JobType
        /\ NoJob.cursor = NoCursor /\ NoJob.status = "none"
    BY <2>1 DEF NoJob, JobType
  <2>3. job' = NoJob \/ job' = Enqueued(NoJob, needed)
    BY DEF SessionRecovered
  <2>4. needed \in BOOLEAN
    OBVIOUS
  <2> HIDE DEF needed
  <2>5. CASE job' = NoJob
    BY <2>2, <2>5 DEF JobActive
  <2>6. CASE job' = Enqueued(NoJob, needed)
    <3>1. /\ job' \in JobType
          /\ job'.cursor = NoCursor
          /\ (job' # NoJob => needed /\ Whitelisted)
      BY <2>2, <2>4, <2>6, EnqueuedJob
    <3>2. JobActive' => needed /\ Whitelisted
      BY <2>2, <3>1 DEF JobActive
    <3> QED
      BY <3>1, <3>2 DEF needed
  <2> QED
    BY <2>3, <2>5, <2>6
<1>8. /\ session' \in SessionType
      /\ session'.online
  BY <1>1, OutageFacts DEF SessionType
<1>9. TypeOK'
  BY <1>1, <1>5, <1>7, <1>8 DEF IInv, TypeOK
<1>10. CountersOK'
  BY <1>1, <1>8 DEF IInv, CountersOK, Archived
<1>11. ASSUME GapsStay PROVE JobOK'
  <2>1. Repairable' # {} => SomeEnded'
    BY DEF Repairable, SomeEnded
  <2>2. SomeEnded => SomeEnded'
    BY <1>11 DEF SomeEnded, GapsStay, Stays
  <2>3. job'.cursor.seq <= sent' /\ auto'.cursor.seq <= sent'
    BY <1>1, <1>2, <1>7 DEF IInv, JobOK, NoCursor, Cursor, None
  <2>4. ~Ticking' /\ auto' = auto /\ job'.cursor = NoCursor
    BY <1>1, <1>7 DEF Ticking
  <2>5. auto'.cursor # NoCursor \/ auto'.page # {} => Whitelisted /\ SomeEnded'
    BY <2>2, <2>4 DEF IInv, JobOK
  <2> QED
    BY <1>7, <2>1, <2>3, <2>4, <2>5 DEF JobOK
<1>12. GapsStay => ManualOK'
  BY <1>1, ManualKept
<1> QED
  BY <1>1, <1>5, <1>6, <1>7, <1>9, <1>10, <1>11, <1>12, AllPausedKeeps

-----------------------------------------------------------------------------
(* The tick of the collector, between its writes to the gaps               *)

(* A step that leaves the gaps alone.                                      *)
LEMMA TickKeeps ==
  ASSUME IInv, TypeOK', CountersOK', TickOK', EndingLeaves', OnlyCancelledIsLeft',
         UNCHANGED <<sent, stored, gap, manual>>,
         job'.cursor \in {job.cursor, auto.cursor, NoCursor},
         auto'.cursor \in {auto.cursor, job.cursor, NextCursor(auto.page), NoCursor},
         auto'.page \in {auto.page, {}},
         JobActive' \/ Ticking' => Whitelisted /\ SomeEnded
  PROVE  IInv' /\ AcceptedStay
<1>1. sent' = sent /\ stored' = stored /\ gap' = gap /\ manual' = manual
  OBVIOUS
<1>2. GapsStay
  BY <1>1, Limits DEF GapsStay, Stays, IInv, TypeOK, RowsOK
<1>3. RowsOK' /\ OneOpenGap' /\ SleepingLeaves'
  BY <1>1 DEF IInv, RowsOK, OneOpenGap, OpenEnded, SleepingLeaves, Repairing, Repairable, Unresolved
<1>4. ManualOK'
  BY <1>1, <1>2, ManualKept
<1>5. JobOK'
  <2>1. SomeEnded <=> SomeEnded'
    BY <1>1 DEF SomeEnded
  <2>2. /\ NextCursor(auto.page).seq <= sent
        /\ NextCursor(auto.page) # NoCursor => auto.page # {}
    BY NextFacts DEF IInv, TickOK, NextCursor
  <2>3. job'.cursor.seq <= sent' /\ auto'.cursor.seq <= sent'
    <3>1. NoCursor.seq <= sent
      BY <1>1, Limits DEF IInv, TypeOK, NoCursor, Cursor
    <3> QED
      BY <1>1, <2>2, <3>1 DEF IInv, JobOK
  <2>4. job'.cursor # NoCursor \/ auto'.cursor # NoCursor \/ auto'.page # {}
          => Whitelisted /\ SomeEnded
    BY <2>2 DEF IInv, JobOK
  <2> QED
    BY <2>1, <2>3, <2>4 DEF JobOK
<1>6. WalksOK'
  BY <1>1, <1>2, WalksKept
<1>7. AcceptedStay
  BY <1>1 DEF AcceptedStay
<1> QED
  BY <1>3, <1>4, <1>5, <1>6, <1>7 DEF IInv

(* A job that is queued keeps what is known of it.                         *)
LEMMA EnqueuedKeeps ==
  ASSUME IInv, job' = job \/ job' = Enqueued(job, Repairable # {})
  PROVE  /\ job' \in JobType
         /\ job'.cursor \in {job.cursor, NoCursor}
         /\ JobActive' => Whitelisted /\ SomeEnded
         /\ JobActive => JobActive'
         /\ job.status = "cancelled" => job'.status = "cancelled"
<1>1. /\ job' \in JobType
      /\ job'.cursor \in {job.cursor, NoCursor}
      /\ job' # job => /\ Repairable # {} /\ Whitelisted /\ job'.status = "queued"
                       /\ job.status \in {"none", "complete"}
  <2>1. job \in JobType
    BY DEF IInv, TypeOK
  <2>2. CASE job' = job
    BY <2>1, <2>2
  <2>3. CASE job' = Enqueued(job, Repairable # {})
    BY <2>1, <2>3, EnqueuedJob
  <2> QED
    BY <2>2, <2>3
<1>2. JobActive' => Whitelisted /\ SomeEnded
  <2>1. Repairable # {} => SomeEnded
    BY DEF Repairable, SomeEnded
  <2>2. JobActive => Whitelisted /\ SomeEnded
    BY DEF IInv, JobOK
  <2> QED
    BY <1>1, <2>1, <2>2 DEF JobActive
<1>3. JobActive => JobActive'
  BY <1>1 DEF JobActive
<1> QED
  BY <1>1, <1>2, <1>3

(* The first tick of a process queues a job for the gaps it finds.         *)
LEMMA AutoStartsKeeps ==
  ASSUME IInv, AutoStarts
  PROVE  IInv' /\ AcceptedStay
<1>1. /\ sent' = sent /\ stored' = stored /\ stream' = stream /\ gap' = gap
      /\ session' = session /\ manual' = manual /\ archivals' = archivals
      /\ auto.pc = "starting" /\ auto' = AutoAt("idle")
      /\ job' = job \/ job' = Enqueued(job, Repairable # {})
  BY DEF AutoStarts
<1>2. /\ auto' \in AutoType
      /\ auto'.pc = "idle" /\ auto'.cursor = NoCursor /\ auto'.page = {} /\ auto'.todo = {}
  BY <1>1, IdleAuto
<1>3. /\ job' \in JobType
      /\ job'.cursor \in {job.cursor, NoCursor}
      /\ JobActive' => Whitelisted /\ SomeEnded
      /\ JobActive => JobActive'
      /\ job.status = "cancelled" => job'.status = "cancelled"
  BY <1>1, EnqueuedKeeps
<1>4. TypeOK' /\ CountersOK'
  BY <1>1, <1>2, <1>3 DEF IInv, TypeOK, CountersOK, Archived
<1>5. TickOK' /\ EndingLeaves' /\ ~Ticking' /\ ~Ticking
  BY <1>1, <1>2 DEF TickOK, EndingLeaves, Ticking
<1>6. OnlyCancelledIsLeft'
  BY <1>1, <1>3, <1>5 DEF IInv, OnlyCancelledIsLeft, WorkedOn, Repairing
<1>7. UNCHANGED <<sent, stored, gap, manual>>
  BY <1>1
<1> QED
  BY <1>2, <1>3, <1>4, <1>5, <1>6, <1>7, TickKeeps

(* An archived group is restored, and its job queued.                      *)
LEMMA GroupRestoredKeeps ==
  ASSUME IInv, GroupRestored
  PROVE  IInv' /\ AcceptedStay
<1>1. /\ sent' = sent /\ stored' = stored /\ stream' = stream /\ gap' = gap /\ auto' = auto
      /\ session' = session /\ manual' = manual
      /\ Archived /\ archivals' = archivals + 1
      /\ job' = Enqueued(job, Repairable # {})
  BY DEF GroupRestored
<1>2. /\ job' \in JobType
      /\ job'.cursor \in {job.cursor, NoCursor}
      /\ JobActive' => Whitelisted /\ SomeEnded
      /\ JobActive => JobActive'
      /\ job.status = "cancelled" => job'.status = "cancelled"
  BY <1>1, EnqueuedKeeps
<1>3. archivals \in 0 .. MaxArchivals + 1 /\ archivals <= MaxArchivals /\ archivals % 2 = 1
  BY <1>1 DEF IInv, TypeOK, CountersOK, Archived
<1>4. archivals' \in 0 .. MaxArchivals + 1 /\ archivals' % 2 # 1
  <2>1. archivals' \in 0 .. MaxArchivals + 1
    BY <1>1, <1>3, Limits
  <2>2. archivals \in Nat
    BY <1>3, Limits
  <2> QED
    BY <1>1, <1>3, <2>1, <2>2
<1>5. TypeOK' /\ CountersOK'
  BY <1>1, <1>2, <1>4 DEF IInv, TypeOK, CountersOK, Archived
<1>6. TickOK' /\ EndingLeaves' /\ (Ticking' <=> Ticking)
  BY <1>1 DEF IInv, TickOK, EndingLeaves, Ticking, Repairing
<1>7. OnlyCancelledIsLeft'
  BY <1>1, <1>2, <1>6 DEF IInv, OnlyCancelledIsLeft, WorkedOn, Repairing
<1>8. UNCHANGED <<sent, stored, gap, manual>> /\ auto' = auto
  BY <1>1
<1>9. Ticking => Whitelisted /\ SomeEnded
  BY DEF IInv, JobOK
<1> QED
  BY <1>2, <1>5, <1>6, <1>7, <1>8, <1>9, TickKeeps

(* The tick takes the job.                                                 *)
LEMMA AutoPicksKeeps ==
  ASSUME IInv, AutoPicks
  PROVE  IInv' /\ AcceptedStay
<1>1. /\ sent' = sent /\ stored' = stored /\ stream' = stream /\ gap' = gap /\ job' = job
      /\ session' = session /\ manual' = manual /\ archivals' = archivals
      /\ JobActive
      /\ auto' = [AutoAt("picked") EXCEPT !.cursor = job.cursor, !.seen = job.seen,
                                          !.rebased = job.rebased]
  BY DEF AutoPicks
<1>2. /\ auto' \in AutoType
      /\ auto'.pc = "picked" /\ auto'.cursor = job.cursor /\ auto'.page = {} /\ auto'.todo = {}
  <2>1. job \in JobType
    BY DEF IInv, TypeOK
  <2> QED
    BY <1>1, <2>1 DEF JobType, AutoType, AutoAt
<1>3. TypeOK' /\ CountersOK'
  BY <1>1, <1>2 DEF IInv, TypeOK, CountersOK, Archived
<1>4. TickOK' /\ EndingLeaves' /\ OnlyCancelledIsLeft'
  BY <1>2 DEF TickOK, EndingLeaves, OnlyCancelledIsLeft, WorkedOn, Ticking
<1>5. Whitelisted /\ SomeEnded
  BY <1>1 DEF IInv, JobOK
<1>6. UNCHANGED <<sent, stored, gap, manual>> /\ job' = job
  BY <1>1
<1> QED
  BY <1>2, <1>3, <1>4, <1>5, <1>6, TickKeeps

(* The tick drops the job of an archived group.                            *)
LEMMA AutoDropsKeeps ==
  ASSUME IInv, AutoDrops
  PROVE  IInv' /\ AcceptedStay
<1>1. /\ sent' = sent /\ stored' = stored /\ stream' = stream /\ gap' = gap
      /\ session' = session /\ manual' = manual /\ archivals' = archivals
      /\ auto' = AutoAt("idle")
      /\ job' = [job EXCEPT !.status = "cancelled", !.cursor = NoCursor]
  BY DEF AutoDrops
<1>2. /\ auto' \in AutoType
      /\ auto'.pc = "idle" /\ auto'.cursor = NoCursor /\ auto'.page = {} /\ auto'.todo = {}
  BY <1>1, IdleAuto
<1>3. /\ job' \in JobType
      /\ job'.cursor = NoCursor /\ job'.status = "cancelled"
  <2>1. NoCursor \in CursorType /\ job \in JobType
    BY Limits DEF NoCursor, Cursor, CursorType, IInv, TypeOK
  <2> QED
    BY <1>1, <2>1 DEF JobType
<1>4. TypeOK' /\ CountersOK'
  BY <1>1, <1>2, <1>3 DEF IInv, TypeOK, CountersOK, Archived
<1>5. TickOK' /\ EndingLeaves' /\ OnlyCancelledIsLeft' /\ ~Ticking' /\ ~JobActive'
  BY <1>2, <1>3 DEF TickOK, EndingLeaves, OnlyCancelledIsLeft, Ticking, JobActive
<1>6. UNCHANGED <<sent, stored, gap, manual>>
  BY <1>1
<1> QED
  BY <1>2, <1>3, <1>4, <1>5, <1>6, TickKeeps

(* The tick asks for the next page of its job.                             *)
LEMMA AutoAsksKeeps ==
  ASSUME IInv, AutoAsks
  PROVE  IInv' /\ AcceptedStay
<1>1. /\ sent' = sent /\ stored' = stored /\ stream' = stream /\ gap' = gap /\ job' = job
      /\ session' = session /\ manual' = manual /\ archivals' = archivals
      /\ auto.pc = "picked" /\ auto' = [auto EXCEPT !.pc = "asked"]
  BY DEF AutoAsks
<1>2. /\ auto' \in AutoType
      /\ auto'.pc = "asked" /\ auto'.cursor = auto.cursor /\ auto'.page = auto.page
      /\ auto'.todo = auto.todo
  BY <1>1 DEF IInv, TypeOK, AutoType
<1>3. TypeOK' /\ CountersOK'
  BY <1>1, <1>2 DEF IInv, TypeOK, CountersOK, Archived
<1>4. TickOK' /\ EndingLeaves' /\ OnlyCancelledIsLeft'
  BY <1>1, <1>2 DEF IInv, TickOK, EndingLeaves, OnlyCancelledIsLeft, WorkedOn, Ticking
<1>5. Whitelisted /\ SomeEnded
  BY <1>1 DEF IInv, JobOK, Ticking
<1>6. UNCHANGED <<sent, stored, gap, manual>> /\ job' = job
  BY <1>1
<1> QED
  BY <1>2, <1>3, <1>4, <1>5, <1>6, TickKeeps

(* The tick writes the job of a group with gaps, and is done: the job is   *)
(* active, or no gap is left under repair while the repair loop sleeps.    *)
LEMMA JobWrittenKeeps ==
  ASSUME IInv, Ticking, auto' = AutoAt("idle"), job' \in JobType,
         job'.cursor \in {job.cursor, auto.cursor, NoCursor},
         session' \in SessionType,
         session'.login = session.login /\ session'.online = session.online,
         JobActive' \/ manual.wake \/ Repairing = {},
         UNCHANGED <<sent, stored, stream, gap, manual, archivals>>
  PROVE  IInv' /\ AcceptedStay
<1>1. /\ auto' \in AutoType
      /\ auto'.pc = "idle" /\ auto'.cursor = NoCursor /\ auto'.page = {} /\ auto'.todo = {}
  BY IdleAuto
<1>2. TypeOK' /\ CountersOK'
  BY <1>1 DEF IInv, TypeOK, CountersOK, Archived
<1>3. TickOK' /\ EndingLeaves'
  BY <1>1 DEF TickOK, EndingLeaves
<1>4. OnlyCancelledIsLeft'
  BY DEF OnlyCancelledIsLeft, WorkedOn, Repairing
<1>5. Whitelisted /\ SomeEnded
  BY DEF IInv, JobOK
<1> QED
  BY <1>1, <1>2, <1>3, <1>4, <1>5, TickKeeps

(* The tick is refused a request and the job waits.                        *)
LEMMA AutoWaitsKeeps ==
  ASSUME IInv, AutoWaits
  PROVE  IInv' /\ AcceptedStay
<1>1. /\ UNCHANGED <<sent, stored, stream, gap, session, manual, archivals>>
      /\ auto.pc = "picked" /\ auto' = AutoAt("idle")
      /\ job' = [job EXCEPT !.status = "waiting_budget", !.cursor = auto.cursor]
  BY DEF AutoWaits
<1>2. /\ job' \in JobType
      /\ job'.cursor = auto.cursor /\ job'.status = "waiting_budget"
  <2>1. job \in JobType /\ auto.cursor \in CursorType
    BY DEF IInv, TypeOK, AutoType
  <2> QED
    BY <1>1, <2>1 DEF JobType
<1>3. JobActive' /\ Ticking
  BY <1>1, <1>2 DEF JobActive, Ticking
<1>4. session' \in SessionType /\ session'.login = session.login /\ session'.online = session.online
  BY <1>1, OutageFacts
<1> QED
  BY <1>1, <1>2, <1>3, <1>4, JobWrittenKeeps

(* The tick gives up a cursor QQ does not know.                            *)
LEMMA AutoRebasesKeeps ==
  ASSUME IInv, AutoRebases
  PROVE  IInv' /\ AcceptedStay
<1>1. /\ UNCHANGED <<sent, stored, stream, gap, session, manual, archivals>>
      /\ auto.pc = "asked" /\ auto' = AutoAt("idle")
      /\ job' = [job EXCEPT !.status = "queued", !.cursor = NoCursor, !.rebased = TRUE]
  BY DEF AutoRebases
<1>2. /\ job' \in JobType
      /\ job'.cursor = NoCursor /\ job'.status = "queued"
  <2>1. NoCursor \in CursorType /\ job \in JobType
    BY Limits DEF NoCursor, Cursor, CursorType, IInv, TypeOK
  <2> QED
    BY <1>1, <2>1 DEF JobType
<1>3. JobActive' /\ Ticking
  BY <1>1, <1>2 DEF JobActive, Ticking
<1>4. session' \in SessionType /\ session'.login = session.login /\ session'.online = session.online
  BY <1>1, OutageFacts
<1> QED
  BY <1>1, <1>2, <1>3, <1>4, JobWrittenKeeps

(* The tick writes what became of the job.                                 *)
LEMMA AutoEndsKeeps ==
  ASSUME IInv, AutoEnds
  PROVE  IInv' /\ AcceptedStay
<1>1. /\ UNCHANGED <<sent, stored, stream, gap, session, manual, archivals>>
      /\ auto.pc = "ending" /\ auto.todo = {} /\ auto' = AutoAt("idle")
      /\ job' = [job EXCEPT !.status = auto.found, !.seen = auto.seen, !.cursor = auto.cursor]
  BY DEF AutoEnds
<1>2. /\ job' \in JobType
      /\ job'.cursor = auto.cursor /\ job'.status = auto.found
  <2>1. /\ job \in JobType /\ auto.cursor \in CursorType /\ auto.seen \in BOOLEAN
        /\ auto.found \in {"complete", "unverified", "repairing"}
    BY <1>1 DEF IInv, TypeOK, AutoType, TickOK
  <2> QED
    BY <1>1, <2>1 DEF JobType
<1>3. JobActive' \/ manual.wake \/ Repairing = {}
  <2>1. CASE auto.found = "repairing"
    BY <1>2, <2>1 DEF JobActive
  <2>2. CASE auto.found # "repairing"
    BY <1>1, <2>2 DEF IInv, EndingLeaves
  <2> QED
    BY <2>1, <2>2
<1>4. session' \in SessionType /\ session'.login = session.login /\ session'.online = session.online
  BY <1>1, OutageFacts
<1>5. Ticking
  BY <1>1 DEF Ticking
<1> QED
  BY <1>1, <1>2, <1>3, <1>4, <1>5, JobWrittenKeeps

(* A session error pauses the collection.                                  *)
LEMMA AutoStopsKeeps ==
  ASSUME IInv, AutoStops
  PROVE  IInv' /\ AcceptedStay
<1>1. /\ UNCHANGED <<sent, stored, stream, gap, manual, archivals>> /\ job' = job
      /\ auto.pc = "failing" /\ auto.todo = {} /\ auto' = AutoAt("idle")
      /\ session' = IF session.online THEN session ELSE [session EXCEPT !.control = "paused_session"]
  BY DEF AutoStops
<1>2. job' \in JobType
  BY <1>1 DEF IInv, TypeOK
<1>3. manual.wake \/ Repairing = {}
  BY <1>1 DEF IInv, EndingLeaves
<1>4. /\ session' \in SessionType
      /\ session'.login = session.login /\ session'.online = session.online
  BY <1>1, OutageFacts DEF SessionType
<1>5. Ticking
  BY <1>1 DEF Ticking
<1> QED
  BY <1>1, <1>2, <1>3, <1>4, <1>5, JobWrittenKeeps

(* The request of the tick fails: the gaps to pause are listed.            *)
LEMMA AutoFailsKeeps ==
  ASSUME IInv, AutoFails
  PROVE  IInv' /\ AcceptedStay
<1>1. /\ sent' = sent /\ stored' = stored /\ stream' = stream /\ gap' = gap
      /\ session' = session /\ manual' = manual /\ archivals' = archivals
      /\ auto.pc = "asked" /\ auto' = [AutoAt("failing") EXCEPT !.todo = Repairable]
      /\ job' = [job EXCEPT !.status = "paused_error", !.cursor = NoCursor]
  BY DEF AutoFails
<1>2. /\ auto' \in AutoType
      /\ auto'.pc = "failing" /\ auto'.cursor = NoCursor /\ auto'.page = {}
      /\ auto'.todo = Repairable
  <2>1. Repairable \subseteq Ids
    BY DEF Repairable
  <2> QED
    BY <1>1, <2>1, IdleAuto DEF AutoType
<1>3. /\ job' \in JobType
      /\ job'.cursor = NoCursor
  <2>1. NoCursor \in CursorType /\ job \in JobType
    BY Limits DEF NoCursor, Cursor, CursorType, IInv, TypeOK
  <2> QED
    BY <1>1, <2>1 DEF JobType
<1>4. TypeOK' /\ CountersOK'
  BY <1>1, <1>2, <1>3 DEF IInv, TypeOK, CountersOK, Archived
<1>5. TickOK'
  BY <1>1, <1>2 DEF TickOK, Repairable
<1>6. EndingLeaves' /\ OnlyCancelledIsLeft'
  BY <1>1, <1>2 DEF IInv, SleepingLeaves, EndingLeaves, OnlyCancelledIsLeft, WorkedOn, Ticking, Repairing
<1>7. Whitelisted /\ SomeEnded
  BY <1>1 DEF IInv, JobOK, Ticking
<1>8. UNCHANGED <<sent, stored, gap, manual>>
  BY <1>1
<1> QED
  BY <1>2, <1>3, <1>4, <1>5, <1>6, <1>7, <1>8, TickKeeps

(* The gaps are listed once more, and it is decided what the job becomes.  *)
LEMMA AutoReviewsKeeps ==
  ASSUME IInv, AutoReviews
  PROVE  IInv' /\ AcceptedStay
<1> DEFINE found == CASE Repairable = {} -> "complete"
                      [] Repairable # {} /\ Exhausts(auto.page, auto.cursor) -> "unverified"
                      [] OTHER -> "repairing"
<1> DEFINE cursor == IF found = "repairing" THEN NextCursor(auto.page) ELSE NoCursor
<1> DEFINE todo == IF found = "unverified" THEN Repairable ELSE {}
<1>1. /\ sent' = sent /\ stored' = stored /\ stream' = stream /\ gap' = gap /\ job' = job
      /\ session' = session /\ manual' = manual /\ archivals' = archivals
      /\ auto.pc = "marking"
      /\ auto' = [AutoAt("ending") EXCEPT !.found = found, !.seen = auto.seen,
                                          !.cursor = cursor, !.todo = todo]
  BY DEF AutoReviews
<1>2. /\ found \in {"complete", "unverified", "repairing"}
      /\ found # "repairing" => Repairable \subseteq todo
  OBVIOUS
<1>3. todo \subseteq Repairable /\ Repairable \subseteq Ids
  BY DEF Repairable
<1>4. cursor \in {NextCursor(auto.page), NoCursor} /\ cursor \in CursorType
  <2>1. NextCursor(auto.page) \in CursorType /\ NoCursor \in CursorType
    BY NextFacts, Limits DEF IInv, TickOK, NoCursor, Cursor, CursorType
  <2> QED
    BY <2>1
<1> HIDE DEF found, cursor, todo
<1>5. /\ auto' \in AutoType
      /\ auto'.pc = "ending" /\ auto'.cursor = cursor /\ auto'.page = {} /\ auto'.todo = todo
      /\ auto'.found = found
  <2>1. auto.seen \in BOOLEAN
    BY DEF IInv, TypeOK, AutoType
  <2> QED
    BY <1>1, <1>2, <1>3, <1>4, <2>1, IdleAuto DEF AutoType
<1>6. TypeOK' /\ CountersOK'
  BY <1>1, <1>5 DEF IInv, TypeOK, CountersOK, Archived
<1>7. TickOK'
  BY <1>1, <1>2, <1>3, <1>5 DEF TickOK, Repairable
<1>8. EndingLeaves' /\ OnlyCancelledIsLeft'
  BY <1>1, <1>2, <1>5
     DEF IInv, SleepingLeaves, EndingLeaves, OnlyCancelledIsLeft, WorkedOn, Ticking, Repairing
<1>9. Whitelisted /\ SomeEnded
  BY <1>1 DEF IInv, JobOK, Ticking
<1>10. UNCHANGED <<sent, stored, gap, manual>> /\ job' = job
  BY <1>1
<1> QED
  BY <1>4, <1>5, <1>6, <1>7, <1>8, <1>9, <1>10, TickKeeps

-----------------------------------------------------------------------------
(* The page of a tick arrives                                              *)

(* The page is stored and the gaps are listed.                             *)
LEMMA AutoListsKeeps ==
  ASSUME IInv, AutoLists
  PROVE  IInv' /\ AcceptedStay
<1> DEFINE page == Page(auto.cursor)
<1>1. /\ sent' = sent /\ stored' = stored \cup page /\ stream' = stream /\ gap' = gap /\ job' = job
      /\ session' = session /\ manual' = manual /\ archivals' = archivals
      /\ auto.pc = "asked"
      /\ auto' = [auto EXCEPT !.pc = "marking", !.page = page, !.seen = Seen(page), !.todo = Repairable]
  BY DEF AutoLists
<1>2. Whitelisted /\ SomeEnded /\ auto.cursor.seq <= sent /\ auto.cursor \in CursorType
  BY <1>1 DEF IInv, JobOK, TypeOK, AutoType, Ticking
<1>3. page \in SUBSET (1 .. sent)
  BY <1>2, PageFacts DEF IInv
<1>4. /\ sent \in Nat /\ sent <= Messages /\ stored \in SUBSET (1 .. sent)
      /\ gap \in [Ids -> GapType]
  BY Limits DEF IInv, TypeOK
<1>5. /\ auto' \in AutoType
      /\ auto'.pc = "marking" /\ auto'.cursor = auto.cursor /\ auto'.page = page
      /\ auto'.todo = Repairable
  <2>1. Seen(page) \in BOOLEAN /\ Repairable \subseteq Ids /\ auto \in AutoType
    BY DEF Seen, Repairable, IInv, TypeOK, AutoType
  <2>2. page \subseteq 1 .. Messages
    BY <1>3, <1>4, Limits
  <2> HIDE DEF page
  <2> QED
    BY <1>1, <2>1, <2>2 DEF AutoType
<1>6. \A g \in Ids : RowOK(gap'[g], sent', stored')
  <2>1. stored \subseteq stored'
    BY <1>1
  <2> QED
    BY <1>1, <1>4, <2>1, RowGrows DEF IInv, RowsOK
<1>7. GapsStay
  BY <1>1, <1>4, <1>6 DEF GapsStay, Stays
<1>8. TypeOK' /\ CountersOK'
  <2>1. stored' \in SUBSET (1 .. sent)
    BY <1>1, <1>3, <1>4
  <2> QED
    BY <1>1, <1>5, <2>1 DEF IInv, TypeOK, CountersOK, Archived
<1>9. RowsOK' /\ OneOpenGap' /\ ManualOK'
  BY <1>1, <1>6, <1>7, ManualKept DEF IInv, RowsOK, OneOpenGap, OpenEnded
<1>10. JobOK'
  BY <1>1, <1>2, <1>5 DEF IInv, JobOK, SomeEnded, JobActive
<1>11. TickOK'
  BY <1>1, <1>3, <1>5 DEF TickOK, Repairable
<1>12. SleepingLeaves' /\ EndingLeaves' /\ OnlyCancelledIsLeft'
  BY <1>1, <1>5 DEF IInv, SleepingLeaves, EndingLeaves, OnlyCancelledIsLeft, WorkedOn, Ticking,
                    Repairing, Repairable, Unresolved
<1>13. WalksOK'
  <2> SUFFICES ASSUME OneWalk, NEW g \in Ids
               PROVE  /\ Walked(job.cursor, gap[g], stored')
                      /\ Walked(auto.cursor, gap[g], stored')
                      /\ PageReaches(page, gap[g], stored')
                      /\ gap[g].status = "repaired" =>
                           gap[g].start + 1 .. gap[g].end - 1 \subseteq stored'
    BY <1>1, <1>5 DEF WalksOK, OneWalk, RepairedIsComplete
  <2>1. /\ Walked(job.cursor, gap[g], stored) /\ Walked(auto.cursor, gap[g], stored)
        /\ gap[g].status = "repaired" => gap[g].start + 1 .. gap[g].end - 1 \subseteq stored
    BY DEF IInv, WalksOK, RepairedIsComplete
  <2>2. PageReaches(page, gap[g], stored')
    <3>1. RowOK(gap[g], sent, stored)
      BY DEF IInv, RowsOK
    <3>2. gap[g].end # None => \A b \in page : b .. gap[g].end - 1 \subseteq stored'
      BY <1>1, <1>2, <2>1, <3>1, PageWalked
    <3> QED
      BY <3>2 DEF PageReaches
  <2> QED
    BY <1>1, <2>1, <2>2 DEF Walked
<1>14. AcceptedStay
  BY <1>1 DEF AcceptedStay
<1> QED
  BY <1>8, <1>9, <1>10, <1>11, <1>12, <1>13, <1>14 DEF IInv

(* The tick writes one gap of its list.                                    *)
LEMMA TickRowKeeps ==
  ASSUME IInv, Ticking, NEW u \in auto.todo, NEW q, gap' = [gap EXCEPT ![u] = q],
         RowOK(q, sent, stored), q.end = gap[u].end, q.start = gap[u].start,
         q.confirmed = gap[u].confirmed,
         q.status = "repairing" => auto.pc = "marking",
         OneWalk /\ q.status = "repaired" => q.start + 1 .. q.end - 1 \subseteq stored,
         auto' = [auto EXCEPT !.todo = @ \ {u}],
         UNCHANGED <<sent, stored, stream, job, session, manual, archivals>>
  PROVE  IInv' /\ AcceptedStay
<1>1. /\ gap \in [Ids -> GapType] /\ q \in GapType /\ sent \in Nat /\ u \in Ids
      /\ gap[u].end # None /\ gap[u].confirmed
  BY Limits DEF IInv, TypeOK, RowOK, AutoType, TickOK
<1>2. gap'[u] = q /\ \A g \in Ids : g # u => gap'[g] = gap[g]
  BY <1>1
<1>3. /\ auto' \in AutoType
      /\ auto'.pc = auto.pc /\ auto'.cursor = auto.cursor /\ auto'.page = auto.page
      /\ auto'.todo = auto.todo \ {u} /\ auto'.found = auto.found
  <2>1. auto \in AutoType
    BY DEF IInv, TypeOK
  <2> QED
    BY <2>1 DEF AutoType
<1>4. \A g \in Ids : RowOK(gap'[g], sent', stored')
  BY <1>2 DEF IInv, RowsOK
<1>5. GapsStay
  <2>1. \A g \in Ids : Stays(gap[g], gap'[g])
    BY <1>2 DEF Stays
  <2> QED
    BY <1>1, <1>4, <2>1 DEF GapsStay
<1>6. TypeOK' /\ CountersOK' /\ RowsOK'
  <2>1. gap' \in [Ids -> GapType]
    BY <1>1
  <2> QED
    BY <1>3, <1>4, <2>1 DEF IInv, TypeOK, CountersOK, Archived, RowsOK
<1>7. OneOpenGap'
  <2>1. \A g \in Ids : OpenRow(gap'[g]) => OpenRow(gap[g])
    BY <1>1, <1>2 DEF OpenRow
  <2> QED
    BY <2>1 DEF IInv, OneOpenGap, OpenEnded, OpenRow
<1>8. ManualOK'
  BY <1>5, ManualKept
<1>9. JobOK'
  <2>1. SomeEnded'
    BY <1>1, <1>2 DEF SomeEnded
  <2> QED
    BY <1>3, <2>1 DEF IInv, JobOK
<1>10. TickOK'
  <2>1. auto.todo \subseteq Ids
    BY DEF IInv, TypeOK, AutoType
  <2> QED
    BY <1>2, <1>3, <2>1 DEF IInv, TickOK
<1>11. SleepingLeaves'
  <2> SUFFICES ASSUME ~manual.wake, NEW g \in Ids, gap'[g].status = "repairing"
               PROVE  gap'[g].confirmed /\ gap'[g].end # None
    BY DEF SleepingLeaves, Repairing, Repairable, Unresolved
  <2>1. CASE g = u
    BY <1>1, <1>2, <2>1
  <2>2. CASE g # u
    BY <1>2, <2>2 DEF IInv, SleepingLeaves, Repairing, Repairable
  <2> QED
    BY <2>1, <2>2
<1>12. EndingLeaves' /\ OnlyCancelledIsLeft'
  <2>1. auto.pc # "marking" => Repairing' \subseteq Repairing \ {u}
    BY <1>2 DEF Repairing
  <2> QED
    BY <1>3, <2>1 DEF IInv, EndingLeaves, OnlyCancelledIsLeft, WorkedOn, Ticking
<1>13. WalksOK'
  BY <1>2, <1>3, <1>5, WalksKept
<1>14. AcceptedStay
  BY <1>2, <1>3 DEF AcceptedStay
<1> QED
  BY <1>6, <1>7, <1>8, <1>9, <1>10, <1>11, <1>12, <1>13, <1>14 DEF IInv

(* A gap of the list is repaired, or found to be under repair.             *)
LEMMA AutoMarksKeeps ==
  ASSUME IInv, NEW g \in Ids, AutoMarks(g)
  PROVE  IInv' /\ AcceptedStay
<1> DEFINE r == Refreshed(g, stored)
<1> DEFINE status == IF auto.seen /\ Proves(auto.page, r) THEN "repaired" ELSE "repairing"
<1> DEFINE q == [r EXCEPT !.status = status, !.cursor = NoCursor]
<1>1. /\ auto.pc = "marking" /\ g \in auto.todo /\ auto' = [auto EXCEPT !.todo = @ \ {g}]
      /\ gap' = [gap EXCEPT ![g] = q]
      /\ UNCHANGED <<sent, stored, stream, job, session, manual, archivals>>
  BY DEF AutoMarks
<1>2. /\ status \in {"repaired", "repairing"}
      /\ status = "repaired" => r.before \in auto.page
  BY DEF Proves
<1>3. /\ RowOK(r, sent, stored) /\ r \in GapType /\ r.end = gap[g].end /\ r.start = gap[g].start
      /\ r.confirmed = gap[g].confirmed
  BY FreshRow
<1>4. gap[g].end # None /\ auto.page \subseteq 1 .. sent
  BY <1>1 DEF IInv, TickOK
<1>5. NoCursor \in CursorType /\ NoCursor.seq = 0 /\ sent \in Nat
  BY Limits DEF NoCursor, Cursor, CursorType, IInv, TypeOK
<1> HIDE DEF r, status
<1>6. /\ q \in GapType /\ q.status = status /\ q.start = r.start /\ q.end = r.end
      /\ q.before = r.before /\ q.after = r.after /\ q.cursor = NoCursor
      /\ q.confirmed = r.confirmed
  BY <1>2, <1>3, <1>5 DEF GapType
<1> HIDE DEF q
<1>7. RowOK(q, sent, stored)
  BY <1>2, <1>3, <1>4, <1>5, <1>6 DEF RowOK, Walked
<1>8. ASSUME OneWalk, status = "repaired"
      PROVE  r.start + 1 .. r.end - 1 \subseteq stored
  <2>1. r.before \in auto.page /\ r.before <= r.start
    BY <1>2, <1>3, <1>8 DEF RowOK
  <2>2. r.before .. r.end - 1 \subseteq stored
    <3>1. PageReaches(auto.page, gap[g], stored)
      BY <1>8 DEF IInv, WalksOK
    <3> QED
      BY <1>3, <1>4, <2>1, <3>1 DEF PageReaches
  <2>3. r.before \in Nat /\ r.start \in Nat /\ r.end \in Nat
    BY <1>3, RowFields
  <2> QED
    BY <2>1, <2>2, <2>3
<1>9. Ticking
  BY <1>1 DEF Ticking
<1> QED
  BY <1>1, <1>3, <1>6, <1>7, <1>8, <1>9, TickRowKeeps

(* A gap that has ended is given up or paused, without a cursor.           *)
LEMMA RowDropped ==
  ASSUME IInv, NEW g \in auto.todo, NEW status \in {"unverified", "paused"}
  PROVE  LET q == [gap[g] EXCEPT !.status = status, !.cursor = NoCursor] IN
         /\ RowOK(q, sent, stored) /\ q.status = status
         /\ q.end = gap[g].end /\ q.start = gap[g].start /\ q.confirmed = gap[g].confirmed
<1> DEFINE r == gap[g]
<1> DEFINE q == [r EXCEPT !.status = status, !.cursor = NoCursor]
<1>1. g \in Ids /\ r.end # None
  BY DEF IInv, TypeOK, AutoType, TickOK
<1>2. r \in GapType /\ RowOK(r, sent, stored)
  BY <1>1 DEF IInv, TypeOK, RowsOK
<1>3. NoCursor \in CursorType /\ NoCursor.seq = 0 /\ sent \in Nat
  BY Limits DEF NoCursor, Cursor, CursorType, IInv, TypeOK
<1>4. /\ q \in GapType /\ q.status = status /\ q.start = r.start /\ q.end = r.end
      /\ q.before = r.before /\ q.after = r.after /\ q.cursor = NoCursor
      /\ q.confirmed = r.confirmed
  BY <1>2, <1>3 DEF GapType
<1> HIDE DEF q
<1>5. RowOK(q, sent, stored)
  BY <1>1, <1>2, <1>3, <1>4 DEF RowOK, Walked
<1> QED
  BY <1>4, <1>5 DEF q

(* A gap is given up when the history is exhausted.                        *)
LEMMA AutoGivesUpKeeps ==
  ASSUME IInv, NEW g \in Ids, AutoGivesUp(g)
  PROVE  IInv' /\ AcceptedStay
<1> DEFINE q == [gap[g] EXCEPT !.status = "unverified", !.cursor = NoCursor]
<1>1. /\ auto.pc = "ending" /\ g \in auto.todo /\ auto' = [auto EXCEPT !.todo = @ \ {g}]
      /\ gap' = [gap EXCEPT ![g].status = "unverified", ![g].cursor = NoCursor]
      /\ UNCHANGED <<sent, stored, stream, job, session, manual, archivals>>
  BY DEF AutoGivesUp
<1>2. gap' = [gap EXCEPT ![g] = q]
  BY <1>1 DEF IInv, TypeOK
<1>3. /\ RowOK(q, sent, stored) /\ q.status = "unverified"
      /\ q.end = gap[g].end /\ q.start = gap[g].start /\ q.confirmed = gap[g].confirmed
  BY <1>1, RowDropped
<1> HIDE DEF q
<1>4. Ticking
  BY <1>1 DEF Ticking
<1> QED
  BY <1>1, <1>2, <1>3, <1>4, TickRowKeeps

(* A gap is paused when the request failed.                                *)
LEMMA AutoPausesKeeps ==
  ASSUME IInv, NEW g \in Ids, AutoPauses(g)
  PROVE  IInv' /\ AcceptedStay
<1> DEFINE q == [gap[g] EXCEPT !.status = "paused", !.cursor = NoCursor]
<1>1. /\ auto.pc = "failing" /\ g \in auto.todo /\ auto' = [auto EXCEPT !.todo = @ \ {g}]
      /\ gap' = [gap EXCEPT ![g].status = "paused", ![g].cursor = NoCursor]
      /\ UNCHANGED <<sent, stored, stream, job, session, manual, archivals>>
  BY DEF AutoPauses
<1>2. gap' = [gap EXCEPT ![g] = q]
  BY <1>1 DEF IInv, TypeOK
<1>3. /\ RowOK(q, sent, stored) /\ q.status = "paused"
      /\ q.end = gap[g].end /\ q.start = gap[g].start /\ q.confirmed = gap[g].confirmed
  BY <1>1, RowDropped
<1> HIDE DEF q
<1>4. Ticking
  BY <1>1 DEF Ticking
<1> QED
  BY <1>1, <1>2, <1>3, <1>4, TickRowKeeps

-----------------------------------------------------------------------------
(* Every run                                                               *)

(* The invariant holds at the start.                                       *)
LEMMA InitInv == Init => IInv
<1> SUFFICES ASSUME Init PROVE IInv
  OBVIOUS
<1>1. /\ sent = 1 /\ stored = {1} /\ stream = "on" /\ gap = [g \in Ids |-> NoGap] /\ job = NoJob
      /\ session = [login |-> 1, online |-> TRUE, control |-> "active"]
      /\ auto = AutoAt("starting") /\ manual = ManualIdle(FALSE)
      /\ archivals = 0
  BY DEF Init
<1>2. NoCursor \in CursorType /\ NoCursor.seq = 0
  BY Limits DEF NoCursor, Cursor, CursorType
<1>3. /\ NoGap \in GapType /\ NoGap.status = "none" /\ NoGap.start = 0 /\ NoGap.end = 0
      /\ NoGap.before = 0 /\ NoGap.after = 0 /\ NoGap.cursor = NoCursor
  <2>1. 0 \in 0 .. Messages /\ 0 \in 0 .. Messages + 1
    BY Limits
  <2> QED
    BY <1>2, <2>1, Limits DEF NoGap, GapType
<1>4. /\ auto \in AutoType
      /\ auto.pc = "starting" /\ auto.cursor = NoCursor /\ auto.page = {} /\ auto.todo = {}
  BY <1>1, IdleAuto
<1>5. /\ manual \in ManualType
      /\ manual.pc = "idle" /\ manual.cursor.seq = 0
  BY <1>1, IdleManual
<1>6. /\ job \in JobType
      /\ job.status = "none" /\ job.cursor = NoCursor
  BY <1>1, <1>2 DEF NoJob, JobType
<1>7. /\ session \in SessionType
      /\ session.online
  BY <1>1, Limits DEF SessionType
<1>8. TypeOK
  <2>1. sent \in 0 .. Messages /\ stored \in SUBSET (1 .. sent)
    BY <1>1, Limits
  <2>2. gap \in [Ids -> GapType]
    BY <1>1, <1>3
  <2>3. archivals \in 0 .. MaxArchivals + 1
    BY <1>1, Limits
  <2> QED
    BY <1>1, <1>4, <1>5, <1>6, <1>7, <2>1, <2>2, <2>3 DEF TypeOK
<1>9. CountersOK
  BY <1>1, <1>7 DEF CountersOK, Archived
<1>10. \A g \in Ids : gap[g] = NoGap
  BY <1>1
<1>11. RowsOK
  <2>1. RowOK(NoGap, sent, stored)
    BY <1>1, <1>2, <1>3, Limits DEF RowOK, Walked
  <2> QED
    BY <1>10, <2>1 DEF RowsOK
<1>12. ManualOK /\ JobOK /\ TickOK
  <2>1. sent = 1
    BY <1>1
  <2>2. ManualOK
    BY <1>5, <2>1 DEF ManualOK
  <2>3. JobOK
    BY <1>2, <1>4, <1>6, <2>1 DEF JobOK, JobActive, Ticking
  <2>4. TickOK
    BY <1>4 DEF TickOK
  <2> QED
    BY <2>2, <2>3, <2>4
<1>13. OneOpenGap /\ SleepingLeaves /\ EndingLeaves /\ OnlyCancelledIsLeft
  BY <1>3, <1>4, <1>10 DEF OneOpenGap, OpenEnded, SleepingLeaves, EndingLeaves, OnlyCancelledIsLeft, Repairing
<1>14. WalksOK
  BY <1>3, <1>4, <1>6, <1>10 DEF WalksOK, Walked, PageReaches, RepairedIsComplete
<1> QED
  BY <1>8, <1>9, <1>11, <1>12, <1>13, <1>14 DEF IInv

(* The invariant is inductive, and no step takes an acceptance back but    *)
(* for the page that was asked for and the gaps the tick has listed.       *)
LEMMA NextInv == IInv /\ [Next]_vars => IInv' /\ AcceptedStay
<1> SUFFICES ASSUME IInv, [Next]_vars PROVE IInv' /\ AcceptedStay
  OBVIOUS
<1>1. CASE MessageSent
  BY <1>1, MessageSentKeeps
<1>2. CASE Heartbeat
  BY <1>2, HeartbeatKeeps
<1>3. CASE StreamStalls
  BY <1>3, StreamStallsKeeps
<1>4. CASE StreamBreaks
  BY <1>4, StreamBreaksKeeps
<1>5. CASE StreamReturns
  BY <1>5, StreamReturnsKeeps
<1>6. CASE LoginLost
  BY <1>6, LoginLostKeeps
<1>7. CASE LoggedIn
  BY <1>7, LoggedInKeeps
<1>8. CASE SessionRecovered
  BY <1>8, SessionRecoveredKeeps
<1>9. CASE CollectionPaused
  BY <1>9, CollectionPausedKeeps
<1>10. CASE CollectionResumed
  BY <1>10, CollectionResumedKeeps
<1>11. CASE AutoStarts
  BY <1>11, AutoStartsKeeps
<1>12. CASE AutoPicks \/ AutoDrops \/ AutoAsks \/ AutoWaits
  BY <1>12, AutoPicksKeeps, AutoDropsKeeps, AutoAsksKeeps, AutoWaitsKeeps
<1>13. CASE AutoLists \/ AutoReviews \/ AutoEnds
  BY <1>13, AutoListsKeeps, AutoReviewsKeeps, AutoEndsKeeps
<1>14. CASE \E g \in Ids : AutoMarks(g) \/ AutoGivesUp(g) \/ AutoPauses(g)
  BY <1>14, AutoMarksKeeps, AutoGivesUpKeeps, AutoPausesKeeps
<1>15. CASE AutoRebases \/ AutoFails \/ AutoStops
  BY <1>15, AutoRebasesKeeps, AutoFailsKeeps, AutoStopsKeeps
<1>16. CASE \E start, end \in 1 .. sent : start <= end /\ GapReported(start, end)
  BY <1>16, GapReportedKeeps
<1>17. CASE \E g \in Ids : RepairStarted(g) \/ RepairRefused(g) \/ RepairPaused(g) \/ GapAccepted(g)
  BY <1>17, RepairStartedKeeps, RepairRefusedKeeps, RepairPausedKeeps, GapAcceptedKeeps
<1>18. CASE ManualSleeps
  BY <1>18, ManualSleepsKeeps
<1>19. CASE ManualAsks
  BY <1>19, ManualAsksKeeps
<1>20. CASE ManualWaits
  BY <1>20, ManualWaitsKeeps
<1>21. CASE ManualAnswered
  BY <1>21, ManualAnsweredKeeps
<1>22. CASE ManualFails
  BY <1>22, ManualFailsKeeps
<1>23. CASE GroupArchived
  BY <1>23, GroupArchivedKeeps
<1>24. CASE GroupRestored
  BY <1>24, GroupRestoredKeeps
<1>25. CASE ApiRestarts
  BY <1>25, ApiRestartsKeeps
<1>26. CASE CollectorRestarts
  BY <1>26, CollectorRestartsKeeps
<1>27. CASE UNCHANGED vars
  <2>1. /\ sent' = sent /\ stored' = stored /\ stream' = stream /\ gap' = gap /\ job' = job
        /\ session' = session /\ auto' = auto /\ manual' = manual
        /\ archivals' = archivals
    BY <1>27 DEF vars
  <2>2. TypeOK' /\ CountersOK'
    BY <2>1 DEF IInv, TypeOK, CountersOK, Archived
  <2>3. UNCHANGED <<sent, stored, gap, auto, manual>> /\ job' \in {job, CancelledJob}
    BY <2>1
  <2> QED
    BY <2>2, <2>3, AsideKeeps
<1> QED
  BY <1>1, <1>2, <1>3, <1>4, <1>5, <1>6, <1>7, <1>8, <1>9, <1>10, <1>11, <1>12, <1>13, <1>14,
     <1>15, <1>16, <1>17, <1>18, <1>19, <1>20, <1>21, <1>22, <1>23, <1>24, <1>25, <1>26, <1>27
     DEF Next

(* In every state rows, cursors and coroutines are in order: what the two  *)
(* repair loops remember fits the gaps they work on, whatever happened     *)
(* between their reads and the answers of QQ (store.py, sync.py).          *)
THEOREM InductiveInvariant == Spec => []IInv
<1>1. IInv /\ [Next]_vars => IInv'
  BY NextInv
<1> QED
  BY <1>1, InitInv, PTL DEF Spec

(* The rows of message_gaps and of the recovery jobs, the session and the  *)
(* coroutines are in states of their types.                                *)
THEOREM TypeCorrect == Spec => []TypeOK
<1>1. IInv => TypeOK
  BY DEF IInv
<1> QED
  BY <1>1, InductiveInvariant, PTL

(* create_message_gap joins an outage to the gap that is still open, so    *)
(* that one gap at most is open-ended, whoever registers the outage: the   *)
(* watchdog, a closed connection, a lost login, a pause or a restart.      *)
THEOREM OneOpenGapHolds == Spec => []OneOpenGap
<1>1. IInv => OneOpenGap
  BY DEF IInv
<1> QED
  BY <1>1, InductiveInvariant, PTL

(* A gap under repair with no loop at work on it was left by a job that    *)
(* was cancelled: restarts, failures and new logins pause what they leave. *)
THEOREM OnlyCancelledIsLeftHolds == Spec => []OnlyCancelledIsLeft
<1>1. IInv => OnlyCancelledIsLeft
  BY DEF IInv
<1> QED
  BY <1>1, InductiveInvariant, PTL

(* accept_message_gap holds against both loops, with two exceptions: the   *)
(* page that the repair loop had asked for, for that very gap, and the     *)
(* list of gaps that the tick is writing (runtime.py).                     *)
THEOREM AcceptanceIsFinal == Spec => AcceptanceHolds
<1>1. IInv /\ [Next]_vars =>
        [ \A g \in Ids : gap[g].status = "accepted" /\ gap'[g].status # "accepted"
            => \/ manual.pc = "asked" /\ manual.gap = g /\ manual'.pc = "idle"
               \/ g \in auto.todo \ auto'.todo ]_vars
  BY NextInv DEF AcceptedStay
<1> QED
  BY <1>1, InductiveInvariant, PTL DEF Spec, AcceptanceHolds

(* Nothing but a new login, or a tick that had taken the job before,       *)
(* revives a cancelled job: not a restart, a restored group or another     *)
(* outage.                                                                 *)
THEOREM CancellationIsFinal == Spec => CancelledStays
<1>1. TypeOK /\ [Next]_vars =>
        [ job.status = "cancelled" /\ job'.status # "cancelled"
            => \/ Ticking /\ auto'.pc # auto.pc
               \/ SessionRecovered ]_vars
  <2> SUFFICES ASSUME TypeOK, [Next]_vars, job.status = "cancelled",
                      ~(Ticking /\ auto'.pc # auto.pc), ~SessionRecovered
               PROVE  job'.status = "cancelled"
    OBVIOUS
  <2>1. CancelledJob = job
    BY DEF CancelledJob, JobActive
  <2>2. \A needed \in BOOLEAN : Enqueued(job, needed) = job
    <3>1. job \in JobType
      BY DEF TypeOK
    <3> QED
      BY <3>1, EnqueuedJob
  <2>3. CASE MessageSent \/ Heartbeat \/ StreamStalls \/ StreamBreaks \/ StreamReturns
    BY <2>3 DEF MessageSent, Heartbeat, StreamStalls, StreamBreaks, StreamReturns
  <2>4. CASE LoginLost \/ LoggedIn \/ CollectionPaused \/ CollectionResumed
    BY <2>4 DEF LoginLost, LoggedIn, CollectionPaused, CollectionResumed
  <2>5. CASE AutoStarts \/ GroupRestored
    BY <2>2, <2>5 DEF AutoStarts, GroupRestored
  <2>6. CASE AutoDrops \/ AutoWaits \/ AutoEnds \/ AutoRebases \/ AutoFails
    BY <2>6, IdleAuto DEF AutoDrops, AutoWaits, AutoEnds, AutoRebases, AutoFails, AutoAt, Ticking
  <2>7. CASE \/ AutoPicks \/ AutoAsks \/ AutoLists \/ AutoReviews \/ AutoStops
             \/ \E g \in Ids : AutoMarks(g) \/ AutoGivesUp(g) \/ AutoPauses(g)
    BY <2>7 DEF AutoPicks, AutoAsks, AutoLists, AutoReviews, AutoStops, AutoMarks, AutoGivesUp,
                AutoPauses
  <2>8. CASE \E start, end \in 1 .. sent : start <= end /\ GapReported(start, end)
    BY <2>8 DEF GapReported
  <2>9. CASE \E g \in Ids : RepairStarted(g) \/ RepairRefused(g) \/ RepairPaused(g) \/ GapAccepted(g)
    BY <2>1, <2>9 DEF RepairStarted, RepairRefused, RepairPaused, GapAccepted
  <2>10. CASE ManualSleeps \/ ManualAsks \/ ManualWaits \/ ManualAnswered \/ ManualFails
    BY <2>10 DEF ManualSleeps, ManualAsks, ManualWaits, ManualAnswered, ManualFails
  <2>11. CASE GroupArchived
    BY <2>1, <2>11 DEF GroupArchived
  <2>12. CASE ApiRestarts \/ CollectorRestarts
    BY <2>12 DEF ApiRestarts, CollectorRestarts
  <2>13. CASE UNCHANGED vars
    BY <2>13 DEF vars
  <2> QED
    BY <2>3, <2>4, <2>5, <2>6, <2>7, <2>8, <2>9, <2>10, <2>11, <2>12, <2>13 DEF Next
<1> QED
  BY <1>1, TypeCorrect, PTL DEF Spec, CancelledStays

(* A gap that is marked repaired has no hole if automatic repair is out of *)
(* the picture, the group not being whitelisted, or if there is one gap.   *)
(* With two gaps and automatic repair one cursor walks for both of them,   *)
(* and the property fails.                                                 *)
THEOREM RepairedIsCompleteHolds ==
  ASSUME ~Whitelisted \/ Gaps <= 1
  PROVE  Spec => []RepairedIsComplete
<1>1. IInv => RepairedIsComplete
  BY DEF IInv, WalksOK, OneWalk
<1> QED
  BY <1>1, InductiveInvariant, PTL
=============================================================================
