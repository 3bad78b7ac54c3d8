--------------------------- MODULE CampaignProofs ---------------------------
(***************************************************************************)
(* For every set of turns, sheets and notes: what the versions of a        *)
(* group's records promise to every writer, that no operation leaves a     *)
(* card out of its range, and what an undo gives back.                     *)
(***************************************************************************)
EXTENDS Campaign, NaturalsInduction, WellFoundedInduction, FiniteSetTheorems,
        FunctionTheorems, TLAPS

-----------------------------------------------------------------------------
(* What a version stands for                                               *)

(* What was read last still stands for the records: no writer has written, *)
(* though the collector may have counted versions while one was about to.  *)
(* A writer that computes the next version read the one that was named.    *)
NamedIsLast ==
  /\ version \in Nat
  /\ named \in [version : Nat, contents : {Contents}]
  /\ named.version <= version
  /\ writing.kind = "none" => named.version = version
  /\ writing.kind \in {"commit", "undo"} => writing.version = named.version

(* Steps that read name the contents by a version that is never one        *)
(* already used for others.                                                *)
NamesOneContent ==
  /\ named'.version >= named.version
  /\ named'.version = named.version => named' = named

(* Every step keeps what was named last, and names one content.            *)
LEMMA NamedStep ==
  ASSUME NamedIsLast, [Next]_vars
  PROVE  NamedIsLast' /\ (NamesOneContent \/ UNCHANGED named)
<1>1. /\ version \in Nat /\ named.version \in Nat /\ named.version <= version
      /\ named.contents = Contents
      /\ named = [version |-> named.version, contents |-> named.contents]
      /\ writing.kind = "none" => named.version = version
      /\ writing.kind \in {"commit", "undo"} => writing.version = named.version
  BY DEF NamedIsLast
<1>2. ASSUME NEW o, Begin(o),
             o.kind \in {"commit", "undo"} => o.version = version
      PROVE  NamedIsLast' /\ (NamesOneContent \/ UNCHANGED named)
  <2>1. /\ version' = version /\ named' = named /\ Contents' = Contents /\ writing' = o
        /\ writing.kind = "none"
    BY <1>2 DEF Begin, Contents
  <2> QED
    BY <1>1, <1>2, <2>1 DEF NamedIsLast
<1>3. ASSUME Read, version' \in Nat, version' > named.version, writing' = NotWriting
      PROVE  NamedIsLast' /\ (NamesOneContent \/ UNCHANGED named)
  <2>1. named' = [version |-> version', contents |-> Contents'] /\ writing'.kind = "none"
    BY <1>3 DEF Read, NotWriting
  <2>2. named'.version = version' /\ named' \in [version : Nat, contents : {Contents'}]
    BY <1>3, <2>1
  <2>3. NamedIsLast'
    BY <1>3, <2>1, <2>2 DEF NamedIsLast
  <2>4. NamesOneContent
    BY <1>1, <1>3, <2>2 DEF NamesOneContent
  <2> QED
    BY <2>3, <2>4
<1>4. CASE \E turn \in Turns : CommitBegins(turn)
  <2>1. PICK turn \in Turns : Begin([kind |-> "commit", turn |-> turn, version |-> version])
    BY <1>4 DEF CommitBegins
  <2> QED
    BY <1>2, <2>1
<1>5. CASE \E i \in 1 .. Len(changes) : UndoBegins(i)
  <2>1. PICK i \in 1 .. Len(changes) :
           Begin([kind |-> "undo", change |-> i, version |-> version])
    BY <1>5 DEF UndoBegins
  <2> QED
    BY <1>2, <2>1
<1>6. CASE \E sheet \in Sheets, policy \in {"preserve", "reset"} : ReplaceBegins(sheet, policy)
  <2>1. PICK sheet \in Sheets, policy \in {"preserve", "reset"} :
           Begin([kind |-> "replace", sheet |-> sheet, policy |-> policy])
    BY <1>6 DEF ReplaceBegins
  <2> QED
    BY <1>2, <2>1
<1>7. CASE CommitEnds \/ UndoEnds
  <2>1. /\ version' = writing.version + 1 /\ writing.version = named.version
        /\ Read /\ writing' = NotWriting
    BY <1>1, <1>7 DEF CommitEnds, UndoEnds
  <2> QED
    BY <1>1, <1>3, <2>1
<1>8. CASE ReplaceEnds
  <2>1. version' = version + 1 /\ Read /\ writing' = NotWriting
    BY <1>8 DEF ReplaceEnds
  <2> QED
    BY <1>1, <1>3, <2>1
<1>9. CASE Archives
  <2>1. version' = version + 1 /\ Contents' = Contents /\ writing' = writing
    BY <1>9 DEF Archives, Contents
  <2>2. CASE writing.kind = "none"
    <3>1. named' = [version |-> version', contents |-> Contents]
      BY <1>9, <2>1, <2>2 DEF Archives, Read
    <3>2. named'.version = version + 1 /\ named' \in [version : Nat, contents : {Contents'}]
      BY <1>1, <2>1, <3>1
    <3>3. NamedIsLast'
      BY <1>1, <2>1, <2>2, <3>2 DEF NamedIsLast
    <3>4. NamesOneContent
      BY <1>1, <3>2 DEF NamesOneContent
    <3> QED
      BY <3>3, <3>4
  <2>3. CASE writing.kind # "none"
    <3>1. named' = named
      BY <1>9, <2>3 DEF Archives
    <3> QED
      BY <1>1, <2>1, <2>3, <3>1 DEF NamedIsLast
  <2> QED
    BY <2>2, <2>3
<1>10. CASE Crash
  <2>1. /\ version' = version /\ Contents' = Contents /\ writing'.kind = "none"
        /\ named' = [version |-> version', contents |-> Contents']
    BY <1>10 DEF Crash, Contents, Read, NotWriting
  <2>2. named'.version = version /\ named' \in [version : Nat, contents : {Contents'}]
    BY <1>1, <2>1
  <2>3. NamedIsLast'
    BY <1>1, <2>1, <2>2 DEF NamedIsLast
  <2>4. NamesOneContent
    BY <1>1, <2>1, <2>2 DEF NamesOneContent
  <2> QED
    BY <2>3, <2>4
<1>11. CASE UNCHANGED vars
  <2>1. version' = version /\ named' = named /\ writing' = writing /\ Contents' = Contents
    BY <1>11 DEF vars, Contents
  <2> QED
    BY <1>1, <2>1 DEF NamedIsLast
<1> QED
  BY <1>4, <1>5, <1>6, <1>7, <1>8, <1>9, <1>10, <1>11 DEF Next

(* Between two readings of one version nobody changed the card or the      *)
(* notes, and no reader sees a version go back, although the collector     *)
(* counts versions between the check of a writer and its write.            *)
THEOREM VersionNamesOneContentHolds == Spec => VersionNamesOneContent
<1>1. Init => NamedIsLast
  BY DEF Init, NamedIsLast, NotWriting
<1>2. NamedIsLast /\ [Next]_vars => NamedIsLast'
  BY NamedStep
<1>3. NamedIsLast /\ [Next]_vars => [NamesOneContent]_named
  BY NamedStep
<1> QED
  BY <1>1, <1>2, <1>3, PTL DEF Spec, VersionNamesOneContent, NamesOneContent


-----------------------------------------------------------------------------
(* Sequences of operations                                                 *)

(* A set of natural numbers has a least one.                               *)
LEMMA LeastExists ==
  ASSUME NEW T \in SUBSET Nat, T # {}
  PROVE  \E x \in T : \A y \in T : x <= y
<1> DEFINE R == OpToRel(<, Nat)
<1>1. IsWellFoundedOn(R, Nat)
  BY NatLessThanWellFounded
<1>2. \A x, y \in Nat : <<x, y>> \in R <=> x < y
  BY DEF OpToRel
<1> HIDE DEF R
<1>3. \E x \in T : \A y \in T : ~(<<y, x>> \in R)
  BY <1>1, WFMin
<1>4. \E x \in T : \A y \in T : ~(y < x)
  BY <1>2, <1>3, Zenon
<1> QED
  BY <1>4

(* The cards of a sequence of operations come one from the other.          *)
LEMMA CourseUnfolds ==
  ASSUME NEW c, NEW ops, Len(ops) \in Nat
  PROVE  Course(c, ops) = [i \in 0 .. Len(ops) |->
            IF i = 0 THEN c ELSE Applied(Course(c, ops)[i - 1], ops[i])]
<1> DEFINE Is(f, n) == f = [i \in 0 .. n |-> IF i = 0 THEN c ELSE Applied(f[i - 1], ops[i])]
<1> DEFINE Bad == {n \in 0 .. Len(ops) : ~ \E f : Is(f, n)}
<1>1. Bad = {}
  <2> SUFFICES ASSUME Bad # {} PROVE FALSE
    OBVIOUS
  <2>1. Bad \in SUBSET Nat
    OBVIOUS
  <2>2. PICK n \in Bad : \A m \in Bad : n <= m
    <3> HIDE DEF Bad
    <3> QED
      BY <2>1, LeastExists
  <2>3. n # 0
    <3>1. Is([i \in 0 .. 0 |-> c], 0)
      OBVIOUS
    <3>2. 0 \notin Bad
      BY <3>1
    <3> QED
      BY <2>2, <3>2
  <2>4. n - 1 \in 0 .. Len(ops) /\ n - 1 \notin Bad
    <3>1. n - 1 \in 0 .. Len(ops) /\ ~(n <= n - 1)
      BY <2>3
    <3> HIDE DEF Bad
    <3> QED
      BY <2>2, <3>1
  <2>5. PICK f : Is(f, n - 1)
    BY <2>4
  <2> DEFINE g == [i \in 0 .. n |-> IF i = n THEN Applied(f[n - 1], ops[n]) ELSE f[i]]
  <2>6. Is(g, n)
    <3>1. n \in Nat \ {0}
      BY <2>3
    <3>2. \A i \in 0 .. n - 1 : f[i] = IF i = 0 THEN c ELSE Applied(f[i - 1], ops[i])
      BY <2>5
    <3>3. ASSUME NEW i \in 0 .. n
          PROVE  g[i] = IF i = 0 THEN c ELSE Applied(g[i - 1], ops[i])
      <4>1. CASE i = n
        <5>1. n - 1 \in 0 .. n /\ n - 1 # n /\ n \in 0 .. n
          BY <3>1
        <5>2. g[n - 1] = f[n - 1] /\ g[n] = Applied(f[n - 1], ops[n])
          BY <5>1
        <5> QED
          BY <3>1, <4>1, <5>2
      <4>2. CASE i # n
        <5>1. i \in 0 .. n - 1 /\ (i # 0 => i - 1 \in 0 .. n /\ i - 1 # n)
          BY <3>1, <4>2
        <5>2. g[i] = f[i] /\ (i # 0 => g[i - 1] = f[i - 1])
          BY <4>2, <5>1
        <5> QED
          BY <3>2, <5>1, <5>2
      <4> QED
        BY <4>1, <4>2
    <3>4. g = [i \in 0 .. n |-> g[i]]
      OBVIOUS
    <3> HIDE DEF g
    <3> QED
      BY <3>3, <3>4
  <2> HIDE DEF g
  <2> QED
    BY <2>2, <2>6
<1>2. \E f : Is(f, Len(ops))
  BY <1>1
<1>3. Course(c, ops) = CHOOSE f : Is(f, Len(ops))
  BY DEF Course
<1> HIDE DEF Is
<1>4. Is(Course(c, ops), Len(ops))
  BY <1>2, <1>3
<1> QED
  BY <1>4 DEF Is

(* So do the notes.                                                        *)
LEMMA NoteCourseUnfolds ==
  ASSUME NEW c, NEW ops, Len(ops) \in Nat
  PROVE  NoteCourse(c, ops) = [i \in 0 .. Len(ops) |->
            IF i = 0 THEN c
            ELSE [NoteCourse(c, ops)[i - 1] EXCEPT ![ops[i].id] = NoteAfter(@, ops[i])]]
<1> DEFINE Next1(f, i) == [f EXCEPT ![ops[i].id] = NoteAfter(@, ops[i])]
<1> DEFINE Is(f, n) == f = [i \in 0 .. n |-> IF i = 0 THEN c ELSE Next1(f[i - 1], i)]
<1> DEFINE Bad == {n \in 0 .. Len(ops) : ~ \E f : Is(f, n)}
<1>3. NoteCourse(c, ops) = CHOOSE f : Is(f, Len(ops))
  BY DEF NoteCourse
<1> HIDE DEF Next1
<1>1. Bad = {}
  <2> SUFFICES ASSUME Bad # {} PROVE FALSE
    OBVIOUS
  <2>1. Bad \in SUBSET Nat
    OBVIOUS
  <2>2. PICK n \in Bad : \A m \in Bad : n <= m
    <3> HIDE DEF Bad
    <3> QED
      BY <2>1, LeastExists
  <2>3. n # 0
    <3>1. Is([i \in 0 .. 0 |-> c], 0)
      OBVIOUS
    <3>2. 0 \notin Bad
      BY <3>1
    <3> QED
      BY <2>2, <3>2
  <2>4. n - 1 \in 0 .. Len(ops) /\ n - 1 \notin Bad
    <3>1. n - 1 \in 0 .. Len(ops) /\ ~(n <= n - 1)
      BY <2>3
    <3> HIDE DEF Bad
    <3> QED
      BY <2>2, <3>1
  <2>5. PICK f : Is(f, n - 1)
    BY <2>4
  <2> DEFINE g == [i \in 0 .. n |-> IF i = n THEN Next1(f[n - 1], n) ELSE f[i]]
  <2>6. Is(g, n)
    <3>1. n \in Nat \ {0}
      BY <2>3
    <3>2. \A i \in 0 .. n - 1 : f[i] = IF i = 0 THEN c ELSE Next1(f[i - 1], i)
      BY <2>5
    <3>3. ASSUME NEW i \in 0 .. n
          PROVE  g[i] = IF i = 0 THEN c ELSE Next1(g[i - 1], i)
      <4>1. CASE i = n
        <5>1. n - 1 \in 0 .. n /\ n - 1 # n /\ n \in 0 .. n
          BY <3>1
        <5>2. g[n - 1] = f[n - 1] /\ g[n] = Next1(f[n - 1], n)
          BY <5>1
        <5> QED
          BY <3>1, <4>1, <5>2
      <4>2. CASE i # n
        <5>1. i \in 0 .. n - 1 /\ (i # 0 => i - 1 \in 0 .. n /\ i - 1 # n)
          BY <3>1, <4>2
        <5>2. g[i] = f[i] /\ (i # 0 => g[i - 1] = f[i - 1])
          BY <4>2, <5>1
        <5> QED
          BY <3>2, <5>1, <5>2
      <4> QED
        BY <4>1, <4>2
    <3>4. g = [i \in 0 .. n |-> g[i]]
      OBVIOUS
    <3> HIDE DEF g
    <3> QED
      BY <3>3, <3>4
  <2> HIDE DEF g
  <2> QED
    BY <2>2, <2>6
<1>2. \E f : Is(f, Len(ops))
  BY <1>1
<1> HIDE DEF Is
<1>4. Is(NoteCourse(c, ops), Len(ops))
  BY <1>2, <1>3
<1> QED
  BY <1>4 DEF Is, Next1

(* An operation on a note leaves a note, or none.                          *)
LEMMA NoteAfterIsNote ==
  ASSUME NEW note \in NoteStates, NEW o, IsNoteOperation(o)
  PROVE  NoteAfter(note, o) \in NoteStates
<1>1. CASE o.op = "create"
  BY <1>1 DEF NoteAfter, NoteStates
<1>2. CASE o.op = "update"
  BY <1>2 DEF NoteAfter, NoteStates
<1>3. CASE o.op = "resolve"
  BY <1>3 DEF NoteAfter, NoteStates
<1>4. CASE o.op = "delete"
  BY <1>4 DEF NoteAfter, NoteStates, NoNote
<1> QED
  BY <1>1, <1>2, <1>3, <1>4 DEF IsNoteOperation

(* The notes of a sequence of operations are notes, all the way.           *)
LEMMA NoteCourseIsNotes ==
  ASSUME NEW c \in [Notes -> NoteStates], NEW ops, Len(ops) \in Nat,
         \A i \in 1 .. Len(ops) : IsNoteOperation(ops[i])
  PROVE  NoteCourse(c, ops)[Len(ops)] \in [Notes -> NoteStates]
<1> DEFINE at == NoteCourse(c, ops)
<1>1. at = [i \in 0 .. Len(ops) |->
              IF i = 0 THEN c ELSE [at[i - 1] EXCEPT ![ops[i].id] = NoteAfter(@, ops[i])]]
  BY NoteCourseUnfolds
<1> HIDE DEF at
<1>2. \A i \in 0 .. Len(ops) :
         at[i] = IF i = 0 THEN c ELSE [at[i - 1] EXCEPT ![ops[i].id] = NoteAfter(@, ops[i])]
  BY <1>1
<1> DEFINE Bad == {i \in 0 .. Len(ops) : at[i] \notin [Notes -> NoteStates]}
<1>3. Bad = {}
  <2> SUFFICES ASSUME Bad # {} PROVE FALSE
    OBVIOUS
  <2>1. Bad \in SUBSET Nat
    OBVIOUS
  <2>2. PICK n \in Bad : \A m \in Bad : n <= m
    <3> HIDE DEF Bad
    <3> QED
      BY <2>1, LeastExists
  <2>3. n \in 0 .. Len(ops) /\ at[n] \notin [Notes -> NoteStates]
    OBVIOUS
  <2>4. n # 0
    BY <1>2, <2>3
  <2>5. n - 1 \in 0 .. Len(ops) /\ ~(n <= n - 1) /\ n \in 1 .. Len(ops)
    BY <2>3, <2>4
  <2>6. at[n - 1] \in [Notes -> NoteStates]
    BY <2>2, <2>5
  <2> HIDE DEF Bad
  <2>7. ops[n].id \in Notes /\ NoteAfter(at[n - 1][ops[n].id], ops[n]) \in NoteStates
    BY <2>5, <2>6, NoteAfterIsNote DEF IsNoteOperation
  <2>8. at[n] = [at[n - 1] EXCEPT ![ops[n].id] = NoteAfter(@, ops[n])]
    BY <1>2, <2>3, <2>4
  <2>9. at[n] \in [Notes -> NoteStates]
    BY <2>6, <2>7, <2>8
  <2> QED
    BY <2>3, <2>9
<1>4. Len(ops) \in 0 .. Len(ops)
  OBVIOUS
<1> QED
  BY <1>3, <1>4 DEF at

(* What undoing does with one touched path.                                *)
RestoredOne(c, e) ==
  IF e.exists THEN Set(c, e.path, e.value)
  ELSE IF Exists(c, e.path) THEN Removed(c, e.path)
  ELSE c

(* So do the cards of an undo.                                             *)
LEMMA RestorationsUnfold ==
  ASSUME NEW c, NEW before, Len(before) \in Nat
  PROVE  Restorations(c, before) = [i \in 0 .. Len(before) |->
            IF i = 0 THEN c ELSE RestoredOne(Restorations(c, before)[i - 1], before[i])]
<1> DEFINE Is(f, n) == f = [i \in 0 .. n |-> IF i = 0 THEN c ELSE RestoredOne(f[i - 1], before[i])]
<1> DEFINE Bad == {n \in 0 .. Len(before) : ~ \E f : Is(f, n)}
<1>1. Bad = {}
  <2> SUFFICES ASSUME Bad # {} PROVE FALSE
    OBVIOUS
  <2>1. Bad \in SUBSET Nat
    OBVIOUS
  <2>2. PICK n \in Bad : \A m \in Bad : n <= m
    <3> HIDE DEF Bad
    <3> QED
      BY <2>1, LeastExists
  <2>3. n # 0
    <3>1. Is([i \in 0 .. 0 |-> c], 0)
      OBVIOUS
    <3>2. 0 \notin Bad
      BY <3>1
    <3> QED
      BY <2>2, <3>2
  <2>4. n - 1 \in 0 .. Len(before) /\ n - 1 \notin Bad
    <3>1. n - 1 \in 0 .. Len(before) /\ ~(n <= n - 1)
      BY <2>3
    <3> HIDE DEF Bad
    <3> QED
      BY <2>2, <3>1
  <2>5. PICK f : Is(f, n - 1)
    BY <2>4
  <2> DEFINE g == [i \in 0 .. n |-> IF i = n THEN RestoredOne(f[n - 1], before[n]) ELSE f[i]]
  <2>6. Is(g, n)
    <3>1. n \in Nat \ {0}
      BY <2>3
    <3>2. \A i \in 0 .. n - 1 : f[i] = IF i = 0 THEN c ELSE RestoredOne(f[i - 1], before[i])
      BY <2>5
    <3>3. ASSUME NEW i \in 0 .. n
          PROVE  g[i] = IF i = 0 THEN c ELSE RestoredOne(g[i - 1], before[i])
      <4>1. CASE i = n
        <5>1. n - 1 \in 0 .. n /\ n - 1 # n /\ n \in 0 .. n
          BY <3>1
        <5>2. g[n - 1] = f[n - 1] /\ g[n] = RestoredOne(f[n - 1], before[n])
          BY <5>1
        <5> QED
          BY <3>1, <4>1, <5>2
      <4>2. CASE i # n
        <5>1. i \in 0 .. n - 1 /\ (i # 0 => i - 1 \in 0 .. n /\ i - 1 # n)
          BY <3>1, <4>2
        <5>2. g[i] = f[i] /\ (i # 0 => g[i - 1] = f[i - 1])
          BY <4>2, <5>1
        <5> QED
          BY <3>2, <5>1, <5>2
      <4> QED
        BY <4>1, <4>2
    <3>4. g = [i \in 0 .. n |-> g[i]]
      OBVIOUS
    <3> HIDE DEF g
    <3> QED
      BY <3>3, <3>4
  <2> HIDE DEF g
  <2> QED
    BY <2>2, <2>6
<1>2. \E f : Is(f, Len(before))
  BY <1>1
<1>3. Restorations(c, before) = CHOOSE f : Is(f, Len(before))
  BY DEF Restorations, RestoredOne
<1> HIDE DEF Is
<1>4. Is(Restorations(c, before), Len(before))
  BY <1>2, <1>3
<1> QED
  BY <1>4 DEF Is


(* The first card and the next one.                                        *)
LEMMA CourseSteps ==
  ASSUME NEW c, NEW ops, Len(ops) \in Nat
  PROVE  /\ Course(c, ops)[0] = c
         /\ \A i \in 1 .. Len(ops) : Course(c, ops)[i] = Applied(Course(c, ops)[i - 1], ops[i])
<1> DEFINE at == Course(c, ops)
<1>1. at = [i \in 0 .. Len(ops) |-> IF i = 0 THEN c ELSE Applied(at[i - 1], ops[i])]
  BY CourseUnfolds
<1> HIDE DEF at
<1>2. \A i \in 0 .. Len(ops) : at[i] = IF i = 0 THEN c ELSE Applied(at[i - 1], ops[i])
  BY <1>1
<1>3. 0 \in 0 .. Len(ops) /\ \A i \in 1 .. Len(ops) : i \in 0 .. Len(ops) /\ i # 0
  OBVIOUS
<1>4. at[0] = c /\ \A i \in 1 .. Len(ops) : at[i] = Applied(at[i - 1], ops[i])
  BY <1>2, <1>3
<1> QED
  BY <1>4 DEF at

(* The card an undo begins with and the next one.                          *)
LEMMA RestorationSteps ==
  ASSUME NEW c, NEW before, Len(before) \in Nat
  PROVE  /\ Restorations(c, before)[0] = c
         /\ \A i \in 1 .. Len(before) :
              Restorations(c, before)[i] = RestoredOne(Restorations(c, before)[i - 1], before[i])
<1> DEFINE at == Restorations(c, before)
<1>1. at = [i \in 0 .. Len(before) |-> IF i = 0 THEN c ELSE RestoredOne(at[i - 1], before[i])]
  BY RestorationsUnfold
<1> HIDE DEF at
<1>2. \A i \in 0 .. Len(before) : at[i] = IF i = 0 THEN c ELSE RestoredOne(at[i - 1], before[i])
  BY <1>1
<1>3. 0 \in 0 .. Len(before) /\ \A i \in 1 .. Len(before) : i \in 0 .. Len(before) /\ i # 0
  OBVIOUS
<1>4. at[0] = c /\ \A i \in 1 .. Len(before) : at[i] = RestoredOne(at[i - 1], before[i])
  BY <1>2, <1>3
<1> QED
  BY <1>4 DEF at

-----------------------------------------------------------------------------
(* Cards and operations                                                    *)

PathNames == {"/attributes", "/attributes/str", "/inventory", "/inventory/0"}

(* A card in the middle of a turn: its attribute may be out of range.      *)
LooseCards == [str : Int, items : Lists]

(* A touched path with what was found there.                               *)
Entries == [path : PathNames, exists : BOOLEAN, value : Int \cup Lists]

IsEntry(e) ==
  /\ e \in Entries
  /\ e.exists /\ Place(e.path) = "str" => e.value \in Int
  /\ e.exists /\ Place(e.path) = "items" => e.value \in Seq(Items)
  /\ e.exists /\ e.path = "/inventory/0" => e.value # <<>>
  /\ ~e.exists => e.path # "/attributes"

(* Every path leads to one of the two places.                              *)
LEMMA PlaceOf ==
  ASSUME NEW path \in PathNames
  PROVE  /\ Place(path) \in {"str", "items"}
         /\ Place(path) = "str" <=> path \in {"/attributes", "/attributes/str"}
         /\ Place(path) = "items" <=> path \in {"/inventory", "/inventory/0"}
  BY DEF PathNames, Place

(* A list keeps its shape when an element is set or removed.               *)
LEMMA ItemsKept ==
  ASSUME NEW items \in Seq(Items), items # <<>>, NEW new \in Seq(Items), new # <<>>
  PROVE  /\ Tail(items) \in Seq(Items)
         /\ [items EXCEPT ![1] = Head(new)] \in Seq(Items)
         /\ <<Head(items)>> \in Seq(Items) /\ <<Head(items)>> # <<>>
<1>1. Head(new) \in Items /\ Head(items) \in Items /\ Len(items) \in Nat \ {0}
  OBVIOUS
<1>2. [items EXCEPT ![1] = Head(new)] \in Seq(Items)
  BY <1>1
<1>3. <<Head(items)>> \in Seq(Items) /\ <<Head(items)>> # <<>>
  BY <1>1
<1> QED
  BY <1>2, <1>3

(* What it takes to be an entry.                                           *)
LEMMA EntryMade ==
  ASSUME NEW path \in PathNames, NEW exists \in BOOLEAN, NEW value,
         value \in Int \/ value \in Lists,
         exists /\ Place(path) = "str" => value \in Int,
         exists /\ Place(path) = "items" => value \in Seq(Items),
         exists /\ path = "/inventory/0" => value # <<>>,
         ~exists => path # "/attributes"
  PROVE  /\ IsEntry([path |-> path, exists |-> exists, value |-> value])
         /\ [path |-> path, exists |-> exists, value |-> value].path = path
<1> DEFINE e == [path |-> path, exists |-> exists, value |-> value]
<1>1. e.path = path /\ e.exists = exists /\ e.value = value
  OBVIOUS
<1>2. e \in Entries
  BY DEF Entries
<1> HIDE DEF e
<1>3. IsEntry(e)
  BY <1>1, <1>2 DEF IsEntry
<1> QED
  BY <1>1, <1>3 DEF e

(* What is found on a card is an entry for it.                             *)
LEMMA FoundIsEntry ==
  ASSUME NEW c \in LooseCards, NEW path \in PathNames
  PROVE  IsEntry(Found(c, path)) /\ Found(c, path).path = path
<1> DEFINE value == CASE Place(path) = "str" -> c.str
                      [] path = "/inventory" -> c.items
                      [] path = "/inventory/0" -> IF Exists(c, path) THEN <<Head(c.items)>>
                                                  ELSE <<>>
<1>1. Found(c, path) = [path |-> path, exists |-> Exists(c, path), value |-> value]
  BY DEF Found
<1>2. c.str \in Int /\ c.items \in Lists /\ (c.items # Absent => c.items \in Seq(Items))
  BY DEF LooseCards, Lists
<1>3. Exists(c, path) \in BOOLEAN
  BY DEF Exists
<1>4. CASE Place(path) = "str"
  <2>1. value = c.str /\ path \in {"/attributes", "/attributes/str"}
    BY <1>4, PlaceOf
  <2>2. ~Exists(c, path) => path = "/attributes/str"
    BY <2>1 DEF Exists, Place
  <2> HIDE DEF value
  <2> QED
    BY <1>1, <1>2, <1>3, <1>4, <2>1, <2>2, EntryMade
<1>5. CASE path = "/inventory"
  <2>1. Place(path) = "items" /\ Place(path) # "str"
    BY <1>5, PlaceOf
  <2>2. value = c.items /\ (Exists(c, path) => c.items # Absent)
    BY <1>5, <2>1 DEF Exists
  <2> HIDE DEF value
  <2> QED
    BY <1>1, <1>2, <1>3, <1>5, <2>1, <2>2, EntryMade
<1>6. CASE path = "/inventory/0"
  <2>1. Place(path) = "items" /\ Place(path) # "str"
    BY <1>6, PlaceOf
  <2>2. value = IF Exists(c, path) THEN <<Head(c.items)>> ELSE <<>>
    BY <1>6, <2>1
  <2>3. Exists(c, path) => c.items \in Seq(Items) /\ c.items # <<>>
    BY <1>2, <1>6, <2>1 DEF Exists
  <2> HIDE DEF value
  <2>4. value \in Seq(Items) /\ value \in Lists /\ (Exists(c, path) => value # <<>>)
    <3>1. CASE ~Exists(c, path)
      BY <2>2, <3>1 DEF Lists
    <3>2. CASE Exists(c, path)
      <4>1. <<Head(c.items)>> \in Seq(Items) /\ <<Head(c.items)>> # <<>>
        BY <2>3, <3>2, ItemsKept
      <4> QED
        BY <2>2, <3>2, <4>1 DEF Lists
    <3> QED
      BY <3>1, <3>2
  <2> QED
    BY <1>1, <1>3, <1>6, <2>1, <2>4, EntryMade
<1> QED
  BY <1>4, <1>5, <1>6, PlaceOf


(* Setting a path writes one place of the card.                            *)
LEMMA SetIsCard ==
  ASSUME NEW c \in LooseCards, NEW path \in PathNames, NEW value,
         Place(path) = "str" => value \in Int,
         Place(path) = "items" => value \in Seq(Items),
         path = "/inventory/0" => value # <<>> /\ Exists(c, path)
  PROVE  /\ Set(c, path, value) \in LooseCards
         /\ Place(path) = "str" =>
              Set(c, path, value).str = value /\ Set(c, path, value).items = c.items
         /\ Place(path) = "items" => Set(c, path, value).str = c.str
         /\ path = "/inventory" => Set(c, path, value).items = value
<1>1. /\ c.str \in Int /\ c.items \in Lists /\ (c.items # Absent => c.items \in Seq(Items))
      /\ c = [str |-> c.str, items |-> c.items]
  BY DEF LooseCards, Lists
<1>2. CASE Place(path) = "str"
  <2>1. path \notin {"/inventory", "/inventory/0"} /\ Place(path) # "items"
    BY <1>2, PlaceOf
  <2>2. Set(c, path, value) = [c EXCEPT !.str = value]
    BY <1>2, <2>1 DEF Set
  <2>3. Set(c, path, value) = [str |-> value, items |-> c.items]
    BY <1>1, <2>2
  <2> QED
    BY <1>1, <1>2, <2>1, <2>3 DEF LooseCards
<1>3. CASE path = "/inventory"
  <2>1. Place(path) = "items" /\ Place(path) # "str"
    BY <1>3, PlaceOf
  <2>2. Set(c, path, value) = [c EXCEPT !.items = value]
    BY <1>3, <2>1 DEF Set
  <2>3. Set(c, path, value) = [str |-> c.str, items |-> value]
    BY <1>1, <2>2
  <2> QED
    BY <1>1, <2>1, <2>3 DEF LooseCards, Lists
<1>4. CASE path = "/inventory/0"
  <2>1. Place(path) = "items" /\ Place(path) # "str"
    BY <1>4, PlaceOf
  <2>5. c.items \in Seq(Items) /\ c.items # <<>>
    BY <1>1, <1>4, <2>1 DEF Exists
  <2>2. Set(c, path, value) = [c EXCEPT !.items[1] = Head(value)]
    BY <1>4, <2>1 DEF Set
  <2>3. [c.items EXCEPT ![1] = Head(value)] \in Seq(Items)
    BY <1>4, <2>1, <2>5, ItemsKept
  <2>4. Set(c, path, value) = [str |-> c.str, items |-> [c.items EXCEPT ![1] = Head(value)]]
    BY <1>1, <2>2
  <2> QED
    BY <1>1, <1>4, <2>1, <2>3, <2>4 DEF LooseCards, Lists
<1> QED
  BY <1>2, <1>3, <1>4, PlaceOf

(* So does removing what is there.                                         *)
LEMMA RemovedIsCard ==
  ASSUME NEW c \in LooseCards, NEW path \in {"/attributes/str", "/inventory", "/inventory/0"},
         Exists(c, path)
  PROVE  /\ Removed(c, path) \in LooseCards
         /\ Place(path) = "str" =>
              Removed(c, path).str = Gone /\ Removed(c, path).items = c.items
         /\ Place(path) = "items" => Removed(c, path).str = c.str
         /\ path = "/inventory" => Removed(c, path).items = Absent
<1>1. /\ c.str \in Int /\ c.items \in Lists /\ (c.items # Absent => c.items \in Seq(Items))
      /\ c = [str |-> c.str, items |-> c.items]
  BY DEF LooseCards, Lists
<1>2. CASE path = "/attributes/str"
  <2>1. Place(path) = "str" /\ Place(path) # "items"
    BY <1>2 DEF Place
  <2>2. Removed(c, path) = [c EXCEPT !.str = Gone]
    BY <1>2, <2>1 DEF Removed
  <2>3. Removed(c, path) = [str |-> Gone, items |-> c.items]
    BY <1>1, <2>2
  <2>4. Gone \in Int
    BY DEF Gone
  <2> QED
    BY <1>1, <1>2, <2>1, <2>3, <2>4 DEF LooseCards
<1>3. CASE path = "/inventory/0"
  <2>1. Place(path) = "items" /\ Place(path) # "str"
    BY <1>3 DEF Place
  <2>2. Removed(c, path) = [c EXCEPT !.items = Tail(@)]
    BY <1>3, <2>1 DEF Removed
  <2>3. c.items \in Seq(Items) /\ c.items # <<>>
    BY <1>1, <1>3, <2>1 DEF Exists
  <2>4. Tail(c.items) \in Seq(Items)
    BY <2>3
  <2>5. Removed(c, path) = [str |-> c.str, items |-> Tail(c.items)]
    BY <1>1, <2>2
  <2> QED
    BY <1>1, <1>3, <2>1, <2>4, <2>5 DEF LooseCards, Lists
<1>4. CASE path = "/inventory"
  <2>1. Place(path) = "items" /\ Place(path) # "str"
    BY <1>4 DEF Place
  <2>2. Removed(c, path) = [c EXCEPT !.items = Absent]
    BY <1>4, <2>1 DEF Removed
  <2>3. Removed(c, path) = [str |-> c.str, items |-> Absent]
    BY <1>1, <2>2
  <2> QED
    BY <1>1, <2>1, <2>3 DEF LooseCards, Lists
<1> QED
  BY <1>2, <1>3, <1>4

(* An operation that can be applied gives a card and writes one place.     *)
LEMMA AppliedIsCard ==
  ASSUME NEW c \in LooseCards, NEW o, IsOperation(o), CanApply(c, o)
  PROVE  /\ o.path \in PathNames
         /\ Applied(c, o) \in LooseCards
         /\ Place(o.path) = "str" => Applied(c, o).items = c.items
         /\ Place(o.path) = "items" => Applied(c, o).str = c.str
<1>1. o.path \in PathNames
  BY DEF IsOperation, PathNames
<1>2. c.str \in Int /\ (c.items # Absent => c.items \in Seq(Items))
  BY DEF LooseCards, Lists
<1>3. /\ Place("/attributes") = "str" /\ Place("/attributes/str") = "str"
      /\ Place("/inventory") = "items" /\ Place("/inventory/0") = "items"
  BY DEF Place
<1>4. CASE o.op = "set"
  <2>1. Applied(c, o) = Set(c, o.path, o.value) /\ CanSet(c, o.path)
    BY <1>4 DEF Applied, CanApply
  <2>2. /\ Place(o.path) = "str" => o.value \in Int
        /\ Place(o.path) = "items" => o.value \in Seq(Items)
        /\ o.path = "/inventory/0" => o.value # <<>> /\ Exists(c, o.path)
    <3>1. CASE o.path \in {"/attributes", "/attributes/str"} /\ o.value \in Int
      BY <1>3, <3>1
    <3>2. CASE o.path = "/inventory" /\ o.value \in Seq(Items)
      BY <1>3, <3>2
    <3>3. CASE o.path = "/inventory/0" /\ o.value \in {<<x>> : x \in Items}
      <4>1. PICK x \in Items : o.value = <<x>>
        BY <3>3
      <4>2. o.value \in Seq(Items) /\ o.value # <<>>
        BY <4>1
      <4> QED
        BY <1>3, <2>1, <3>3, <4>2 DEF CanSet
    <3> QED
      BY <1>4, <3>1, <3>2, <3>3 DEF IsOperation
  <2> QED
    BY <1>1, <2>1, <2>2, SetIsCard
<1>5. CASE o.op = "increment"
  <2>1. o.path = "/attributes/str" /\ o.value \in Int
    BY <1>5 DEF IsOperation
  <2>2. Applied(c, o) = Set(c, o.path, c.str + o.value)
    BY <1>5 DEF Applied
  <2>3. c.str + o.value \in Int
    BY <1>2, <2>1
  <2> QED
    BY <1>1, <1>3, <2>1, <2>2, <2>3, SetIsCard
<1>6. CASE o.op = "add"
  <2>1. o.path = "/inventory" /\ o.value \in {<<x>> : x \in Items}
    BY <1>6 DEF IsOperation
  <2>2. Applied(c, o) = Set(c, o.path, c.items \o o.value)
    <3>1. o.op # "set" /\ o.op # "increment"
      BY <1>6
    <3> QED
      BY <1>6, <3>1 DEF Applied
  <2>3. c.items \o o.value \in Seq(Items)
    <3>1. PICK x \in Items : o.value = <<x>>
      BY <2>1
    <3>2. <<x>> \in Seq(Items)
      OBVIOUS
    <3>3. c.items \in Seq(Items)
      BY <1>2, <1>3, <1>6, <2>1 DEF CanApply, Exists
    <3>4. c.items \o <<x>> \in Seq(Items)
      BY <3>2, <3>3
    <3> QED
      BY <3>1, <3>4
  <2>4. Place(o.path) = "items" /\ Place(o.path) # "str" /\ o.path # "/inventory/0"
    BY <1>3, <2>1
  <2>5. Set(c, o.path, c.items \o o.value) \in LooseCards
        /\ Set(c, o.path, c.items \o o.value).str = c.str
    BY <1>1, <2>3, <2>4, SetIsCard
  <2> QED
    BY <1>1, <2>2, <2>4, <2>5
<1>7. CASE o.op = "remove"
  <2>1. o.path \in {"/attributes/str", "/inventory", "/inventory/0"}
    BY <1>7 DEF IsOperation
  <2>2. Applied(c, o) = Removed(c, o.path) /\ Exists(c, o.path)
    BY <1>7 DEF Applied, CanApply
  <2> QED
    BY <1>1, <2>1, <2>2, RemovedIsCard
<1> QED
  BY <1>4, <1>5, <1>6, <1>7 DEF IsOperation

(* So does undoing one touched path.                                       *)
LEMMA RestoredOneIsCard ==
  ASSUME NEW c \in LooseCards, NEW e, IsEntry(e), e.exists => CanSet(c, e.path)
  PROVE  /\ RestoredOne(c, e) \in LooseCards
         /\ Place(e.path) = "str" => RestoredOne(c, e).items = c.items
         /\ Place(e.path) = "items" => RestoredOne(c, e).str = c.str
<1>1. e.path \in PathNames
  BY DEF IsEntry, Entries
<1>2. CASE e.exists
  <2>1. RestoredOne(c, e) = Set(c, e.path, e.value)
    BY <1>2 DEF RestoredOne
  <2>2. /\ Place(e.path) = "str" => e.value \in Int
        /\ Place(e.path) = "items" => e.value \in Seq(Items)
        /\ e.path = "/inventory/0" => e.value # <<>> /\ Exists(c, e.path)
    BY <1>2 DEF IsEntry, CanSet
  <2> QED
    BY <1>1, <2>1, <2>2, SetIsCard
<1>3. CASE ~e.exists /\ Exists(c, e.path)
  <2>1. RestoredOne(c, e) = Removed(c, e.path)
    BY <1>3 DEF RestoredOne
  <2>2. e.path \in {"/attributes/str", "/inventory", "/inventory/0"}
    BY <1>1, <1>3 DEF IsEntry, PathNames
  <2> QED
    BY <1>3, <2>1, <2>2, RemovedIsCard
<1>4. CASE ~e.exists /\ ~Exists(c, e.path)
  BY <1>4 DEF RestoredOne
<1> QED
  BY <1>2, <1>3, <1>4

(* The cards of a sequence of operations are cards, all the way.           *)
LEMMA CourseIsCards ==
  ASSUME NEW c \in LooseCards, NEW ops, Len(ops) \in Nat,
         \A i \in 1 .. Len(ops) : IsOperation(ops[i]),
         CanApplyAll(c, ops)
  PROVE  \A i \in 0 .. Len(ops) : Course(c, ops)[i] \in LooseCards
<1> DEFINE at == Course(c, ops)
<1>1. at[0] = c /\ \A i \in 1 .. Len(ops) : at[i] = Applied(at[i - 1], ops[i])
  BY CourseSteps
<1>2. \A i \in 1 .. Len(ops) : CanApply(at[i - 1], ops[i])
  BY DEF CanApplyAll
<1> HIDE DEF at
<1> DEFINE Bad == {i \in 0 .. Len(ops) : at[i] \notin LooseCards}
<1>3. Bad = {}
  <2> SUFFICES ASSUME Bad # {} PROVE FALSE
    OBVIOUS
  <2>1. Bad \in SUBSET Nat
    OBVIOUS
  <2>2. PICK n \in Bad : \A m \in Bad : n <= m
    <3> HIDE DEF Bad
    <3> QED
      BY <2>1, LeastExists
  <2>3. n \in 0 .. Len(ops) /\ at[n] \notin LooseCards
    OBVIOUS
  <2>4. n # 0
    BY <1>1, <2>3
  <2>5. n - 1 \in 0 .. Len(ops) /\ ~(n <= n - 1) /\ n \in 1 .. Len(ops)
    BY <2>3, <2>4
  <2>6. at[n - 1] \in LooseCards
    BY <2>2, <2>5
  <2> HIDE DEF Bad
  <2>7. at[n] \in LooseCards
    BY <1>1, <1>2, <2>5, <2>6, AppliedIsCard
  <2> QED
    BY <2>3, <2>7
<1> QED
  BY <1>3 DEF at

(* So are the cards of an undo.                                            *)
LEMMA RestorationsAreCards ==
  ASSUME NEW c \in LooseCards, NEW before, Len(before) \in Nat,
         \A i \in 1 .. Len(before) : IsEntry(before[i]),
         CanRestore(c, before)
  PROVE  \A i \in 0 .. Len(before) : Restorations(c, before)[i] \in LooseCards
<1> DEFINE at == Restorations(c, before)
<1>1. at[0] = c /\ \A i \in 1 .. Len(before) : at[i] = RestoredOne(at[i - 1], before[i])
  BY RestorationSteps
<1>2. \A i \in 1 .. Len(before) : before[i].exists => CanSet(at[i - 1], before[i].path)
  BY DEF CanRestore
<1> HIDE DEF at
<1> DEFINE Bad == {i \in 0 .. Len(before) : at[i] \notin LooseCards}
<1>3. Bad = {}
  <2> SUFFICES ASSUME Bad # {} PROVE FALSE
    OBVIOUS
  <2>1. Bad \in SUBSET Nat
    OBVIOUS
  <2>2. PICK n \in Bad : \A m \in Bad : n <= m
    <3> HIDE DEF Bad
    <3> QED
      BY <2>1, LeastExists
  <2>3. n \in 0 .. Len(before) /\ at[n] \notin LooseCards
    OBVIOUS
  <2>4. n # 0
    BY <1>1, <2>3
  <2>5. n - 1 \in 0 .. Len(before) /\ ~(n <= n - 1) /\ n \in 1 .. Len(before)
    BY <2>3, <2>4
  <2>6. at[n - 1] \in LooseCards
    BY <2>2, <2>5
  <2> HIDE DEF Bad
  <2>7. at[n] \in LooseCards
    BY <1>1, <1>2, <2>5, <2>6, RestoredOneIsCard
  <2> QED
    BY <2>3, <2>7
<1> QED
  BY <1>3 DEF at

(* The entries collected up to each operation of a turn.                   *)
Collected(c, ops) ==
  LET First(i) == \A j \in 1 .. i - 1 : ops[j].path # ops[i].path
      Is[i \in 0 .. Len(ops)] ==
        IF i = 0 THEN <<>>
        ELSE IF First(i) THEN Append(Is[i - 1], Found(Course(c, ops)[i - 1], ops[i].path))
        ELSE Is[i - 1]
  IN  Is

IsFirst(ops, i) == \A j \in 1 .. i - 1 : ops[j].path # ops[i].path

CollectedOne(c, ops, entries, i) ==
  IF IsFirst(ops, i) THEN Append(entries, Found(Course(c, ops)[i - 1], ops[i].path))
  ELSE entries

(* The entries are collected operation by operation, and a turn remembers  *)
(* the last collection.                                                    *)
LEMMA CollectedUnfolds ==
  ASSUME NEW c, NEW ops, Len(ops) \in Nat
  PROVE  /\ Touched(c, ops) = Collected(c, ops)[Len(ops)]
         /\ Collected(c, ops) = [i \in 0 .. Len(ops) |->
              IF i = 0 THEN <<>> ELSE CollectedOne(c, ops, Collected(c, ops)[i - 1], i)]
<1> DEFINE Is(f, n) == f = [i \in 0 .. n |-> IF i = 0 THEN <<>> ELSE CollectedOne(c, ops, f[i - 1], i)]
<1> DEFINE Bad == {n \in 0 .. Len(ops) : ~ \E f : Is(f, n)}
<1>1. Bad = {}
  <2> SUFFICES ASSUME Bad # {} PROVE FALSE
    OBVIOUS
  <2>1. Bad \in SUBSET Nat
    OBVIOUS
  <2>2. PICK n \in Bad : \A m \in Bad : n <= m
    <3> HIDE DEF Bad
    <3> QED
      BY <2>1, LeastExists
  <2>3. n # 0
    <3>1. Is([i \in 0 .. 0 |-> <<>>], 0)
      OBVIOUS
    <3>2. 0 \notin Bad
      BY <3>1
    <3> QED
      BY <2>2, <3>2
  <2>4. n - 1 \in 0 .. Len(ops) /\ n - 1 \notin Bad
    <3>1. n - 1 \in 0 .. Len(ops) /\ ~(n <= n - 1)
      BY <2>3
    <3> HIDE DEF Bad
    <3> QED
      BY <2>2, <3>1
  <2>5. PICK f : Is(f, n - 1)
    BY <2>4
  <2> DEFINE g == [i \in 0 .. n |-> IF i = n THEN CollectedOne(c, ops, f[n - 1], n) ELSE f[i]]
  <2>6. Is(g, n)
    <3>1. n \in Nat \ {0}
      BY <2>3
    <3>2. \A i \in 0 .. n - 1 : f[i] = IF i = 0 THEN <<>> ELSE CollectedOne(c, ops, f[i - 1], i)
      BY <2>5
    <3>3. ASSUME NEW i \in 0 .. n
          PROVE  g[i] = IF i = 0 THEN <<>> ELSE CollectedOne(c, ops, g[i - 1], i)
      <4>1. CASE i = n
        <5>1. n - 1 \in 0 .. n /\ n - 1 # n /\ n \in 0 .. n
          BY <3>1
        <5>2. g[n - 1] = f[n - 1] /\ g[n] = CollectedOne(c, ops, f[n - 1], n)
          BY <5>1
        <5> QED
          BY <3>1, <4>1, <5>2
      <4>2. CASE i # n
        <5>1. i \in 0 .. n - 1 /\ (i # 0 => i - 1 \in 0 .. n /\ i - 1 # n)
          BY <3>1, <4>2
        <5>2. g[i] = f[i] /\ (i # 0 => g[i - 1] = f[i - 1])
          BY <4>2, <5>1
        <5> QED
          BY <3>2, <5>1, <5>2
      <4> QED
        BY <4>1, <4>2
    <3>4. g = [i \in 0 .. n |-> g[i]]
      OBVIOUS
    <3> HIDE DEF g
    <3> QED
      BY <3>3, <3>4
  <2> HIDE DEF g
  <2> QED
    BY <2>2, <2>6
<1>2. \E f : Is(f, Len(ops))
  BY <1>1
<1>3. Collected(c, ops) = CHOOSE f : Is(f, Len(ops))
  BY DEF Collected, CollectedOne, IsFirst
<1> HIDE DEF Is
<1>4. Is(Collected(c, ops), Len(ops))
  BY <1>2, <1>3
<1>5. Touched(c, ops) = Collected(c, ops)[Len(ops)]
  BY DEF Touched, Collected
<1> QED
  BY <1>4, <1>5 DEF Is

(* What is collected of the first n operations: one entry for each path,   *)
(* with what was found there before the first operation on it.             *)
IsCollection(c, ops, entries, n) ==
  /\ entries \in Seq(Entries)
  /\ \A k \in 1 .. Len(entries) : IsEntry(entries[k])
  /\ \A k \in 1 .. Len(entries) : \E j \in 1 .. n :
       IsFirst(ops, j) /\ entries[k] = Found(Course(c, ops)[j - 1], ops[j].path)
  /\ \A j \in 1 .. n : \E k \in 1 .. Len(entries) : entries[k].path = ops[j].path
  /\ \A k, l \in 1 .. Len(entries) : entries[k].path = entries[l].path => k = l

(* One more operation adds an entry if its path is new.                    *)
LEMMA CollectionGrows ==
  ASSUME NEW c, NEW ops, Len(ops) \in Nat,
         \A i \in 0 .. Len(ops) : Course(c, ops)[i] \in LooseCards,
         \A i \in 1 .. Len(ops) : ops[i].path \in PathNames,
         NEW n \in 1 .. Len(ops), NEW entries, IsCollection(c, ops, entries, n - 1)
  PROVE  IsCollection(c, ops, CollectedOne(c, ops, entries, n), n)
<1> DEFINE e == Found(Course(c, ops)[n - 1], ops[n].path)
<1> DEFINE all == Append(entries, e)
<1>1. IsEntry(e) /\ e \in Entries /\ e.path = ops[n].path
  <2>1. n - 1 \in 0 .. Len(ops)
    OBVIOUS
  <2>2. Course(c, ops)[n - 1] \in LooseCards /\ ops[n].path \in PathNames
    BY <2>1
  <2> QED
    BY <2>2, FoundIsEntry DEF IsEntry
<1>2. /\ entries \in Seq(Entries) /\ Len(entries) \in Nat
      /\ \A k \in 1 .. Len(entries) : IsEntry(entries[k])
      /\ \A k \in 1 .. Len(entries) : \E j \in 1 .. n - 1 :
           IsFirst(ops, j) /\ entries[k] = Found(Course(c, ops)[j - 1], ops[j].path)
      /\ \A j \in 1 .. n - 1 : \E k \in 1 .. Len(entries) : entries[k].path = ops[j].path
      /\ \A k, l \in 1 .. Len(entries) : entries[k].path = entries[l].path => k = l
  BY DEF IsCollection
<1>3. /\ \A j \in 1 .. n - 1 : j \in 1 .. n /\ j # n
      /\ \A j \in 1 .. n : j = n \/ j \in 1 .. n - 1
      /\ n \in 1 .. n
  OBVIOUS
<1>4. CASE IsFirst(ops, n)
  <2>1. CollectedOne(c, ops, entries, n) = all
    BY <1>4 DEF CollectedOne
  <2> HIDE DEF e
  <2>2. /\ all \in Seq(Entries) /\ Len(all) = Len(entries) + 1
        /\ \A k \in 1 .. Len(entries) : all[k] = entries[k]
        /\ all[Len(entries) + 1] = e
    BY <1>1, <1>2
  <2> HIDE DEF all
  <2>3. /\ \A k \in 1 .. Len(all) : k \in 1 .. Len(entries) \/ k = Len(entries) + 1
        /\ \A k \in 1 .. Len(entries) : k \in 1 .. Len(all)
        /\ Len(entries) + 1 \in 1 .. Len(all)
    BY <1>2, <2>2
  <2>4. \A k \in 1 .. Len(all) : IsEntry(all[k])
    <3>1. IsEntry(e)
      BY <1>1 DEF e
    <3> QED
      BY <1>2, <2>2, <2>3, <3>1
  <2>5. \A k \in 1 .. Len(all) : \E j \in 1 .. n :
          IsFirst(ops, j) /\ all[k] = Found(Course(c, ops)[j - 1], ops[j].path)
    <3>1. e = Found(Course(c, ops)[n - 1], ops[n].path)
      BY DEF e
    <3>2. TAKE k \in 1 .. Len(all)
    <3>3. CASE k \in 1 .. Len(entries)
      <4>1. PICK j \in 1 .. n - 1 :
               IsFirst(ops, j) /\ entries[k] = Found(Course(c, ops)[j - 1], ops[j].path)
        BY <1>2, <3>3
      <4> QED
        BY <1>3, <2>2, <3>3, <4>1
    <3>4. CASE k = Len(entries) + 1
      BY <1>3, <1>4, <2>2, <3>1, <3>4
    <3> QED
      BY <2>3, <3>2, <3>3, <3>4
  <2>6. \A j \in 1 .. n : \E k \in 1 .. Len(all) : all[k].path = ops[j].path
    <3>1. all[Len(entries) + 1].path = ops[n].path
      BY <1>1, <2>2
    <3>2. TAKE j \in 1 .. n
    <3>3. CASE j \in 1 .. n - 1
      <4>1. PICK k \in 1 .. Len(entries) : entries[k].path = ops[j].path
        BY <1>2, <3>3
      <4> QED
        BY <2>2, <2>3, <4>1
    <3>4. CASE j = n
      BY <2>3, <3>1, <3>4
    <3> QED
      BY <1>3, <3>2, <3>3, <3>4
  <2>7. \A k \in 1 .. Len(entries) : entries[k].path # e.path
    <3>1. SUFFICES ASSUME NEW k \in 1 .. Len(entries), entries[k].path = e.path PROVE FALSE
      OBVIOUS
    <3>2. PICK j \in 1 .. n - 1 : entries[k] = Found(Course(c, ops)[j - 1], ops[j].path)
      BY <1>2
    <3>3. j - 1 \in 0 .. Len(ops) /\ j \in 1 .. Len(ops)
      OBVIOUS
    <3>4. entries[k].path = ops[j].path
      BY <3>2, <3>3, FoundIsEntry
    <3> QED
      BY <1>1, <1>4, <3>1, <3>4 DEF IsFirst
  <2>8. \A k, l \in 1 .. Len(all) : all[k].path = all[l].path => k = l
    BY <1>2, <2>2, <2>3, <2>7
  <2> QED
    BY <2>1, <2>2, <2>4, <2>5, <2>6, <2>8 DEF IsCollection
<1>5. CASE ~IsFirst(ops, n)
  <2>1. CollectedOne(c, ops, entries, n) = entries
    BY <1>5 DEF CollectedOne
  <2>2. PICK i \in 1 .. n - 1 : ops[i].path = ops[n].path
    BY <1>5 DEF IsFirst
  <2>3. \A k \in 1 .. Len(entries) : \E j \in 1 .. n :
          IsFirst(ops, j) /\ entries[k] = Found(Course(c, ops)[j - 1], ops[j].path)
    BY <1>2, <1>3
  <2>4. \A j \in 1 .. n : \E k \in 1 .. Len(entries) : entries[k].path = ops[j].path
    BY <1>2, <1>3, <2>2
  <2> QED
    BY <1>2, <2>1, <2>3, <2>4 DEF IsCollection
<1> QED
  BY <1>4, <1>5

(* So what a turn remembers is the collection of all its operations.       *)
LEMMA TouchedIsCollection ==
  ASSUME NEW c, NEW ops, Len(ops) \in Nat,
         \A i \in 0 .. Len(ops) : Course(c, ops)[i] \in LooseCards,
         \A i \in 1 .. Len(ops) : ops[i].path \in PathNames
  PROVE  IsCollection(c, ops, Touched(c, ops), Len(ops))
<1> DEFINE all == Collected(c, ops)
<1>1. /\ Touched(c, ops) = all[Len(ops)]
      /\ all = [i \in 0 .. Len(ops) |->
                  IF i = 0 THEN <<>> ELSE CollectedOne(c, ops, all[i - 1], i)]
  BY CollectedUnfolds
<1> HIDE DEF all
<1>2. /\ all[0] = <<>>
      /\ \A i \in 1 .. Len(ops) : all[i] = CollectedOne(c, ops, all[i - 1], i)
  <2>1. \A i \in 0 .. Len(ops) : all[i] = IF i = 0 THEN <<>>
                                          ELSE CollectedOne(c, ops, all[i - 1], i)
    BY <1>1
  <2>2. 0 \in 0 .. Len(ops) /\ \A i \in 1 .. Len(ops) : i \in 0 .. Len(ops) /\ i # 0
    OBVIOUS
  <2> QED
    BY <2>1, <2>2
<1> DEFINE Bad == {i \in 0 .. Len(ops) : ~IsCollection(c, ops, all[i], i)}
<1>3. Bad = {}
  <2> SUFFICES ASSUME Bad # {} PROVE FALSE
    OBVIOUS
  <2>1. Bad \in SUBSET Nat
    OBVIOUS
  <2>2. PICK n \in Bad : \A m \in Bad : n <= m
    <3> HIDE DEF Bad
    <3> QED
      BY <2>1, LeastExists
  <2>3. n \in 0 .. Len(ops) /\ ~IsCollection(c, ops, all[n], n)
    OBVIOUS
  <2>4. n # 0
    <3>1. <<>> \in Seq(Entries) /\ Len(<<>>) = 0
      OBVIOUS
    <3>2. IsCollection(c, ops, <<>>, 0)
      BY <3>1 DEF IsCollection
    <3> QED
      BY <1>2, <2>3, <3>2
  <2>5. n - 1 \in 0 .. Len(ops) /\ ~(n <= n - 1) /\ n \in 1 .. Len(ops)
    BY <2>3, <2>4
  <2>6. IsCollection(c, ops, all[n - 1], n - 1)
    BY <2>2, <2>5
  <2> HIDE DEF Bad
  <2>7. IsCollection(c, ops, all[n], n)
    BY <1>2, <2>5, <2>6, CollectionGrows
  <2> QED
    BY <2>3, <2>7
<1>4. Len(ops) \in 0 .. Len(ops)
  OBVIOUS
<1> QED
  BY <1>1, <1>3, <1>4

(* Two cards that agree on one place.                                      *)
SameAt(a, b, place) ==
  /\ place = "str" => a.str = b.str
  /\ place = "items" => a.items = b.items

(* What is found under a path depends on its place alone.                  *)
LEMMA FoundIsLocal ==
  ASSUME NEW a, NEW b, NEW path \in PathNames, SameAt(a, b, Place(path))
  PROVE  Found(a, path) = Found(b, path)
<1>1. CASE Place(path) = "str"
  <2>1. path \in {"/attributes", "/attributes/str"} /\ path \notin {"/inventory", "/inventory/0"}
    BY <1>1, PlaceOf
  <2>2. a.str = b.str
    BY <1>1 DEF SameAt
  <2> QED
    BY <1>1, <2>1, <2>2 DEF Found, Exists, Place
<1>2. CASE Place(path) = "items"
  <2>1. path \in {"/inventory", "/inventory/0"} /\ path # "/attributes/str"
    BY <1>2, PlaceOf
  <2>2. a.items = b.items
    BY <1>2 DEF SameAt
  <2> QED
    BY <1>2, <2>1, <2>2 DEF Found, Exists
<1> QED
  BY <1>1, <1>2, PlaceOf

(* Entries of which no two are about the same place.                       *)
Separate(entries) ==
  \A k, l \in 1 .. Len(entries) : Place(entries[k].path) = Place(entries[l].path) => k = l

(* The entries of a change to a card: one for each path and, where no two  *)
(* are about the same place, with what the card had there.                 *)
EntriesOf(entries, c) ==
  /\ entries \in Seq(Entries)
  /\ \A k \in 1 .. Len(entries) : IsEntry(entries[k])
  /\ \A k, l \in 1 .. Len(entries) : entries[k].path = entries[l].path => k = l
  /\ Separate(entries) =>
       \A k \in 1 .. Len(entries) : entries[k] = Found(c, entries[k].path)

(* Operations on one place leave the other alone.                          *)
LEMMA CourseIsLocal ==
  ASSUME NEW c \in LooseCards, NEW ops, Len(ops) \in Nat,
         \A i \in 1 .. Len(ops) : IsOperation(ops[i]),
         CanApplyAll(c, ops),
         NEW place \in {"str", "items"}, NEW n \in 0 .. Len(ops),
         \A i \in 1 .. n : Place(ops[i].path) # place
  PROVE  SameAt(Course(c, ops)[n], c, place)
<1> DEFINE at == Course(c, ops)
<1>1. at[0] = c /\ \A i \in 1 .. Len(ops) : at[i] = Applied(at[i - 1], ops[i])
  BY CourseSteps
<1>2. \A i \in 1 .. Len(ops) : CanApply(at[i - 1], ops[i])
  BY DEF CanApplyAll
<1>3. \A i \in 0 .. Len(ops) : at[i] \in LooseCards
  BY CourseIsCards
<1> HIDE DEF at
<1> DEFINE Bad == {i \in 0 .. n : ~SameAt(at[i], c, place)}
<1>4. Bad = {}
  <2> SUFFICES ASSUME Bad # {} PROVE FALSE
    OBVIOUS
  <2>1. Bad \in SUBSET Nat
    OBVIOUS
  <2>2. PICK m \in Bad : \A i \in Bad : m <= i
    <3> HIDE DEF Bad
    <3> QED
      BY <2>1, LeastExists
  <2>3. m \in 0 .. n /\ ~SameAt(at[m], c, place)
    OBVIOUS
  <2>4. m # 0
    BY <1>1, <2>3 DEF SameAt
  <2>5. m - 1 \in 0 .. n /\ ~(m <= m - 1) /\ m \in 1 .. n /\ m \in 1 .. Len(ops)
        /\ m - 1 \in 0 .. Len(ops)
    BY <2>3, <2>4
  <2>6. SameAt(at[m - 1], c, place)
    BY <2>2, <2>5
  <2> HIDE DEF Bad
  <2>7. Place(ops[m].path) \in {"str", "items"} \ {place}
    <3>1. ops[m].path \in PathNames
      BY <1>2, <1>3, <2>5, AppliedIsCard
    <3> QED
      BY <2>5, <3>1, PlaceOf
  <2>8. /\ Place(ops[m].path) = "str" => at[m].items = at[m - 1].items
        /\ Place(ops[m].path) = "items" => at[m].str = at[m - 1].str
    BY <1>1, <1>2, <1>3, <2>5, AppliedIsCard
  <2> QED
    BY <2>3, <2>6, <2>7, <2>8 DEF SameAt
<1> QED
  BY <1>4 DEF at

(* What a turn remembers are entries of the card it found.                 *)
LEMMA TouchedAreEntries ==
  ASSUME NEW c \in LooseCards, NEW ops, Len(ops) \in Nat,
         \A i \in 1 .. Len(ops) : IsOperation(ops[i]),
         CanApplyAll(c, ops)
  PROVE  EntriesOf(Touched(c, ops), c)
<1> DEFINE t == Touched(c, ops)
<1>1. \A i \in 0 .. Len(ops) : Course(c, ops)[i] \in LooseCards
  BY CourseIsCards
<1>2. \A i \in 1 .. Len(ops) : ops[i].path \in PathNames
  BY DEF IsOperation, PathNames
<1>3. IsCollection(c, ops, t, Len(ops))
  BY <1>1, <1>2, TouchedIsCollection
<1> HIDE DEF t
<1>4. ASSUME Separate(t), NEW k \in 1 .. Len(t)
      PROVE  t[k] = Found(c, t[k].path)
  <2>1. PICK j \in 1 .. Len(ops) :
           IsFirst(ops, j) /\ t[k] = Found(Course(c, ops)[j - 1], ops[j].path)
    BY <1>3 DEF IsCollection
  <2>2. j - 1 \in 0 .. Len(ops) /\ \A i \in 1 .. j - 1 : i \in 1 .. Len(ops)
    OBVIOUS
  <2>3. ops[j].path \in PathNames /\ t[k].path = ops[j].path
    BY <1>1, <1>2, <2>1, <2>2, FoundIsEntry
  <2>4. \A i \in 1 .. j - 1 : Place(ops[i].path) # Place(ops[j].path)
    <3>1. SUFFICES ASSUME NEW i \in 1 .. j - 1, Place(ops[i].path) = Place(ops[j].path)
                   PROVE  FALSE
      OBVIOUS
    <3>2. PICK l \in 1 .. Len(t) : t[l].path = ops[i].path
      BY <1>3, <2>2 DEF IsCollection
    <3>3. k = l
      BY <1>4, <2>3, <3>1, <3>2 DEF Separate
    <3> QED
      BY <2>1, <2>3, <3>2, <3>3 DEF IsFirst
  <2>5. SameAt(Course(c, ops)[j - 1], c, Place(ops[j].path))
    BY <2>2, <2>3, <2>4, PlaceOf, CourseIsLocal
  <2> QED
    BY <2>1, <2>3, <2>5, FoundIsLocal
<1>5. EntriesOf(t, c)
  BY <1>3, <1>4 DEF IsCollection, EntriesOf
<1> QED
  BY <1>5 DEF t

(* Undoing one place leaves the other alone, between any two of its cards. *)
LEMMA RestorationsAreLocal ==
  ASSUME NEW c \in LooseCards, NEW before, Len(before) \in Nat,
         \A i \in 1 .. Len(before) : IsEntry(before[i]),
         CanRestore(c, before),
         NEW place \in {"str", "items"},
         NEW n \in 0 .. Len(before), NEW m \in 0 .. n,
         \A i \in m + 1 .. n : Place(before[i].path) # place
  PROVE  SameAt(Restorations(c, before)[n], Restorations(c, before)[m], place)
<1> DEFINE at == Restorations(c, before)
<1>1. \A i \in 1 .. Len(before) : at[i] = RestoredOne(at[i - 1], before[i])
  BY RestorationSteps
<1>2. \A i \in 1 .. Len(before) : before[i].exists => CanSet(at[i - 1], before[i].path)
  BY DEF CanRestore
<1>3. \A i \in 0 .. Len(before) : at[i] \in LooseCards
  BY RestorationsAreCards
<1> HIDE DEF at
<1> DEFINE Bad == {i \in m .. n : ~SameAt(at[i], at[m], place)}
<1>4. Bad = {}
  <2> SUFFICES ASSUME Bad # {} PROVE FALSE
    OBVIOUS
  <2>1. Bad \in SUBSET Nat
    OBVIOUS
  <2>2. PICK l \in Bad : \A i \in Bad : l <= i
    <3> HIDE DEF Bad
    <3> QED
      BY <2>1, LeastExists
  <2>3. l \in m .. n /\ ~SameAt(at[l], at[m], place)
    OBVIOUS
  <2>4. l # m
    BY <2>3 DEF SameAt
  <2>5. /\ l - 1 \in m .. n /\ ~(l <= l - 1) /\ l \in m + 1 .. n
        /\ l \in 1 .. Len(before) /\ l - 1 \in 0 .. Len(before)
    BY <2>3, <2>4
  <2>6. SameAt(at[l - 1], at[m], place)
    BY <2>2, <2>5
  <2> HIDE DEF Bad
  <2>7. IsEntry(before[l]) /\ Place(before[l].path) \in {"str", "items"} \ {place}
    <3>1. before[l].path \in PathNames
      BY <2>5 DEF IsEntry, Entries
    <3> QED
      BY <2>5, <3>1, PlaceOf
  <2>8. /\ Place(before[l].path) = "str" => at[l].items = at[l - 1].items
        /\ Place(before[l].path) = "items" => at[l].str = at[l - 1].str
    BY <1>1, <1>2, <1>3, <2>5, <2>7, RestoredOneIsCard
  <2> QED
    BY <2>3, <2>6, <2>7, <2>8 DEF SameAt
<1>5. n \in m .. n
  OBVIOUS
<1> QED
  BY <1>4, <1>5 DEF at

(* What an undo remembers are entries of the card it found, for the same   *)
(* paths.                                                                  *)
LEMMA RememberedAreEntries ==
  ASSUME NEW c \in LooseCards, NEW before \in Seq(Entries),
         \A i \in 1 .. Len(before) : IsEntry(before[i]),
         \A k, l \in 1 .. Len(before) : before[k].path = before[l].path => k = l,
         CanRestore(c, before)
  PROVE  EntriesOf(Remembered(c, before), c)
<1> DEFINE at == Restorations(c, before)
<1> DEFINE es == Remembered(c, before)
<1>1. Len(before) \in Nat
  OBVIOUS
<1>2. \A i \in 0 .. Len(before) : at[i] \in LooseCards
  BY <1>1, RestorationsAreCards
<1>3. \A i \in 1 .. Len(before) : before[i].path \in PathNames /\ i - 1 \in 0 .. Len(before)
  BY <1>1 DEF IsEntry, Entries
<1>4. at[0] = c
  BY <1>1, RestorationSteps
<1>5. es = [i \in 1 .. Len(before) |-> Found(at[i - 1], before[i].path)]
  BY DEF Remembered
<1> HIDE DEF at, es
<1>6. \A i \in 1 .. Len(before) :
         IsEntry(Found(at[i - 1], before[i].path)) /\ Found(at[i - 1], before[i].path).path = before[i].path
  BY <1>2, <1>3, FoundIsEntry
<1>7. es \in Seq(Entries) /\ Len(es) = Len(before)
  <2>1. es \in [1 .. Len(before) -> Entries]
    BY <1>5, <1>6 DEF IsEntry
  <2> QED
    BY <1>1, <2>1
<1>8. \A i \in 1 .. Len(es) : IsEntry(es[i]) /\ es[i].path = before[i].path
  BY <1>5, <1>6, <1>7
<1>9. \A k, l \in 1 .. Len(es) : es[k].path = es[l].path => k = l
  BY <1>7, <1>8
<1>10. ASSUME Separate(es), NEW k \in 1 .. Len(es)
       PROVE  es[k] = Found(c, es[k].path)
  <2>1. k \in 1 .. Len(before) /\ k - 1 \in 0 .. Len(before) /\ 0 \in 0 .. k - 1
    BY <1>1, <1>7
  <2>2. \A i \in 0 + 1 .. k - 1 : Place(before[i].path) # Place(before[k].path)
    <3>1. SUFFICES ASSUME NEW i \in 1 .. k - 1, Place(before[i].path) = Place(before[k].path)
                   PROVE  FALSE
      OBVIOUS
    <3>2. i \in 1 .. Len(es) /\ i # k
      BY <1>1, <1>7, <2>1
    <3> QED
      BY <1>8, <1>10, <3>1, <3>2 DEF Separate
  <2>3. Place(before[k].path) \in {"str", "items"}
    BY <1>3, <2>1, PlaceOf
  <2>4. SameAt(at[k - 1], at[0], Place(before[k].path))
    BY <1>1, <2>1, <2>2, <2>3, RestorationsAreLocal DEF at
  <2>5. Found(at[k - 1], before[k].path) = Found(c, before[k].path)
    BY <1>3, <1>4, <2>1, <2>4, FoundIsLocal
  <2>6. es[k] = Found(at[k - 1], before[k].path) /\ es[k].path = before[k].path
    BY <1>5, <1>8, <2>1
  <2> QED
    BY <2>5, <2>6
<1>11. EntriesOf(es, c)
  BY <1>7, <1>8, <1>9, <1>10 DEF EntriesOf
<1> QED
  BY <1>11 DEF es

(* Undoing gives a place back what was found there.                        *)
LEMMA RestoredOneGivesBack ==
  ASSUME NEW c \in LooseCards, NEW was \in LooseCards,
         NEW path \in PathNames \ {"/inventory/0"}
  PROVE  SameAt(RestoredOne(c, Found(was, path)), was, Place(path))
<1> DEFINE e == Found(was, path)
<1>1. IsEntry(e) /\ e.path = path
  BY FoundIsEntry
<1>2. c.str \in Int /\ was.str \in Int /\ (was.items # Absent => was.items \in Seq(Items))
  BY DEF LooseCards, Lists
<1>3. CASE path \in {"/attributes", "/attributes/str"}
  <2>1. Place(path) = "str" /\ Place(path) # "items"
    BY <1>3 DEF Place
  <2>2. e.value = was.str /\ (e.exists <=> Exists(was, path))
    BY <1>3, <2>1 DEF Found
  <2> HIDE DEF e
  <2>3. CASE e.exists
    <3>1. RestoredOne(c, e) = Set(c, path, was.str)
      BY <1>1, <2>2, <2>3 DEF RestoredOne
    <3>2. Set(c, path, was.str).str = was.str
      BY <1>2, <1>3, <2>1, SetIsCard
    <3> QED
      BY <2>1, <3>1, <3>2 DEF SameAt, e
  <2>4. CASE ~e.exists
    <3>1. path = "/attributes/str" /\ was.str = Gone
      BY <1>3, <2>1, <2>2, <2>4 DEF Exists
    <3>2. CASE Exists(c, path)
      <4>1. RestoredOne(c, e) = Removed(c, path)
        BY <1>1, <2>4, <3>2 DEF RestoredOne
      <4>2. Removed(c, path).str = Gone
        BY <2>1, <3>1, <3>2, RemovedIsCard
      <4> QED
        BY <2>1, <3>1, <4>1, <4>2 DEF SameAt, e
    <3>3. CASE ~Exists(c, path)
      <4>1. RestoredOne(c, e) = c
        BY <1>1, <2>4, <3>3 DEF RestoredOne
      <4>2. c.str = Gone
        BY <2>1, <3>1, <3>3 DEF Exists
      <4> QED
        BY <2>1, <3>1, <4>1, <4>2 DEF SameAt, e
    <3> QED
      BY <3>2, <3>3
  <2> QED
    BY <2>3, <2>4
<1>4. CASE path = "/inventory"
  <2>1. Place(path) = "items" /\ Place(path) # "str"
    BY <1>4 DEF Place
  <2>2. e.value = was.items /\ (e.exists <=> was.items # Absent)
    BY <1>4, <2>1 DEF Found, Exists
  <2> HIDE DEF e
  <2>3. CASE e.exists
    <3>1. RestoredOne(c, e) = Set(c, path, was.items)
      BY <1>1, <2>2, <2>3 DEF RestoredOne
    <3>2. Set(c, path, was.items).items = was.items
      BY <1>2, <1>4, <2>1, <2>2, <2>3, SetIsCard
    <3> QED
      BY <2>1, <3>1, <3>2 DEF SameAt, e
  <2>4. CASE ~e.exists /\ Exists(c, path)
    <3>1. RestoredOne(c, e) = Removed(c, path)
      BY <1>1, <2>4 DEF RestoredOne
    <3>2. Removed(c, path).items = Absent
      BY <1>4, <2>4, RemovedIsCard
    <3> QED
      BY <2>1, <2>2, <2>4, <3>1, <3>2 DEF SameAt, e
  <2>5. CASE ~e.exists /\ ~Exists(c, path)
    <3>1. RestoredOne(c, e) = c
      BY <1>1, <2>5 DEF RestoredOne
    <3>2. c.items = Absent
      BY <1>4, <2>5 DEF Exists
    <3> QED
      BY <2>1, <2>2, <2>5, <3>1, <3>2 DEF SameAt, e
  <2> QED
    BY <2>3, <2>4, <2>5
<1> QED
  BY <1>3, <1>4 DEF PathNames

(* Undoing entries of a card gives every place they name back what the     *)
(* card had there, and leaves the others alone.                            *)
LEMMA UndoGivesBack ==
  ASSUME NEW c \in LooseCards, NEW was \in LooseCards, NEW before,
         EntriesOf(before, was), Separate(before), CanRestore(c, before),
         \A k \in 1 .. Len(before) : before[k].path # "/inventory/0",
         NEW place \in {"str", "items"}
  PROVE  /\ (\E k \in 1 .. Len(before) : Place(before[k].path) = place)
              => SameAt(Restored(c, before), was, place)
         /\ ~(\E k \in 1 .. Len(before) : Place(before[k].path) = place)
              => SameAt(Restored(c, before), c, place)
<1> DEFINE at == Restorations(c, before)
<1>1. /\ before \in Seq(Entries) /\ Len(before) \in Nat
      /\ \A k \in 1 .. Len(before) : IsEntry(before[k])
      /\ \A k \in 1 .. Len(before) : before[k] = Found(was, before[k].path)
  BY DEF EntriesOf
<1>2. /\ at[0] = c
      /\ \A i \in 1 .. Len(before) : at[i] = RestoredOne(at[i - 1], before[i])
      /\ \A i \in 0 .. Len(before) : at[i] \in LooseCards
  BY <1>1, RestorationSteps, RestorationsAreCards
<1>3. \A n \in 0 .. Len(before), m \in 0 .. Len(before) :
         m <= n /\ (\A i \in m + 1 .. n : Place(before[i].path) # place)
           => SameAt(at[n], at[m], place)
  <2>1. SUFFICES ASSUME NEW n \in 0 .. Len(before), NEW m \in 0 .. Len(before), m <= n,
                        \A i \in m + 1 .. n : Place(before[i].path) # place
                 PROVE  SameAt(at[n], at[m], place)
    OBVIOUS
  <2>2. m \in 0 .. n
    BY <2>1
  <2> QED
    BY <1>1, <2>1, <2>2, RestorationsAreLocal
<1>4. Restored(c, before) = at[Len(before)]
  BY DEF Restored
<1> HIDE DEF at
<1>5. ASSUME NEW k \in 1 .. Len(before), Place(before[k].path) = place
      PROVE  SameAt(Restored(c, before), was, place)
  <2>1. k - 1 \in 0 .. Len(before) /\ k \in 0 .. Len(before) /\ k <= Len(before)
        /\ Len(before) \in 0 .. Len(before)
    BY <1>1
  <2>2. before[k].path \in PathNames \ {"/inventory/0"}
    BY <1>1 DEF IsEntry, Entries
  <2>3. SameAt(RestoredOne(at[k - 1], Found(was, before[k].path)), was, place)
    BY <1>2, <1>5, <2>1, <2>2, RestoredOneGivesBack
  <2>4. at[k] = RestoredOne(at[k - 1], Found(was, before[k].path))
    BY <1>1, <1>2
  <2>5. \A i \in k + 1 .. Len(before) : Place(before[i].path) # place
    <3>1. SUFFICES ASSUME NEW i \in k + 1 .. Len(before), Place(before[i].path) = place
                   PROVE  FALSE
      OBVIOUS
    <3>2. i \in 1 .. Len(before) /\ i # k
      BY <1>1
    <3> QED
      BY <1>5, <3>1, <3>2 DEF Separate
  <2>6. SameAt(at[Len(before)], at[k], place)
    BY <1>3, <2>1, <2>5
  <2> QED
    BY <1>4, <2>3, <2>4, <2>6 DEF SameAt
<1>6. ASSUME ~ \E k \in 1 .. Len(before) : Place(before[k].path) = place
      PROVE  SameAt(Restored(c, before), c, place)
  <2>1. 0 \in 0 .. Len(before) /\ Len(before) \in 0 .. Len(before) /\ 0 <= Len(before)
    BY <1>1
  <2>2. \A i \in 0 + 1 .. Len(before) : Place(before[i].path) # place
    BY <1>6
  <2>3. SameAt(at[Len(before)], at[0], place)
    BY <1>3, <2>1, <2>2
  <2> QED
    BY <1>2, <1>4, <2>3
<1> QED
  BY <1>5, <1>6

(* A change about no two paths of one place is about separate entries.     *)
LEMMA PlainIsSeparate ==
  ASSUME NEW ch, NEW c, EntriesOf(ch.card, c), Plain(ch)
  PROVE  Separate(ch.card)
<1> DEFINE es == ch.card
<1>1. /\ Len(es) \in Nat
      /\ \A k \in 1 .. Len(es) : es[k].path \in PathNames
      /\ \A k, l \in 1 .. Len(es) : es[k].path = es[l].path => k = l
  BY DEF EntriesOf, Entries, IsEntry
<1>2. IsFiniteSet(Paths(ch)) /\ Cardinality(Paths(ch)) \in Nat
  <2>1. Paths(ch) \subseteq PathNames
    BY <1>1 DEF Paths
  <2>2. IsFiniteSet(PathNames)
    <3>1. PathNames = (({"/attributes"} \cup {"/attributes/str"}) \cup {"/inventory"})
                        \cup {"/inventory/0"}
      BY DEF PathNames
    <3>2. /\ IsFiniteSet({"/attributes"}) /\ IsFiniteSet({"/attributes/str"})
          /\ IsFiniteSet({"/inventory"}) /\ IsFiniteSet({"/inventory/0"})
      BY FS_Singleton
    <3>3. IsFiniteSet({"/attributes"} \cup {"/attributes/str"})
      BY <3>2, FS_Union
    <3>4. IsFiniteSet(({"/attributes"} \cup {"/attributes/str"}) \cup {"/inventory"})
      BY <3>2, <3>3, FS_Union
    <3> QED
      BY <3>1, <3>2, <3>4, FS_Union
  <2>3. IsFiniteSet(Paths(ch))
    BY <2>1, <2>2, FS_Subset
  <2> QED
    BY <2>3, FS_CardinalityType
<1>3. Cardinality(Places(ch)) = Cardinality(Paths(ch))
  BY DEF Plain
<1>4. ASSUME NEW k \in 1 .. Len(es), NEW l \in 1 .. Len(es),
             Place(es[k].path) = Place(es[l].path), k # l
      PROVE  FALSE
  <2> DEFINE P == Paths(ch) \ {es[l].path}
  <2> DEFINE f == [p \in P |-> Place(p)]
  <2>1. es[k].path \in P /\ es[l].path \in Paths(ch)
    BY <1>1, <1>4 DEF Paths
  <2>2. IsFiniteSet(P) /\ Cardinality(P) = Cardinality(Paths(ch)) - 1
    BY <1>2, <2>1, FS_RemoveElement
  <2>3. f \in Surjection(P, Places(ch))
    <3>1. ASSUME NEW q \in Places(ch) PROVE \E p \in P : f[p] = q
      <4>1. PICK p \in Paths(ch) : Place(p) = q
        BY DEF Places
      <4>2. CASE p = es[l].path
        <5>1. f[es[k].path] = q
          BY <1>4, <2>1, <4>1, <4>2
        <5> QED
          BY <2>1, <5>1
      <4>3. CASE p # es[l].path
        BY <4>1, <4>3
      <4> QED
        BY <4>2, <4>3
    <3>2. f \in [P -> Places(ch)]
      BY DEF Places
    <3> HIDE DEF f, P
    <3> QED
      BY <3>1, <3>2, Fun_IsSurj
  <2> HIDE DEF f, P
  <2>4. Cardinality(Places(ch)) <= Cardinality(P)
    BY <2>2, <2>3, FS_Surjection
  <2> QED
    BY <1>2, <1>3, <2>2, <2>4
<1> QED
  BY <1>4 DEF Separate

-----------------------------------------------------------------------------
(* The invariant                                                           *)

(* Rows of group_changes.                                                  *)
ChangeRecords ==
  [card : Seq(Entries),
   notes : UNION {[S -> NoteStates] : S \in SUBSET Notes},
   undone : BOOLEAN,
   was : [card : LooseCards, notes : [Notes -> NoteStates]]]

(* A change remembers the card and the notes as they were.                 *)
IsChange(ch) ==
  /\ ch \in ChangeRecords
  /\ EntriesOf(ch.card, ch.was.card)
  /\ \A n \in DOMAIN ch.notes : ch.notes[n] = ch.was.notes[n]

LogKept ==
  /\ changes \in Seq(ChangeRecords)
  /\ \A i \in 1 .. Len(changes) : IsChange(changes[i])

(* What a writer checked before its first write still holds when it        *)
(* writes: the collector touches neither the card nor the log.             *)
WritingKept ==
  /\ writing.kind \in {"commit", "undo"} => writing.version \in Nat
  /\ writing.kind = "commit" =>
       /\ writing.turn \in Turns
       /\ CanApplyAll(card, writing.turn.card)
       /\ Valid(Course(card, writing.turn.card)[Len(writing.turn.card)])
  /\ writing.kind = "undo" =>
       /\ writing.change \in 1 .. Len(changes)
       /\ Conflicts(writing.change) = {}
       /\ CanRestore(card, changes[writing.change].card)
       /\ Valid(Restored(card, changes[writing.change].card))
  /\ writing.kind = "replace" => writing.sheet \in Sheets

RecordsKept == TypeOK /\ LogKept /\ WritingKept

(* Cards are loose cards, and valid loose cards are cards.                 *)
LEMMA ValidCards ==
  /\ Cards \subseteq LooseCards
  /\ \A c \in LooseCards : Valid(c) => c \in Cards
<1>1. MaxAttribute \in Nat
  BY CampaignAssumption
<1>2. {Gone} \cup 0 .. MaxAttribute \subseteq Int
  BY <1>1 DEF Gone
<1>3. Cards \subseteq LooseCards
  BY <1>2 DEF Cards, LooseCards
<1>4. ASSUME NEW c \in LooseCards, Valid(c) PROVE c \in Cards
  BY <1>4 DEF Cards, LooseCards, Valid
<1> QED
  BY <1>3, <1>4

(* What a turn's card operations make of a card.                           *)
LEMMA TurnIsApplied ==
  ASSUME NEW c \in Cards, NEW turn \in Turns, CanApplyAll(c, turn.card),
         Valid(Course(c, turn.card)[Len(turn.card)])
  PROVE  /\ Course(c, turn.card)[Len(turn.card)] \in Cards
         /\ EntriesOf(Touched(c, turn.card), c)
<1>1. /\ Len(turn.card) \in Nat
      /\ \A i \in 1 .. Len(turn.card) : IsOperation(turn.card[i])
  BY CampaignAssumption DEF IsTurn
<1>2. c \in LooseCards
  BY ValidCards
<1>3. EntriesOf(Touched(c, turn.card), c)
  BY <1>1, <1>2, TouchedAreEntries
<1>4. \A i \in 0 .. Len(turn.card) : Course(c, turn.card)[i] \in LooseCards
  BY <1>1, <1>2, CourseIsCards
<1>5. Course(c, turn.card)[Len(turn.card)] \in LooseCards
  BY <1>1, <1>4
<1> QED
  BY <1>3, <1>5, ValidCards

(* What an undo makes of a card.                                           *)
LEMMA UndoIsApplied ==
  ASSUME NEW c \in Cards, NEW ch, IsChange(ch), CanRestore(c, ch.card),
         Valid(Restored(c, ch.card))
  PROVE  /\ Restored(c, ch.card) \in Cards
         /\ EntriesOf(Remembered(c, ch.card), c)
<1>1. /\ ch.card \in Seq(Entries) /\ Len(ch.card) \in Nat
      /\ \A k \in 1 .. Len(ch.card) : IsEntry(ch.card[k])
      /\ \A k, l \in 1 .. Len(ch.card) : ch.card[k].path = ch.card[l].path => k = l
  BY DEF IsChange, EntriesOf
<1>2. c \in LooseCards
  BY ValidCards
<1>3. EntriesOf(Remembered(c, ch.card), c)
  BY <1>1, <1>2, RememberedAreEntries
<1>4. \A i \in 0 .. Len(ch.card) : Restorations(c, ch.card)[i] \in LooseCards
  BY <1>1, <1>2, RestorationsAreCards
<1>5. Restored(c, ch.card) \in LooseCards
  BY <1>1, <1>4 DEF Restored
<1> QED
  BY <1>3, <1>5, ValidCards

(* A new row of the log.                                                   *)
LEMMA ChangeMade ==
  ASSUME card \in Cards, notes \in [Notes -> NoteStates], NEW entries, EntriesOf(entries, card),
         NEW S \in SUBSET Notes
  PROVE  IsChange(Change(entries, [n \in S |-> notes[n]]))
<1> DEFINE kept == [n \in S |-> notes[n]]
<1> DEFINE ch == Change(entries, kept)
<1>1. kept \in [S -> NoteStates] /\ DOMAIN kept = S /\ \A n \in S : kept[n] = notes[n]
  OBVIOUS
<1> HIDE DEF kept
<1>2. ch = [card |-> entries, notes |-> kept, undone |-> FALSE,
            was |-> [card |-> card, notes |-> notes]]
  BY DEF Change
<1>3. ch.card = entries /\ ch.notes = kept /\ ch.was.card = card /\ ch.was.notes = notes
  BY <1>2
<1>4. ch \in ChangeRecords
  <2>1. kept \in UNION {[T -> NoteStates] : T \in SUBSET Notes}
    BY <1>1
  <2>2. entries \in Seq(Entries) /\ card \in LooseCards
    BY ValidCards DEF EntriesOf
  <2> QED
    BY <1>2, <2>1, <2>2 DEF ChangeRecords
<1> HIDE DEF ch
<1>5. IsChange(ch)
  BY <1>1, <1>3, <1>4 DEF IsChange
<1> QED
  BY <1>5 DEF ch, kept

(* The log with a row added, or marked as undone first.                    *)
LEMMA LogGrows ==
  ASSUME NEW log \in Seq(ChangeRecords), \A i \in 1 .. Len(log) : IsChange(log[i]),
         NEW ch, IsChange(ch)
  PROVE  /\ Append(log, ch) \in Seq(ChangeRecords)
         /\ \A i \in 1 .. Len(Append(log, ch)) : IsChange(Append(log, ch)[i])
<1> DEFINE all == Append(log, ch)
<1>1. ch \in ChangeRecords /\ Len(log) \in Nat
  BY DEF IsChange
<1>2. /\ all \in Seq(ChangeRecords) /\ Len(all) = Len(log) + 1
      /\ \A i \in 1 .. Len(log) : all[i] = log[i]
      /\ all[Len(log) + 1] = ch
  BY <1>1
<1> HIDE DEF all
<1>3. \A i \in 1 .. Len(all) : i \in 1 .. Len(log) \/ i = Len(log) + 1
  BY <1>1, <1>2
<1>4. \A i \in 1 .. Len(all) : IsChange(all[i])
  BY <1>2, <1>3
<1> QED
  BY <1>2, <1>4 DEF all

(* The log with a row marked as undone.                                    *)
LEMMA LogMarked ==
  ASSUME NEW log \in Seq(ChangeRecords), \A i \in 1 .. Len(log) : IsChange(log[i]),
         NEW m \in 1 .. Len(log)
  PROVE  /\ [log EXCEPT ![m].undone = TRUE] \in Seq(ChangeRecords)
         /\ \A i \in 1 .. Len([log EXCEPT ![m].undone = TRUE]) :
              IsChange([log EXCEPT ![m].undone = TRUE][i])
<1> DEFINE ch == [log[m] EXCEPT !.undone = TRUE]
<1> DEFINE all == [log EXCEPT ![m].undone = TRUE]
<1>1. IsChange(log[m]) /\ log[m] \in ChangeRecords
  BY DEF IsChange
<1>2. /\ ch \in ChangeRecords
      /\ ch.card = log[m].card /\ ch.notes = log[m].notes /\ ch.was = log[m].was
  BY <1>1 DEF ChangeRecords
<1>3. all = [log EXCEPT ![m] = ch]
  OBVIOUS
<1> HIDE DEF ch, all
<1>4. IsChange(ch)
  BY <1>1, <1>2 DEF IsChange
<1>5. /\ all \in Seq(ChangeRecords) /\ Len(all) = Len(log)
      /\ \A i \in 1 .. Len(log) : all[i] = IF i = m THEN ch ELSE log[i]
  BY <1>2, <1>3
<1>6. \A i \in 1 .. Len(all) : IsChange(all[i])
  BY <1>4, <1>5
<1> QED
  BY <1>5, <1>6 DEF all

(* Beginning an operation disturbs nothing but what is being written.      *)
LEMMA BeginKeeps ==
  ASSUME RecordsKept, NEW o, Begin(o), o.kind \in {"commit", "undo", "replace"},
         WritingKept'
  PROVE  RecordsKept'
<1>1. /\ archived' = archived /\ version' = version /\ base' = base /\ card' = card
      /\ notes' = notes /\ created' = created /\ changes' = changes /\ writing' = o
  BY DEF Begin
<1>2. TypeOK'
  BY <1>1 DEF RecordsKept, TypeOK
<1>3. LogKept'
  BY <1>1 DEF RecordsKept, LogKept
<1> QED
  BY <1>2, <1>3 DEF RecordsKept

(* Every step keeps the records.                                           *)
LEMMA RecordsStep ==
  ASSUME RecordsKept, [Next]_vars
  PROVE  RecordsKept'
<1>1. /\ archived \in BOOLEAN /\ version \in Nat /\ base \in Cards /\ card \in Cards
      /\ notes \in [Notes -> NoteStates] /\ created \in SUBSET Notes
      /\ writing.kind \in {"none", "commit", "undo", "replace"}
  BY DEF RecordsKept, TypeOK
<1>2. /\ changes \in Seq(ChangeRecords)
      /\ \A i \in 1 .. Len(changes) : IsChange(changes[i])
  BY DEF RecordsKept, LogKept
<1>3. ASSUME writing' = NotWriting PROVE WritingKept' /\ writing'.kind = "none"
  BY <1>3 DEF WritingKept, NotWriting
<1>4. ASSUME NEW turn \in Turns, CommitBegins(turn) PROVE RecordsKept'
  <2> DEFINE o == [kind |-> "commit", turn |-> turn, version |-> version]
  <2>1. /\ CanApplyAll(card, turn.card) /\ Begin(o)
        /\ Valid(Course(card, turn.card)[Len(turn.card)])
    BY <1>4 DEF CommitBegins
  <2>2. o.kind = "commit" /\ o.turn = turn /\ o.version = version
    OBVIOUS
  <2> HIDE DEF o
  <2>3. writing' = o /\ card' = card
    BY <2>1 DEF Begin
  <2>4. WritingKept'
    BY <1>1, <1>4, <2>1, <2>2, <2>3 DEF WritingKept
  <2> QED
    BY <2>1, <2>2, <2>4, BeginKeeps
<1>5. ASSUME NEW i \in 1 .. Len(changes), UndoBegins(i) PROVE RecordsKept'
  <2> DEFINE o == [kind |-> "undo", change |-> i, version |-> version]
  <2>1. /\ Conflicts(i) = {} /\ CanRestore(card, changes[i].card) /\ Begin(o)
        /\ Valid(Restored(card, changes[i].card))
    BY <1>5 DEF UndoBegins
  <2>2. o.kind = "undo" /\ o.change = i /\ o.version = version
    OBVIOUS
  <2> HIDE DEF o
  <2>3. writing' = o /\ card' = card /\ changes' = changes
    BY <2>1 DEF Begin
  <2>4. (Conflicts(writing.change))' = Conflicts(i)
    BY <2>2, <2>3 DEF Conflicts
  <2>5. WritingKept'
    BY <1>1, <2>1, <2>2, <2>3, <2>4 DEF WritingKept
  <2> QED
    BY <2>1, <2>2, <2>5, BeginKeeps
<1>6. ASSUME NEW sheet \in Sheets, NEW policy, ReplaceBegins(sheet, policy) PROVE RecordsKept'
  <2> DEFINE o == [kind |-> "replace", sheet |-> sheet, policy |-> policy]
  <2>1. Begin(o)
    BY <1>6 DEF ReplaceBegins
  <2>2. o.kind = "replace" /\ o.sheet = sheet
    OBVIOUS
  <2> HIDE DEF o
  <2>3. writing' = o
    BY <2>1 DEF Begin
  <2>4. WritingKept'
    BY <1>6, <2>2, <2>3 DEF WritingKept
  <2> QED
    BY <2>1, <2>2, <2>4, BeginKeeps
<1>7. CASE CommitEnds
  <2> DEFINE turn == writing.turn
  <2> DEFINE S == {turn.notes[i].id : i \in 1 .. Len(turn.notes)}
  <2>1. /\ card' = Course(card, turn.card)[Len(turn.card)]
        /\ notes' = NoteCourse(notes, turn.notes)[Len(turn.notes)]
        /\ created' = created \cup DOMAIN [n \in S |-> notes[n]]
        /\ changes' = Append(changes, Change(Touched(card, turn.card), [n \in S |-> notes[n]]))
        /\ version' = writing.version + 1
        /\ writing' = NotWriting /\ archived' = archived /\ base' = base
    BY <1>7 DEF CommitEnds, TouchedNotes
  <2>2. /\ turn \in Turns /\ writing.version \in Nat
        /\ CanApplyAll(card, turn.card)
        /\ Valid(Course(card, turn.card)[Len(turn.card)])
    BY <1>7 DEF CommitEnds, RecordsKept, WritingKept
  <2>3. /\ Len(turn.notes) \in Nat
        /\ \A i \in 1 .. Len(turn.notes) : IsNoteOperation(turn.notes[i])
    BY <2>2, CampaignAssumption DEF IsTurn
  <2>9. S \in SUBSET Notes
    BY <2>3 DEF IsNoteOperation
  <2> HIDE DEF S, turn
  <2>4. card' \in Cards /\ EntriesOf(Touched(card, turn.card), card)
    BY <1>1, <2>1, <2>2, TurnIsApplied
  <2>5. IsChange(Change(Touched(card, turn.card), [n \in S |-> notes[n]]))
    BY <1>1, <2>4, <2>9, ChangeMade
  <2>6. LogKept'
    BY <1>2, <2>1, <2>5, LogGrows DEF LogKept
  <2>7. notes' \in [Notes -> NoteStates]
    BY <1>1, <2>1, <2>3, NoteCourseIsNotes
  <2>10. created' \in SUBSET Notes
    BY <1>1, <2>1, <2>9
  <2>8. TypeOK'
    BY <1>1, <1>3, <2>1, <2>2, <2>4, <2>7, <2>10 DEF TypeOK
  <2> QED
    BY <1>3, <2>1, <2>6, <2>8 DEF RecordsKept
<1>8. CASE UndoEnds
  <2> DEFINE ch == changes[writing.change]
  <2> DEFINE S == DOMAIN ch.notes
  <2> DEFINE marked == [changes EXCEPT ![writing.change].undone = TRUE]
  <2> DEFINE new == Change(Remembered(card, ch.card), [n \in S |-> notes[n]])
  <2>1. /\ card' = Restored(card, ch.card)
        /\ notes' = [n \in Notes |-> IF n \in S THEN ch.notes[n] ELSE notes[n]]
        /\ created' = created
        /\ changes' = Append(marked, new)
        /\ version' = writing.version + 1
        /\ writing' = NotWriting /\ archived' = archived /\ base' = base
    BY <1>8 DEF UndoEnds
  <2>2. /\ writing.change \in 1 .. Len(changes) /\ writing.version \in Nat
        /\ CanRestore(card, ch.card)
        /\ Valid(Restored(card, ch.card))
    BY <1>8 DEF UndoEnds, RecordsKept, WritingKept
  <2>3. IsChange(ch)
    BY <1>2, <2>2
  <2>4. S \in SUBSET Notes /\ \A n \in S : ch.notes[n] \in NoteStates
    <3>1. ch.notes \in UNION {[T -> NoteStates] : T \in SUBSET Notes}
      BY <2>3 DEF IsChange, ChangeRecords
    <3>2. PICK T \in SUBSET Notes : ch.notes \in [T -> NoteStates]
      BY <3>1
    <3> QED
      BY <3>2
  <2>5. marked \in Seq(ChangeRecords) /\ \A i \in 1 .. Len(marked) : IsChange(marked[i])
    BY <1>2, <2>2, LogMarked
  <2> HIDE DEF S, ch, marked
  <2>6. card' \in Cards /\ EntriesOf(Remembered(card, ch.card), card)
    BY <1>1, <2>1, <2>2, <2>3, UndoIsApplied
  <2>7. IsChange(new)
    BY <1>1, <2>4, <2>6, ChangeMade
  <2> HIDE DEF new
  <2>8. LogKept'
    BY <2>1, <2>5, <2>7, LogGrows DEF LogKept
  <2>9. notes' \in [Notes -> NoteStates]
    BY <1>1, <2>1, <2>4
  <2>10. TypeOK'
    BY <1>1, <1>3, <2>1, <2>2, <2>6, <2>9 DEF TypeOK
  <2> QED
    BY <1>3, <2>1, <2>8, <2>10 DEF RecordsKept
<1>9. CASE ReplaceEnds
  <2> DEFINE sheet == writing.sheet
  <2> DEFINE keep == writing.policy = "preserve"
  <2>1. /\ base' = sheet
        /\ card' = IF keep THEN Overlaid(sheet) ELSE sheet
        /\ notes' = IF keep THEN notes ELSE [n \in Notes |-> NoNote]
        /\ changes' = IF keep THEN changes ELSE <<>>
        /\ version' = version + 1
        /\ writing' = NotWriting /\ archived' = archived /\ created' = created
    BY <1>9 DEF ReplaceEnds
  <2>2. sheet \in Cards
    BY <1>9, CampaignAssumption DEF ReplaceEnds, RecordsKept, WritingKept
  <2> HIDE DEF sheet, keep
  <2>3. Overlaid(sheet) \in Cards
    BY <1>1, <2>2 DEF Overlaid, Cards
  <2>4. notes' \in [Notes -> NoteStates]
    BY <1>1, <2>1 DEF NoteStates, NoNote
  <2>5. LogKept'
    <3>1. <<>> \in Seq(ChangeRecords) /\ Len(<<>>) = 0
      OBVIOUS
    <3>2. CASE keep
      BY <1>2, <2>1, <3>2 DEF LogKept
    <3>3. CASE ~keep
      BY <2>1, <3>1, <3>3 DEF LogKept
    <3> QED
      BY <3>2, <3>3
  <2>6. TypeOK'
    BY <1>1, <1>3, <2>1, <2>2, <2>3, <2>4 DEF TypeOK
  <2> QED
    BY <1>3, <2>1, <2>5, <2>6 DEF RecordsKept
<1>10. CASE Archives
  <2>1. /\ archived' \in BOOLEAN /\ version' = version + 1
        /\ base' = base /\ card' = card /\ notes' = notes /\ created' = created
        /\ changes' = changes /\ writing' = writing
    BY <1>10 DEF Archives
  <2>2. TypeOK'
    BY <1>1, <2>1 DEF TypeOK
  <2>3. LogKept'
    BY <1>2, <2>1 DEF LogKept
  <2>4. (Conflicts(writing.change))' = Conflicts(writing.change)
    BY <2>1 DEF Conflicts
  <2>5. WritingKept'
    BY <2>1, <2>4 DEF RecordsKept, WritingKept
  <2> QED
    BY <2>2, <2>3, <2>5 DEF RecordsKept
<1>11. CASE Crash
  <2>1. /\ archived' = archived /\ version' = version
        /\ base' = base /\ card' = card /\ notes' = notes /\ created' = created
        /\ changes' = changes /\ writing' = NotWriting
    BY <1>11 DEF Crash
  <2>2. TypeOK'
    BY <1>1, <1>3, <2>1 DEF TypeOK
  <2>3. LogKept'
    BY <1>2, <2>1 DEF LogKept
  <2> QED
    BY <1>3, <2>1, <2>2, <2>3 DEF RecordsKept
<1>12. CASE UNCHANGED vars
  <2>1. /\ archived' = archived /\ version' = version
        /\ base' = base /\ card' = card /\ notes' = notes /\ created' = created
        /\ changes' = changes /\ writing' = writing
    BY <1>12 DEF vars
  <2>2. (Conflicts(writing.change))' = Conflicts(writing.change)
    BY <2>1 DEF Conflicts
  <2>3. TypeOK' /\ LogKept' /\ WritingKept'
    BY <2>1, <2>2 DEF RecordsKept, TypeOK, LogKept, WritingKept
  <2> QED
    BY <2>3 DEF RecordsKept
<1> QED
  BY <1>4, <1>5, <1>6, <1>7, <1>8, <1>9, <1>10, <1>11, <1>12 DEF Next

(* The records are kept in every reachable state.                          *)
LEMMA RecordsInvariant == Spec => []RecordsKept
<1>1. Init => RecordsKept
  <2> SUFFICES ASSUME Init PROVE RecordsKept
    OBVIOUS
  <2>1. base \in Cards /\ card = base
    BY CampaignAssumption DEF Init
  <2>2. TypeOK
    BY <2>1 DEF Init, TypeOK, NotWriting, NoteStates, NoNote
  <2>3. LogKept
    <3>1. <<>> \in Seq(ChangeRecords) /\ Len(<<>>) = 0
      OBVIOUS
    <3> QED
      BY <3>1 DEF Init, LogKept
  <2>4. WritingKept
    BY DEF Init, WritingKept, NotWriting
  <2> QED
    BY <2>2, <2>3, <2>4 DEF RecordsKept
<1>2. RecordsKept /\ [Next]_vars => RecordsKept'
  BY RecordsStep
<1> QED
  BY <1>1, <1>2, PTL DEF Spec

(* The records keep their shape: whatever is committed, undone or carried  *)
(* over to another sheet, an attribute stays within its range.             *)
THEOREM TypeCorrect == Spec => []TypeOK
<1>1. RecordsKept => TypeOK
  BY DEF RecordsKept
<1> QED
  BY <1>1, RecordsInvariant, PTL

-----------------------------------------------------------------------------
(* What an undo gives back                                                 *)

(* The places and the paths of a change.                                   *)
LEMMA PathsAndPlaces ==
  ASSUME NEW ch
  PROVE  /\ Paths(ch) = {ch.card[k].path : k \in 1 .. Len(ch.card)}
         /\ Places(ch) = {Place(ch.card[k].path) : k \in 1 .. Len(ch.card)}
  BY DEF Paths, Places

(* A later change that overlaps the one an undo could pass over has        *)
(* written the same place under another name.                              *)
LEMMA OverlappingIsAliased ==
  ASSUME NEW i, Conflicts(i) = {}, Overlapping(i) # {}
  PROVE  Aliased(i)
<1>1. PICK j \in i + 1 .. Len(changes) :
         /\ ~changes[j].undone
         /\ \/ Places(changes[j]) \cap Places(changes[i]) # {}
            \/ DOMAIN changes[j].notes \cap DOMAIN changes[i].notes # {}
  BY DEF Overlapping
<1>2. /\ Paths(changes[j]) \cap Paths(changes[i]) = {}
      /\ DOMAIN changes[j].notes \cap DOMAIN changes[i].notes = {}
  BY <1>1 DEF Conflicts
<1>3. PICK place : place \in Places(changes[j]) /\ place \in Places(changes[i])
  BY <1>1, <1>2
<1>4. PICK q \in Paths(changes[j]) : Place(q) = place
  BY <1>3 DEF Places
<1>5. PICK p \in Paths(changes[i]) : Place(p) = place
  BY <1>3 DEF Places
<1>6. p # q
  BY <1>2, <1>4, <1>5
<1> QED
  BY <1>1, <1>4, <1>5, <1>6 DEF Aliased

UndoneAsFound ==
  LET ch == changes[writing.change] IN
  /\ Overlapping(writing.change) # {} => Aliased(writing.change)
  /\ Plain(ch) =>
    /\ card'.str = IF "str" \in Places(ch) THEN ch.was.card.str ELSE card.str
    /\ card'.items = IF "items" \in Places(ch) THEN ch.was.card.items ELSE card.items
    /\ \A n \in Notes :
         notes'[n] = IF n \in DOMAIN ch.notes THEN ch.was.notes[n] ELSE notes[n]

(* Every undo gives back what its change found.                            *)
LEMMA UndoStep ==
  ASSUME RecordsKept, writing.kind = "undo", UndoEnds
  PROVE  UndoneAsFound
<1> DEFINE ch == changes[writing.change]
<1>1. /\ card' = Restored(card, ch.card)
      /\ notes' = [n \in Notes |-> IF n \in DOMAIN ch.notes THEN ch.notes[n] ELSE notes[n]]
  BY DEF UndoEnds
<1>2. /\ Conflicts(writing.change) = {} /\ CanRestore(card, ch.card)
      /\ IsChange(ch) /\ card \in LooseCards
  BY ValidCards DEF RecordsKept, WritingKept, LogKept, TypeOK
<1>3. Overlapping(writing.change) # {} => Aliased(writing.change)
  BY <1>2, OverlappingIsAliased
<1> HIDE DEF ch
<1>4. ASSUME Plain(ch), NEW place \in {"str", "items"}
      PROVE  SameAt(card', IF place \in Places(ch) THEN ch.was.card ELSE card, place)
  <2>1. EntriesOf(ch.card, ch.was.card) /\ ch.was.card \in LooseCards
    BY <1>2 DEF IsChange, ChangeRecords
  <2>2. Separate(ch.card)
    BY <1>4, <2>1, PlainIsSeparate
  <2>3. \A k \in 1 .. Len(ch.card) : ch.card[k].path # "/inventory/0"
    BY <1>4, PathsAndPlaces DEF Plain
  <2>4. place \in Places(ch) <=> \E k \in 1 .. Len(ch.card) : Place(ch.card[k].path) = place
    BY PathsAndPlaces
  <2>5. /\ place \in Places(ch) => SameAt(Restored(card, ch.card), ch.was.card, place)
        /\ place \notin Places(ch) => SameAt(Restored(card, ch.card), card, place)
    BY <1>2, <2>1, <2>2, <2>3, <2>4, UndoGivesBack
  <2> QED
    BY <1>1, <2>5
<1>5. Plain(ch) => card'.str = IF "str" \in Places(ch) THEN ch.was.card.str ELSE card.str
  BY <1>4 DEF SameAt
<1>6. Plain(ch) => card'.items = IF "items" \in Places(ch) THEN ch.was.card.items ELSE card.items
  BY <1>4 DEF SameAt
<1>7. \A n \in Notes :
         notes'[n] = IF n \in DOMAIN ch.notes THEN ch.was.notes[n] ELSE notes[n]
  BY <1>1, <1>2 DEF IsChange
<1> QED
  BY <1>3, <1>5, <1>6, <1>7 DEF ch, UndoneAsFound

(* Undoing a change gives the card and the notes back what the change      *)
(* found, whatever was committed, undone or uploaded in between, and       *)
(* passes over a later change only where it used another name.             *)
THEOREM UndoRestoresHolds == Spec => UndoRestores
<1>1. RecordsKept /\ [Next]_vars => [writing.kind = "undo" /\ UndoEnds => UndoneAsFound]_vars
  BY UndoStep
<1>2. [][writing.kind = "undo" /\ UndoEnds => UndoneAsFound]_vars => UndoRestores
  BY DEF UndoRestores, UndoneAsFound
<1>3. Spec => [][writing.kind = "undo" /\ UndoEnds => UndoneAsFound]_vars
  BY <1>1, RecordsInvariant, PTL DEF Spec
<1> QED
  BY <1>2, <1>3
=============================================================================
