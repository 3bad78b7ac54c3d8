------------------------------ MODULE Campaign ------------------------------
(***************************************************************************)
(* The campaign records of one group: its character card, its notes, the   *)
(* version every writer must quote, and the log of changes that can be     *)
(* undone one by one.                                                      *)
(*                                                                         *)
(* Writers are the tools and pages of the API process, which run one at a  *)
(* time without an await.  Each reads the version and the archived flag    *)
(* before SQLite opens its write transaction, so the collector, which      *)
(* archives and restores groups on membership events, may commit between   *)
(* the check and the first write: `writing` is the operation in between.   *)
(*                                                                         *)
(* The card is cut down to one attribute and one list.  JSON Pointers name *)
(* them in two ways each, as the whole and as a part of it.                *)
(***************************************************************************)
EXTENDS Integers, Sequences, FiniteSets

CONSTANTS
  MaxAttribute,  (* attributes are 0..999                                  *)
  Items,         (* what a list holds                                      *)
  Absent,        (* in the place of a list that is not there               *)
  Notes,         (* the identifiers notes may be given                     *)
  Turns,         (* the turn updates the model sends to commit             *)
  Sheets,        (* the cards that may be uploaded                         *)
  MaxVersion     (* bound: no write beyond this version                    *)

Gone == -1       (* an attribute that is not there                         *)

Lists == Seq(Items) \cup {Absent}

Cards == [str : {Gone} \cup 0 .. MaxAttribute, items : Lists]

(* A row of campaign_notes, or none: its status, and whether its text was  *)
(* changed since it was created.                                           *)
NoteStates == [status : {"none", "active", "resolved"}, edited : BOOLEAN]

NoNote == [status |-> "none", edited |-> FALSE]

(* CardOperation on the parts of this card: a path takes values of its own *)
(* kind, a list is added to one element at a time.  Values of another kind *)
(* are left out: _validate_card refuses them of an attribute, and of a     *)
(* list nothing does.  It also refuses a card without attributes.          *)
IsOperation(o) ==
  \/ o.op = "set" /\ o.path \in {"/attributes", "/attributes/str"} /\ o.value \in Int
  \/ o.op = "set" /\ o.path = "/inventory" /\ o.value \in Seq(Items)
  \/ o.op = "set" /\ o.path = "/inventory/0" /\ o.value \in {<<x>> : x \in Items}
  \/ o.op = "increment" /\ o.path = "/attributes/str" /\ o.value \in Int
  \/ o.op = "add" /\ o.path = "/inventory" /\ o.value \in {<<x>> : x \in Items}
  \/ o.op = "remove" /\ o.path \in {"/attributes/str", "/inventory", "/inventory/0"}

(* NoteOperation.                                                          *)
IsNoteOperation(o) == o.op \in {"create", "update", "resolve", "delete"} /\ o.id \in Notes

(* commit_turn_updates takes operations on the card and on notes.  Nobody  *)
(* knows the identifier a note will be given when it is created.           *)
IsTurn(turn) ==
  /\ Len(turn.card) \in Nat
  /\ \A i \in 1 .. Len(turn.card) : IsOperation(turn.card[i])
  /\ Len(turn.notes) \in Nat
  /\ \A i \in 1 .. Len(turn.notes) : IsNoteOperation(turn.notes[i])
  /\ \A i, j \in 1 .. Len(turn.notes) :
       turn.notes[i].op = "create" /\ i # j => turn.notes[j].id # turn.notes[i].id

ASSUME CampaignAssumption ==
  /\ MaxAttribute \in Nat
  /\ MaxVersion \in Nat
  /\ Absent \notin Seq(Items)
  /\ Sheets \subseteq Cards
  /\ \A turn \in Turns : IsTurn(turn)

VARIABLES
  archived,   (* groups.archived                                           *)
  version,    (* groups.version                                            *)
  base,       (* characters.base_json, the card as it was uploaded         *)
  card,       (* characters.current_json                                   *)
  notes,      (* campaign_notes, by identifier                             *)
  created,    (* the identifiers already given out                         *)
  changes,    (* group_changes, oldest first                               *)
  writing,    (* the operation between its check and its first write       *)
  named       (* history: what the last version to be read stood for       *)

vars == <<archived, version, base, card, notes, created, changes, writing, named>>

-----------------------------------------------------------------------------
(* JSON Pointers                                                           *)

(* The part of the card a path leads to.                                   *)
Place(path) == IF path \in {"/attributes", "/attributes/str"} THEN "str" ELSE "items"

Exists(c, path) ==
  /\ path = "/attributes/str" => c.str # Gone
  /\ Place(path) = "items" => c.items # Absent
  /\ path = "/inventory/0" => c.items # <<>>

(* _pointer_get.                                                           *)
Found(c, path) ==
  [path |-> path,
   exists |-> Exists(c, path),
   value |-> CASE Place(path) = "str" -> c.str
               [] path = "/inventory" -> c.items
               [] path = "/inventory/0" -> IF Exists(c, path) THEN <<Head(c.items)>> ELSE <<>>]

(* A list element can be set only where there is one; a key always.        *)
CanSet(c, path) == path = "/inventory/0" => Exists(c, path)

(* _pointer_set.                                                           *)
Set(c, path, value) ==
  CASE Place(path) = "str" -> [c EXCEPT !.str = value]
    [] path = "/inventory" -> [c EXCEPT !.items = value]
    [] path = "/inventory/0" -> [c EXCEPT !.items[1] = Head(value)]

(* _pointer_remove: the elements behind a removed one move up.             *)
Removed(c, path) ==
  CASE Place(path) = "str" -> [c EXCEPT !.str = Gone]
    [] path = "/inventory" -> [c EXCEPT !.items = Absent]
    [] path = "/inventory/0" -> [c EXCEPT !.items = Tail(@)]

(* Mutant: an attribute may have any value.                                *)
ValidNumber(c) == c.str >= Gone

(* _validate_card.                                                         *)
Valid(c) == c.str \in {Gone} \cup 0 .. MaxAttribute

-----------------------------------------------------------------------------
(* One card operation of a turn                                            *)

CanApply(c, o) ==
  CASE o.op = "set" -> CanSet(c, o.path)
    [] o.op \in {"increment", "add", "remove"} -> Exists(c, o.path)

Applied(c, o) ==
  CASE o.op = "set" -> Set(c, o.path, o.value)
    [] o.op = "increment" -> Set(c, o.path, c.str + o.value)
    [] o.op = "add" -> Set(c, o.path, c.items \o o.value)
    [] o.op = "remove" -> Removed(c, o.path)

(* The cards a sequence of operations goes through.                        *)
Course(c, ops) ==
  LET at[i \in 0 .. Len(ops)] == IF i = 0 THEN c ELSE Applied(at[i - 1], ops[i])
  IN  at

CanApplyAll(c, ops) == \A i \in 1 .. Len(ops) : CanApply(Course(c, ops)[i - 1], ops[i])

(* Mutant: what a path was before the last operation on it.                *)
TouchedLast(c, ops) ==
  LET Final(i) == \A j \in i + 1 .. Len(ops) : ops[j].path # ops[i].path
      Is[i \in 0 .. Len(ops)] ==
        IF i = 0 THEN <<>>
        ELSE IF Final(i) THEN Append(Is[i - 1], Found(Course(c, ops)[i - 1], ops[i].path))
        ELSE Is[i - 1]
  IN  Is[Len(ops)]

(* touched_card: each path once, in the order of the operations, with what *)
(* it was before the first of them.                                        *)
Touched(c, ops) ==
  LET First(i) == \A j \in 1 .. i - 1 : ops[j].path # ops[i].path
      Is[i \in 0 .. Len(ops)] ==
        IF i = 0 THEN <<>>
        ELSE IF First(i) THEN Append(Is[i - 1], Found(Course(c, ops)[i - 1], ops[i].path))
        ELSE Is[i - 1]
  IN  Is[Len(ops)]

(* What undoing does with each touched path, in the same order.            *)
Restorations(c, before) ==
  LET at[i \in 0 .. Len(before)] ==
        IF i = 0 THEN c
        ELSE IF before[i].exists THEN Set(at[i - 1], before[i].path, before[i].value)
        ELSE IF Exists(at[i - 1], before[i].path) THEN Removed(at[i - 1], before[i].path)
        ELSE at[i - 1]
  IN  at

CanRestore(c, before) ==
  \A i \in 1 .. Len(before) :
    before[i].exists => CanSet(Restorations(c, before)[i - 1], before[i].path)

Restored(c, before) == Restorations(c, before)[Len(before)]

(* What the undo itself remembers of the paths it restores.                *)
Remembered(c, before) ==
  [i \in 1 .. Len(before) |-> Found(Restorations(c, before)[i - 1], before[i].path)]

-----------------------------------------------------------------------------
(* Notes                                                                   *)

NoteAfter(note, o) ==
  CASE o.op = "create" -> [status |-> "active", edited |-> FALSE]
    [] o.op = "update" -> [note EXCEPT !.edited = TRUE]
    [] o.op = "resolve" -> [note EXCEPT !.status = "resolved"]
    [] o.op = "delete" -> NoNote

(* The notes a sequence of operations goes through.                        *)
NoteCourse(kept, ops) ==
  LET at[i \in 0 .. Len(ops)] ==
        IF i = 0 THEN kept
        ELSE [at[i - 1] EXCEPT ![ops[i].id] = NoteAfter(@, ops[i])]
  IN  at

(* What is created has a new name; anything else must be there by now.     *)
NotesApply(ops) ==
  \A i \in 1 .. Len(ops) :
    IF ops[i].op = "create" THEN ops[i].id \notin created
    ELSE NoteCourse(notes, ops)[i - 1][ops[i].id] # NoNote

(* touched_notes: each note once, with what it was before the first        *)
(* operation on it.                                                        *)
TouchedNotes(ops) == [n \in {ops[i].id : i \in 1 .. Len(ops)} |-> notes[n]]

-----------------------------------------------------------------------------
(* The log of changes                                                      *)

Paths(ch) == {ch.card[i].path : i \in 1 .. Len(ch.card)}

(* The later changes, not undone, that touched a path or a note of change  *)
(* i: the same path, letter by letter.                                     *)
Conflicts(i) ==
  {j \in i + 1 .. Len(changes) :
     /\ ~changes[j].undone
     /\ \/ Paths(changes[j]) \cap Paths(changes[i]) # {}
        \/ DOMAIN changes[j].notes \cap DOMAIN changes[i].notes # {}}

(* A row of group_changes.  `was` is history: the records before it.       *)
Change(touched, touchedNotes) ==
  [card |-> touched, notes |-> touchedNotes, undone |-> FALSE,
   was |-> [card |-> card, notes |-> notes]]

-----------------------------------------------------------------------------
NotWriting == [kind |-> "none"]

Contents == [card |-> card, notes |-> notes]

Init ==
  /\ archived \in BOOLEAN
  /\ version = 1
  /\ base \in Sheets
  /\ card = base
  /\ notes = [n \in Notes |-> NoNote]
  /\ created = {}
  /\ changes = <<>>
  /\ writing = NotWriting
  /\ named = [version |-> version, contents |-> Contents]

(* A state in which the API process answers readers.                       *)
Read == named' = [version |-> version', contents |-> Contents']

(* _expect_version, and the checks made before the first write.            *)
Begin(operation) ==
  /\ writing.kind = "none"
  /\ ~archived
  /\ version < MaxVersion
  /\ writing' = operation
  /\ UNCHANGED <<archived, version, base, card, notes, created, changes, named>>

CommitBegins(turn) ==
  /\ CanApplyAll(card, turn.card)
  /\ Valid(Course(card, turn.card)[Len(turn.card)])
  /\ NotesApply(turn.notes)
  /\ Begin([kind |-> "commit", turn |-> turn, version |-> version])

(* Mutant: the version is not written.                                     *)
CommitEndsUnnumbered ==
  LET turn == writing.turn IN
  /\ writing.kind = "commit"
  /\ card' = Course(card, turn.card)[Len(turn.card)]
  /\ notes' = NoteCourse(notes, turn.notes)[Len(turn.notes)]
  /\ created' = created \cup DOMAIN TouchedNotes(turn.notes)
  /\ changes' = Append(changes, Change(Touched(card, turn.card), TouchedNotes(turn.notes)))
  /\ writing' = NotWriting
  /\ UNCHANGED <<archived, version, base>>
  /\ Read

(* commit_turn_updates: card, notes, version and log in one transaction.   *)
(* The version written is computed from the one that was read.             *)
CommitEnds ==
  LET turn == writing.turn IN
  /\ writing.kind = "commit"
  /\ card' = Course(card, turn.card)[Len(turn.card)]
  /\ notes' = NoteCourse(notes, turn.notes)[Len(turn.notes)]
  /\ created' = created \cup DOMAIN TouchedNotes(turn.notes)
  /\ changes' = Append(changes, Change(Touched(card, turn.card), TouchedNotes(turn.notes)))
  /\ version' = writing.version + 1
  /\ writing' = NotWriting
  /\ UNCHANGED <<archived, base>>
  /\ Read

UndoBegins(i) ==
  /\ ~changes[i].undone
  /\ Conflicts(i) = {}
  /\ CanRestore(card, changes[i].card)
  /\ Valid(Restored(card, changes[i].card))
  /\ Begin([kind |-> "undo", change |-> i, version |-> version])

(* undo_change.                                                            *)
UndoEnds ==
  LET ch == changes[writing.change] IN
  /\ writing.kind = "undo"
  /\ card' = Restored(card, ch.card)
  /\ notes' = [n \in Notes |-> IF n \in DOMAIN ch.notes THEN ch.notes[n] ELSE notes[n]]
  /\ changes' = Append([changes EXCEPT ![writing.change].undone = TRUE],
                       Change(Remembered(card, ch.card),
                              [n \in DOMAIN ch.notes |-> notes[n]]))
  /\ version' = writing.version + 1
  /\ writing' = NotWriting
  /\ UNCHANGED <<archived, base, created>>
  /\ Read

ReplaceBegins(sheet, policy) ==
  Begin([kind |-> "replace", sheet |-> sheet, policy |-> policy])

(* preserve_runtime_overlay: what was changed since the last upload is     *)
(* kept where the new sheet has a place for it.                            *)
Overlaid(sheet) ==
  [str |-> IF base.str # card.str /\ sheet.str # Gone THEN card.str ELSE sheet.str,
   items |-> IF base.items # card.items /\ sheet.items # Absent THEN card.items
             ELSE sheet.items]

(* replace_character.  The version is incremented where it stands.         *)
ReplaceEnds ==
  LET keep == writing.policy = "preserve" IN
  /\ writing.kind = "replace"
  /\ base' = writing.sheet
  /\ card' = IF keep THEN Overlaid(writing.sheet) ELSE writing.sheet
  /\ notes' = IF keep THEN notes ELSE [n \in Notes |-> NoNote]
  /\ changes' = IF keep THEN changes ELSE <<>>
  /\ version' = version + 1
  /\ writing' = NotWriting
  /\ UNCHANGED <<archived, created>>
  /\ Read

(* A membership event in the collector, or the page of the API when it is  *)
(* not in the middle of something, archives or restores the group.         *)
Archives ==
  /\ version < MaxVersion
  /\ archived' \in BOOLEAN
  /\ version' = version + 1
  /\ UNCHANGED <<base, card, notes, created, changes, writing>>
  /\ IF writing.kind = "none" THEN Read ELSE UNCHANGED named

(* The API process dies before its transaction commits.                    *)
Crash ==
  /\ writing.kind # "none"
  /\ writing' = NotWriting
  /\ UNCHANGED <<archived, version, base, card, notes, created, changes>>
  /\ Read

Next ==
  \/ \E turn \in Turns : CommitBegins(turn)
  \/ CommitEnds
  \/ \E i \in 1 .. Len(changes) : UndoBegins(i)
  \/ UndoEnds
  \/ \E sheet \in Sheets, policy \in {"preserve", "reset"} : ReplaceBegins(sheet, policy)
  \/ ReplaceEnds
  \/ Archives
  \/ Crash

Spec == Init /\ [][Next]_vars

-----------------------------------------------------------------------------
(* Properties                                                              *)

(* The records keep their shape: an attribute stays within its range       *)
(* whatever is committed, undone or carried over to another sheet.         *)
TypeOK ==
  /\ archived \in BOOLEAN
  /\ version \in Nat
  /\ base \in Cards
  /\ card \in Cards
  /\ notes \in [Notes -> NoteStates]
  /\ created \in SUBSET Notes
  /\ writing.kind \in {"none", "commit", "undo", "replace"}

(* expected_version protects every writer against every other: between two *)
(* readings of one version nobody changed the card or the notes, and what  *)
(* is read never goes back, although versions are also counted by the      *)
(* collector, which waits for no writer and may be counted over.           *)
VersionNamesOneContent ==
  [][ /\ named'.version >= named.version
      /\ named'.version = named.version => named' = named ]_named

Places(ch) == {Place(path) : path \in Paths(ch)}

(* Later changes that touched a part of what change i touched, by whatever *)
(* path.                                                                   *)
Overlapping(i) ==
  {j \in i + 1 .. Len(changes) :
     /\ ~changes[j].undone
     /\ \/ Places(changes[j]) \cap Places(changes[i]) # {}
        \/ DOMAIN changes[j].notes \cap DOMAIN changes[i].notes # {}}

(* A later change that is still in force wrote a part of what change i     *)
(* wrote, under another name.                                              *)
Aliased(i) ==
  \E j \in i + 1 .. Len(changes) :
    /\ ~changes[j].undone
    /\ \E p \in Paths(changes[i]), q \in Paths(changes[j]) :
         p # q /\ Place(p) = Place(q)

(* Undoing sets a removed list element over its successor, and a part      *)
(* before its whole.                                                       *)
Plain(ch) ==
  /\ "/inventory/0" \notin Paths(ch)
  /\ Cardinality(Places(ch)) = Cardinality(Paths(ch))

(* Undoing gives back exactly what the change found, several operations    *)
(* and notes at once, and touches nothing else; also when the change is    *)
(* itself an undo, others in between were undone, or another sheet was     *)
(* uploaded.  No later change is lost to it but under another name.        *)
UndoRestores ==
  [][ writing.kind = "undo" /\ UndoEnds
        => LET ch == changes[writing.change] IN
           /\ Overlapping(writing.change) # {} => Aliased(writing.change)
           /\ Plain(ch) =>
             /\ card'.str = IF "str" \in Places(ch) THEN ch.was.card.str ELSE card.str
             /\ card'.items = IF "items" \in Places(ch) THEN ch.was.card.items
                              ELSE card.items
             /\ \A n \in Notes :
                  notes'[n] = IF n \in DOMAIN ch.notes THEN ch.was.notes[n]
                              ELSE notes[n] ]_vars

(* docs/architecture.md: if a later change touched the same field or note, *)
(* the undo refuses to overwrite it.                                       *)
(* The code does not keep it (README, section 7), so no run requires it.   *)
UndoSparesLater ==
  [][ writing.kind = "undo" /\ UndoEnds => Overlapping(writing.change) = {} ]_vars
=============================================================================
