---------------------------- MODULE CardReplace -----------------------------
(***************************************************************************)
(* Replacing the character card of one group through one-time links: a     *)
(* file is uploaded and staged, a page shows what the parser made of it,   *)
(* and confirming the page installs it, as a file beside the database and  *)
(* as a row in it.                                                         *)
(*                                                                         *)
(* The requests are served by the API process, which leaves them only      *)
(* while it waits for their forms.  From then on a request runs alone      *)
(* (`serving`); but the process may die between two of its steps, and the  *)
(* collector may archive the group.  What installing a card does to the    *)
(* campaign records is in Campaign, the group's row in GroupAccess.        *)
(***************************************************************************)
CONSTANTS
  Links,      (* the upload links handed out for the group                 *)
  Requests,   (* the requests that may be served at one time               *)
  Sheets,     (* the files the parser accepts                              *)
  Unfit,      (* of them, those with an attribute or a skill out of range: *)
              (* the parser has no ranges, _validate_card has              *)
  Broken      (* a file it does not accept                                 *)

Files == Sheets \cup {Broken}

Nothing == "nothing"

ASSUME CardReplaceAssumption ==
  /\ Broken \notin Sheets
  /\ Unfit \subseteq Sheets
  /\ Nothing \notin Files \cup Requests

VARIABLES
  group,      (* "open", "archived" or "removed" from the whitelist        *)
  spent,      (* links consumed, revoked or expired                        *)
  staged,     (* staging/<digest of the link>.xlsx                         *)
  payload,    (* the parsed card and digest stored with the link           *)
  file,       (* current/<group>.xlsx                                      *)
  row,        (* characters: the base card and the digest of its file      *)
  previews,   (* the confirmation pages in a browser: link and sheet shown *)
  request,    (* the requests                                              *)
  serving,    (* the request the API process is in the middle of           *)
  torn,       (* history: a replacement stopped between file and row: it   *)
              (* was refused there, or the process died                    *)
  fresh       (* history: the staged file was not installed yet            *)

vars == <<group, spent, staged, payload, file, row, previews, request, serving, torn, fresh>>

NoRequest == [step |-> "none"]

Init ==
  /\ group = "open"
  /\ spent = {}
  /\ staged = [l \in Links |-> Nothing]
  /\ payload = [l \in Links |-> Nothing]
  /\ file = Nothing
  /\ row = Nothing
  /\ previews = {}
  /\ request = [r \in Requests |-> NoRequest]
  /\ serving = Nothing
  /\ torn = FALSE
  /\ fresh = [l \in Links |-> FALSE]

-----------------------------------------------------------------------------
(* Requests                                                                *)

(* capability: the link is neither consumed nor expired, and its group is  *)
(* still whitelisted.                                                      *)
Valid(l) == l \notin spent /\ group # "removed"

(* The request is over, with an error page or another.                     *)
Answers(r) ==
  /\ request' = [request EXCEPT ![r] = NoRequest]
  /\ serving' = Nothing

MayServe(r, step) == serving = Nothing /\ request[r].step = step

Proceeds(r, step) ==
  /\ request' = [request EXCEPT ![r].step = step]
  /\ serving' = r

(* upload_card up to the wait for the form and the file in it.             *)
UploadOpens(r, l, f) ==
  /\ MayServe(r, "none")
  /\ Valid(l)
  /\ group = "open"
  /\ request' = [request EXCEPT ![r] = [step |-> "upload", link |-> l, file |-> f]]
  /\ UNCHANGED <<group, spent, staged, payload, file, row, previews, serving, torn, fresh>>

(* stage: the file is copied over the one staged before, then parsed.      *)
Stages(r) ==
  LET l == request[r].link
      f == request[r].file
  IN
  /\ MayServe(r, "upload")
  /\ staged' = [staged EXCEPT ![l] = f]
  /\ fresh' = [fresh EXCEPT ![l] = TRUE]
  /\ IF f \in Sheets THEN Proceeds(r, "staged") ELSE Answers(r)
  /\ UNCHANGED <<group, spent, payload, file, row, previews, torn>>

(* set_capability_payload, which looks at the link again, and the preview. *)
Previews(r) ==
  LET l == request[r].link
      f == request[r].file
  IN
  /\ serving = r
  /\ request[r].step = "staged"
  /\ IF Valid(l)
       THEN /\ payload' = [payload EXCEPT ![l] = f]
            /\ previews' = previews \cup {[link |-> l, sheet |-> f]}
       ELSE UNCHANGED <<payload, previews>>
  /\ Answers(r)
  /\ UNCHANGED <<group, spent, staged, file, row, torn, fresh>>

(* confirm_card up to the wait for the form: the payload is read before.   *)
ConfirmOpens(r, p) ==
  /\ MayServe(r, "none")
  /\ Valid(p.link)
  /\ group = "open"
  /\ staged[p.link] # Nothing
  /\ request' = [request EXCEPT ![r] =
                   [step |-> "confirm", link |-> p.link, shown |-> p.sheet,
                    parsed |-> payload[p.link]]]
  /\ UNCHANGED <<group, spent, staged, payload, file, row, previews, serving, torn, fresh>>

(* Mutant: whatever is staged is installed.                                *)
UncheckedStaged(l, parsed) == staged[l] # Nothing

(* finalize compares the digest of the staged file, which must be there.   *)
StagedUnchanged(l, parsed) == staged[l] # Nothing /\ staged[l] = parsed

(* finalize: the staged file replaces the current one ...                  *)
FileReplaced(r) ==
  LET l == request[r].link IN
  /\ MayServe(r, "confirm")
  /\ IF StagedUnchanged(l, request[r].parsed)
       THEN file' = staged[l] /\ Proceeds(r, "replaced")
       ELSE UNCHANGED file /\ Answers(r)
  /\ UNCHANGED <<group, spent, staged, payload, row, previews, torn, fresh>>

(* ... replace_character validates the sheet (what is preserved of the old *)
(* card was valid and leaves it so) and looks whether the group may be     *)
(* written ...                                                             *)
RowChecked(r) ==
  /\ serving = r
  /\ request[r].step = "replaced"
  /\ IF request[r].parsed \notin Unfit /\ group = "open"
       THEN Proceeds(r, "checked") /\ UNCHANGED torn
       ELSE Answers(r) /\ torn' = (torn \/ file # row)
  /\ UNCHANGED <<group, spent, staged, payload, file, row, previews, fresh>>

(* ... and writes the row ...                                              *)
RowWritten(r) ==
  /\ serving = r
  /\ request[r].step = "checked"
  /\ row' = request[r].parsed
  /\ torn' = FALSE
  /\ fresh' = [fresh EXCEPT ![request[r].link] = FALSE]
  /\ Proceeds(r, "written")
  /\ UNCHANGED <<group, spent, staged, payload, file, previews>>

(* Mutant: the staged file is left where it is.                            *)
ConsumedKeepingFile(r) ==
  /\ serving = r
  /\ request[r].step = "written"
  /\ spent' = spent \cup {request[r].link}
  /\ Answers(r)
  /\ UNCHANGED <<group, staged, payload, file, row, previews, torn, fresh>>

(* ... removes the staged file and consumes the link.                      *)
Consumed(r) ==
  /\ serving = r
  /\ request[r].step = "written"
  /\ staged' = [staged EXCEPT ![request[r].link] = Nothing]
  /\ spent' = spent \cup {request[r].link}
  /\ Answers(r)
  /\ UNCHANGED <<group, payload, file, row, previews, torn, fresh>>

-----------------------------------------------------------------------------
(* The rest of the world                                                   *)

(* The collector archives or reopens the group at any moment.              *)
CollectorArchives ==
  /\ group # "removed"
  /\ group' \in {"open", "archived"}
  /\ UNCHANGED <<spent, staged, payload, file, row, previews, request, serving, torn, fresh>>

(* The administrator's pages do so when the process serves no one else;    *)
(* removing the group consumes its links, and adding it again opens it.    *)
GroupRemoved ==
  /\ serving = Nothing
  /\ group # "removed"
  /\ group' = "removed"
  /\ spent' = Links
  /\ UNCHANGED <<staged, payload, file, row, previews, request, serving, torn, fresh>>

GroupAdded ==
  /\ serving = Nothing
  /\ group' = "open"
  /\ UNCHANGED <<spent, staged, payload, file, row, previews, request, serving, torn, fresh>>

LinkExpires(l) ==
  /\ spent' = spent \cup {l}
  /\ UNCHANGED <<group, staged, payload, file, row, previews, request, serving, torn, fresh>>

(* The API process dies.  After the row was written the file is still      *)
(* staged and the link still good: confirming again is a retry.            *)
Crash ==
  /\ \E r \in Requests : request[r] # NoRequest
  /\ request' = [r \in Requests |-> NoRequest]
  /\ serving' = Nothing
  /\ torn' = (torn \/ file # row)
  /\ fresh' = IF serving # Nothing
                THEN [fresh EXCEPT ![request[serving].link] = @ \/ request[serving].step = "written"]
                ELSE fresh
  /\ UNCHANGED <<group, spent, staged, payload, file, row, previews>>

Request(r) ==
  \/ \E l \in Links, f \in Files : UploadOpens(r, l, f)
  \/ Stages(r)
  \/ Previews(r)
  \/ \E p \in previews : ConfirmOpens(r, p)
  \/ FileReplaced(r)
  \/ RowChecked(r)
  \/ RowWritten(r)
  \/ Consumed(r)

Next ==
  \/ \E r \in Requests : Request(r)
  \/ CollectorArchives \/ GroupRemoved \/ GroupAdded
  \/ \E l \in Links : LinkExpires(l)
  \/ Crash

Spec == Init /\ [][Next]_vars

-----------------------------------------------------------------------------
(* Properties                                                              *)

Steps == {"none", "upload", "staged", "confirm", "replaced", "checked", "written"}

(* A request runs beyond its wait only while it is served, what is         *)
(* installed was parsed, and a row is one that was found valid.            *)
TypeOK ==
  /\ group \in {"open", "archived", "removed"}
  /\ spent \subseteq Links
  /\ staged \in [Links -> Files \cup {Nothing}]
  /\ payload \in [Links -> Sheets \cup {Nothing}]
  /\ file \in Sheets \cup {Nothing}
  /\ row \in (Sheets \ Unfit) \cup {Nothing}
  /\ previews \subseteq [link : Links, sheet : Sheets]
  /\ serving \in Requests \cup {Nothing}
  /\ \A r \in Requests :
       /\ request[r].step \in Steps
       /\ serving = r <=> request[r].step \in {"staged", "replaced", "checked", "written"}
  /\ torn \in BOOLEAN
  /\ fresh \in [Links -> BOOLEAN]

Replacing == \E r \in Requests : request[r].step \in {"replaced", "checked"}

(* The file beside the database is the one the row names, however uploads, *)
(* confirmations and broken files of several pages and links interleave;   *)
(* unless, after the file was replaced and before the row was, the sheet   *)
(* turned out not to be valid, the group had been archived or removed, or  *)
(* the process died.  The next replacement that gets through sets it right.*)
FileMatchesRow == file = row \/ torn \/ Replacing

(* One uploaded file is installed once, however often its page is          *)
(* confirmed and whatever other page is confirmed at the same time: a      *)
(* second installation with the policy reset would delete the notes made   *)
(* since the first.                                                        *)
UploadInstallsOnce ==
  [][ \A r \in Requests : RowWritten(r) => fresh[request[r].link] ]_vars

(* cards.py: a sheet that changed after it was previewed is not installed. *)
(* The code does not keep it (README, section 7), so no run requires it.   *)
ConfirmedIsPreviewed ==
  [][ \A r \in Requests : RowWritten(r) => row' = request[r].shown ]_vars
=============================================================================
