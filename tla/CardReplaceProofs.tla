------------------------- MODULE CardReplaceProofs --------------------------
(***************************************************************************)
(* For any number of links, requests and sheets: the types, that the       *)
(* stored file is the one the row names but for a replacement that was     *)
(* stopped half way, and that an upload is installed once.                 *)
(***************************************************************************)
EXTENDS CardReplace, TLAPS

-----------------------------------------------------------------------------
(* The inductive invariant                                                 *)

Uploading == [step : {"upload"}, link : Links, file : Files]
Staged == [step : {"staged"}, link : Links, file : Sheets]
Confirming ==
  [step : {"confirm"}, link : Links, shown : Sheets, parsed : Sheets \cup {Nothing}]
Installing ==
  [step : {"replaced", "checked", "written"}, link : Links, shown : Sheets, parsed : Sheets]

RequestType == {NoRequest} \cup Uploading \cup Staged \cup Confirming \cup Installing

Served == {"staged", "replaced", "checked", "written"}

Types ==
  /\ group \in {"open", "archived", "removed"}
  /\ spent \subseteq Links
  /\ staged \in [Links -> Files \cup {Nothing}]
  /\ payload \in [Links -> Sheets \cup {Nothing}]
  /\ file \in Sheets \cup {Nothing}
  /\ row \in (Sheets \ Unfit) \cup {Nothing}
  /\ previews \subseteq [link : Links, sheet : Sheets]
  /\ request \in [Requests -> RequestType]
  /\ serving \in Requests \cup {Nothing}
  /\ torn \in BOOLEAN
  /\ fresh \in [Links -> BOOLEAN]

(* A request is beyond its wait exactly while it is the one being served.  *)
OneServed == \A r \in Requests : serving = r <=> request[r].step \in Served

(* What a replacement has stored is what it will write into the row, once  *)
(* it was found valid.                                                     *)
StoredIsParsed ==
  \A r \in Requests : request[r].step \in {"replaced", "checked"} =>
    /\ file = request[r].parsed
    /\ fresh[request[r].link]
    /\ request[r].step = "checked" => request[r].parsed \notin Unfit

(* A staged file that was installed is about to be removed.                *)
StagedIsFresh ==
  \A l \in Links : staged[l] # Nothing =>
    \/ fresh[l]
    \/ \E r \in Requests : request[r].step = "written" /\ request[r].link = l

IInv == Types /\ OneServed /\ StoredIsParsed /\ StagedIsFresh /\ FileMatchesRow

(* The shapes of requests by the step they are in.                         *)
LEMMA RequestShapes ==
  ASSUME NEW q \in RequestType
  PROVE  /\ q.step \in Steps
         /\ q.step = "none" => q = NoRequest
         /\ q.step = "upload" => q \in Uploading
         /\ q.step = "staged" => q \in Staged
         /\ q.step = "confirm" => q \in Confirming
         /\ q.step \in {"replaced", "checked", "written"} => q \in Installing
  BY DEF RequestType, NoRequest, Uploading, Staged, Confirming, Installing, Steps

(* The initial state.                                                      *)
LEMMA InitSatisfies == Init => IInv
<1> SUFFICES ASSUME Init PROVE IInv
  OBVIOUS
<1>1. NoRequest \in RequestType /\ NoRequest.step = "none"
  BY DEF RequestType, NoRequest
<1>2. Types
  BY <1>1 DEF Init, Types
<1>3. OneServed /\ StoredIsParsed
  BY <1>1, CardReplaceAssumption DEF Init, OneServed, StoredIsParsed, Served
<1>4. StagedIsFresh /\ FileMatchesRow
  BY DEF Init, StagedIsFresh, FileMatchesRow
<1> QED
  BY <1>2, <1>3, <1>4 DEF IInv

-----------------------------------------------------------------------------
(* Steps                                                                   *)

(* While no request is served none is beyond its wait, and a request that  *)
(* is served is the only one.                                              *)
LEMMA ServingAlone ==
  ASSUME IInv
  PROVE  /\ serving = Nothing => \A r \in Requests : request[r].step \notin Served
         /\ \A r \in Requests : serving = r =>
              \A q \in Requests \ {r} : request[q].step \notin Served
  BY CardReplaceAssumption DEF IInv, OneServed

(* A request takes a step: it alone is another.                            *)
LEMMA RequestSteps ==
  ASSUME IInv, NEW r \in Requests, NEW q \in RequestType,
         request' = [request EXCEPT ![r] = q]
  PROVE  /\ request' \in [Requests -> RequestType]
         /\ request'[r] = q
         /\ \A other \in Requests \ {r} : request'[other] = request[other]
  BY DEF IInv, Types

(* The steps of a request that is served, as records.                      *)
LEMMA ServedSteps ==
  ASSUME IInv, NEW r \in Requests, NEW step,
         request' = [request EXCEPT ![r].step = step]
  PROVE  /\ request' = [request EXCEPT ![r] = [request[r] EXCEPT !.step = step]]
         /\ request[r] \in Uploading /\ request[r].file \in Sheets /\ step = "staged" =>
              [request[r] EXCEPT !.step = step] \in Staged
         /\ request[r] \in Confirming /\ request[r].parsed \in Sheets /\ step = "replaced" =>
              [request[r] EXCEPT !.step = step] \in Installing
         /\ request[r] \in Installing /\ step \in {"checked", "written"} =>
              [request[r] EXCEPT !.step = step] \in Installing
  BY DEF IInv, Types, Uploading, Staged, Confirming, Installing

(* A request that is answered while it is served, or before it could be,   *)
(* leaves none beyond its wait.                                            *)
LEMMA AnswersServes ==
  ASSUME IInv, NEW r \in Requests, Answers(r), serving \in {r, Nothing}
  PROVE  /\ request' \in [Requests -> RequestType]
         /\ OneServed'
         /\ \A q \in Requests : request'[q].step \notin Served
<1>1. NoRequest \in RequestType /\ NoRequest.step \notin Served
  BY DEF RequestType, NoRequest, Served
<1>2. /\ request' \in [Requests -> RequestType]
      /\ request'[r] = NoRequest
      /\ \A q \in Requests \ {r} : request'[q] = request[q]
  BY <1>1, RequestSteps DEF Answers
<1>3. \A q \in Requests : request'[q].step \notin Served
  BY <1>1, <1>2, ServingAlone
<1> QED
  BY <1>2, <1>3, CardReplaceAssumption DEF OneServed, Answers

(* A request that proceeds is served, and alone.                           *)
LEMMA ProceedsServes ==
  ASSUME IInv, NEW r \in Requests, NEW step \in Served, Proceeds(r, step),
         serving \in {r, Nothing},
         [request[r] EXCEPT !.step = step] \in RequestType
  PROVE  /\ request' \in [Requests -> RequestType]
         /\ request'[r] = [request[r] EXCEPT !.step = step]
         /\ \A q \in Requests \ {r} : request'[q] = request[q]
         /\ request'[r].step = step
         /\ OneServed'
<1>2. request' = [request EXCEPT ![r] = [request[r] EXCEPT !.step = step]]
  BY ServedSteps DEF Proceeds
<1>3. /\ request' \in [Requests -> RequestType]
      /\ request'[r] = [request[r] EXCEPT !.step = step]
      /\ \A q \in Requests \ {r} : request'[q] = request[q]
  BY <1>2, RequestSteps
<1>4. request[r] \in RequestType
  BY DEF IInv, Types
<1>5. request'[r].step = step
  BY <1>3, <1>4 DEF RequestType, NoRequest, Uploading, Staged, Confirming, Installing
<1>6. \A q \in Requests \ {r} : request'[q].step \notin Served
  BY <1>3, ServingAlone
<1> QED
  BY <1>3, <1>5, <1>6 DEF OneServed, Proceeds

(* An upload is opened.                                                    *)
LEMMA UploadKeeps ==
  ASSUME IInv, NEW r \in Requests, NEW l \in Links, NEW f \in Files,
         UploadOpens(r, l, f)
  PROVE  IInv'
<1> DEFINE opened == [step |-> "upload", link |-> l, file |-> f]
<1>1. opened \in RequestType /\ opened.step = "upload"
  BY DEF RequestType, Uploading
<1>2. /\ request' \in [Requests -> RequestType]
      /\ request'[r] = opened
      /\ \A q \in Requests \ {r} : request'[q] = request[q]
  <2> HIDE DEF opened
  <2> QED
    BY <1>1, RequestSteps DEF UploadOpens, opened
<1>3. request[r].step = "none"
  BY DEF UploadOpens, MayServe
<1> HIDE DEF opened
<1>4. Types'
  BY <1>2 DEF UploadOpens, IInv, Types
<1>5. OneServed'
  BY <1>1, <1>2, <1>3 DEF UploadOpens, IInv, OneServed, Served
<1>6. StoredIsParsed'
  BY <1>1, <1>2 DEF UploadOpens, IInv, StoredIsParsed
<1>7. StagedIsFresh'
  BY <1>1, <1>2, <1>3 DEF UploadOpens, IInv, StagedIsFresh
<1>8. FileMatchesRow'
  BY <1>1, <1>2, <1>3 DEF UploadOpens, IInv, FileMatchesRow, Replacing
<1> QED
  BY <1>4, <1>5, <1>6, <1>7, <1>8 DEF IInv

(* The file is staged, and freshly so; or it cannot be read.               *)
LEMMA StagesKeeps ==
  ASSUME IInv, NEW r \in Requests, Stages(r)
  PROVE  IInv'
<1> DEFINE l == request[r].link
           f == request[r].file
<1>1. request[r] \in Uploading /\ l \in Links /\ f \in Files
  <2>1. request[r] \in RequestType /\ request[r].step = "upload"
    BY DEF Stages, MayServe, IInv, Types
  <2> QED
    BY <2>1, RequestShapes DEF Uploading
<1>2. serving = Nothing /\ \A q \in Requests : request[q].step \notin Served
  BY ServingAlone DEF Stages, MayServe
<1>3. /\ request' \in [Requests -> RequestType]
      /\ OneServed'
      /\ \A q \in Requests : request'[q].step \notin {"replaced", "checked", "written"}
  <2>1. CASE f \in Sheets
    <3>1. [request[r] EXCEPT !.step = "staged"] \in Staged
      BY <1>1, <2>1 DEF Uploading, Staged
    <3>2. Proceeds(r, "staged") /\ "staged" \in Served
      BY <2>1 DEF Stages, Served
    <3> QED
      BY <1>2, <3>1, <3>2, ProceedsServes DEF RequestType, Served
  <2>2. CASE f \notin Sheets
    BY <1>2, <2>2, AnswersServes DEF Stages, Served
  <2> QED
    BY <2>1, <2>2
<1>4. serving' \in Requests \cup {Nothing}
  BY DEF Stages, Proceeds, Answers
<1>5. Types'
  BY <1>1, <1>3, <1>4 DEF Stages, IInv, Types
<1>6. StoredIsParsed'
  BY <1>3 DEF StoredIsParsed
<1>7. StagedIsFresh'
  <2> SUFFICES ASSUME NEW k \in Links, staged'[k] # Nothing PROVE fresh'[k]
    BY DEF StagedIsFresh
  <2> QED
    BY <1>1, <1>2 DEF Stages, IInv, Types, StagedIsFresh, Served
<1>8. FileMatchesRow'
  BY <1>2 DEF Stages, IInv, FileMatchesRow, Replacing, Served
<1> QED
  BY <1>3, <1>5, <1>6, <1>7, <1>8 DEF IInv

(* The preview is shown.                                                   *)
LEMMA PreviewsKeeps ==
  ASSUME IInv, NEW r \in Requests, Previews(r)
  PROVE  IInv'
<1>1. request[r] \in Staged
  BY RequestShapes DEF Previews, IInv, Types
<1>2. request[r].link \in Links /\ request[r].file \in Sheets /\ request[r].step = "staged"
  BY <1>1 DEF Staged
<1>3. /\ request' \in [Requests -> RequestType]
      /\ OneServed'
      /\ \A q \in Requests : request'[q].step \notin Served
  BY AnswersServes DEF Previews
<1>4. serving' = Nothing
  BY DEF Previews, Answers
<1>5. Types'
  BY <1>2, <1>3, <1>4 DEF Previews, IInv, Types
<1>6. StoredIsParsed'
  BY <1>3 DEF StoredIsParsed, Served
<1>7. \A q \in Requests : request[q].step \notin {"replaced", "checked", "written"}
  BY <1>2, ServingAlone DEF Previews, Served
<1>8. StagedIsFresh'
  BY <1>7 DEF Previews, IInv, StagedIsFresh
<1>9. FileMatchesRow'
  BY <1>7 DEF Previews, IInv, FileMatchesRow, Replacing
<1> QED
  BY <1>3, <1>5, <1>6, <1>8, <1>9 DEF IInv

(* A confirmation is opened.                                               *)
LEMMA ConfirmKeeps ==
  ASSUME IInv, NEW r \in Requests, NEW p \in previews, ConfirmOpens(r, p)
  PROVE  IInv'
<1> DEFINE opened == [step |-> "confirm", link |-> p.link, shown |-> p.sheet,
                      parsed |-> payload[p.link]]
<1>1. opened \in RequestType /\ opened.step = "confirm"
  BY DEF RequestType, Confirming, IInv, Types
<1>2. /\ request' \in [Requests -> RequestType]
      /\ request'[r] = opened
      /\ \A q \in Requests \ {r} : request'[q] = request[q]
  <2> HIDE DEF opened
  <2> QED
    BY <1>1, RequestSteps DEF ConfirmOpens, opened
<1>3. request[r].step = "none"
  BY DEF ConfirmOpens, MayServe
<1> HIDE DEF opened
<1>4. Types'
  BY <1>2 DEF ConfirmOpens, IInv, Types
<1>5. OneServed'
  BY <1>1, <1>2, <1>3 DEF ConfirmOpens, IInv, OneServed, Served
<1>6. StoredIsParsed'
  BY <1>1, <1>2 DEF ConfirmOpens, IInv, StoredIsParsed
<1>7. StagedIsFresh'
  BY <1>1, <1>2, <1>3 DEF ConfirmOpens, IInv, StagedIsFresh
<1>8. FileMatchesRow'
  BY <1>1, <1>2, <1>3 DEF ConfirmOpens, IInv, FileMatchesRow, Replacing
<1> QED
  BY <1>4, <1>5, <1>6, <1>7, <1>8 DEF IInv

(* The staged file is stored: it is the one parsed, and was not installed, *)
(* since a file that was installed stays staged only while it is removed.  *)
LEMMA FileKeeps ==
  ASSUME IInv, NEW r \in Requests, FileReplaced(r)
  PROVE  IInv'
<1> DEFINE l == request[r].link
<1>1. request[r] \in Confirming /\ l \in Links /\ request[r].parsed \in Sheets \cup {Nothing}
  <2>1. request[r] \in RequestType /\ request[r].step = "confirm"
    BY DEF FileReplaced, MayServe, IInv, Types
  <2> QED
    BY <2>1, RequestShapes DEF Confirming
<1>2. serving = Nothing /\ \A q \in Requests : request[q].step \notin Served
  BY ServingAlone DEF FileReplaced, MayServe
<1>3. \A k \in Links : staged[k] # Nothing => fresh[k]
  BY <1>2 DEF IInv, StagedIsFresh, Served
<1>4. StagedIsFresh'
  BY <1>3 DEF FileReplaced, StagedIsFresh
<1>5. CASE StagedUnchanged(l, request[r].parsed)
  <2>1. request[r].parsed \in Sheets /\ file' = request[r].parsed /\ fresh[l]
    BY <1>1, <1>3, <1>5 DEF FileReplaced, StagedUnchanged
  <2>2. [request[r] EXCEPT !.step = "replaced"] \in Installing
    BY <1>1, <2>1 DEF Confirming, Installing
  <2>3. Proceeds(r, "replaced") /\ "replaced" \in Served
    BY <1>5 DEF FileReplaced, Served
  <2>4. /\ request' \in [Requests -> RequestType]
        /\ request'[r] = [request[r] EXCEPT !.step = "replaced"]
        /\ \A q \in Requests \ {r} : request'[q] = request[q]
        /\ request'[r].step = "replaced"
        /\ OneServed'
    BY <1>2, <2>2, <2>3, ProceedsServes DEF RequestType
  <2>5. request'[r].parsed = request[r].parsed /\ request'[r].link = l
    BY <1>1, <2>4 DEF Confirming
  <2>6. Types'
    BY <2>1, <2>3, <2>4 DEF FileReplaced, Proceeds, IInv, Types
  <2>7. StoredIsParsed'
    BY <1>2, <2>1, <2>4, <2>5 DEF FileReplaced, StoredIsParsed, Served
  <2>8. FileMatchesRow'
    BY <2>4 DEF FileMatchesRow, Replacing
  <2> QED
    BY <1>4, <2>4, <2>6, <2>7, <2>8 DEF IInv
<1>6. CASE ~StagedUnchanged(l, request[r].parsed)
  <2>1. Answers(r) /\ file' = file
    BY <1>6 DEF FileReplaced
  <2>2. /\ request' \in [Requests -> RequestType]
        /\ OneServed'
        /\ \A q \in Requests : request'[q].step \notin Served
    BY <1>2, <2>1, AnswersServes
  <2>3. Types'
    BY <2>1, <2>2 DEF FileReplaced, Answers, IInv, Types
  <2>4. StoredIsParsed'
    BY <2>2 DEF StoredIsParsed, Served
  <2>5. FileMatchesRow'
    BY <1>2, <2>1 DEF FileReplaced, IInv, FileMatchesRow, Replacing, Served
  <2> QED
    BY <1>4, <2>2, <2>3, <2>4, <2>5 DEF IInv
<1> QED
  BY <1>5, <1>6

(* The row may be written, or the replacement stops here.                  *)
LEMMA RowCheckKeeps ==
  ASSUME IInv, NEW r \in Requests, RowChecked(r)
  PROVE  IInv'
<1>1. request[r] \in Installing /\ request[r].link \in Links /\ request[r].step = "replaced"
  <2>1. request[r] \in RequestType /\ request[r].step = "replaced"
    BY DEF RowChecked, IInv, Types
  <2> QED
    BY <2>1, RequestShapes DEF Installing
<1>2. \A q \in Requests : request[q].step # "written"
  BY <1>1, ServingAlone DEF RowChecked, Served
<1>3. StagedIsFresh'
  BY <1>2 DEF RowChecked, IInv, StagedIsFresh
<1>4. CASE request[r].parsed \notin Unfit /\ group = "open"
  <2>1. Proceeds(r, "checked") /\ "checked" \in Served /\ UNCHANGED torn
    BY <1>4 DEF RowChecked, Served
  <2>2. [request[r] EXCEPT !.step = "checked"] \in Installing
    BY <1>1 DEF Installing
  <2>3. /\ request' \in [Requests -> RequestType]
        /\ request'[r] = [request[r] EXCEPT !.step = "checked"]
        /\ \A q \in Requests \ {r} : request'[q] = request[q]
        /\ request'[r].step = "checked"
        /\ OneServed'
    BY <2>1, <2>2, ProceedsServes DEF RowChecked, RequestType
  <2>4. request'[r].parsed = request[r].parsed /\ request'[r].link = request[r].link
    BY <1>1, <2>3 DEF Installing
  <2>5. Types'
    BY <2>1, <2>3 DEF RowChecked, Proceeds, IInv, Types
  <2>6. StoredIsParsed'
    BY <1>1, <1>4, <2>3, <2>4 DEF RowChecked, IInv, StoredIsParsed
  <2>7. FileMatchesRow'
    BY <2>3 DEF FileMatchesRow, Replacing
  <2> QED
    BY <1>3, <2>3, <2>5, <2>6, <2>7 DEF IInv
<1>5. CASE ~(request[r].parsed \notin Unfit /\ group = "open")
  <2>1. Answers(r) /\ torn' = (torn \/ file # row)
    BY <1>5 DEF RowChecked
  <2>2. /\ request' \in [Requests -> RequestType]
        /\ OneServed'
        /\ \A q \in Requests : request'[q].step \notin Served
    BY <2>1, AnswersServes DEF RowChecked
  <2>3. Types'
    BY <2>1, <2>2 DEF RowChecked, Answers, IInv, Types
  <2>4. StoredIsParsed'
    BY <2>2 DEF StoredIsParsed, Served
  <2>5. FileMatchesRow'
    BY <2>1 DEF RowChecked, FileMatchesRow
  <2> QED
    BY <1>3, <2>2, <2>3, <2>4, <2>5 DEF IInv
<1> QED
  BY <1>4, <1>5

(* The row is written: it is the file that was stored.                     *)
LEMMA RowKeeps ==
  ASSUME IInv, NEW r \in Requests, RowWritten(r)
  PROVE  IInv'
<1>1. /\ request[r] \in Installing /\ request[r].step = "checked"
      /\ request[r].link \in Links /\ request[r].parsed \in Sheets
  <2>1. request[r] \in RequestType /\ request[r].step = "checked"
    BY DEF RowWritten, IInv, Types
  <2> QED
    BY <2>1, RequestShapes DEF Installing
<1>2. [request[r] EXCEPT !.step = "written"] \in Installing /\ "written" \in Served
  BY <1>1 DEF Installing, Served
<1>3. /\ request' \in [Requests -> RequestType]
      /\ request'[r] = [request[r] EXCEPT !.step = "written"]
      /\ \A q \in Requests \ {r} : request'[q] = request[q]
      /\ request'[r].step = "written"
      /\ OneServed'
  BY <1>2, ProceedsServes DEF RowWritten, RequestType
<1>4. request'[r].link = request[r].link
  BY <1>1, <1>3 DEF Installing
<1>5. \A q \in Requests \ {r} : request'[q].step \notin Served
  BY <1>3, ServingAlone DEF RowWritten
<1>6. Types'
  BY <1>1, <1>3 DEF RowWritten, Proceeds, IInv, Types, StoredIsParsed
<1>7. StoredIsParsed'
  BY <1>3, <1>5 DEF StoredIsParsed, Served
<1>8. StagedIsFresh'
  <2> SUFFICES ASSUME NEW k \in Links, staged[k] # Nothing, ~fresh'[k]
               PROVE  k = request[r].link
    BY <1>3, <1>4 DEF RowWritten, StagedIsFresh
  <2>1. \A q \in Requests : request[q].step # "written"
    BY <1>1, ServingAlone DEF RowWritten, Served
  <2> QED
    BY <2>1 DEF RowWritten, IInv, Types, StagedIsFresh
<1>9. FileMatchesRow'
  BY <1>1 DEF RowWritten, IInv, StoredIsParsed, FileMatchesRow
<1> QED
  BY <1>3, <1>6, <1>7, <1>8, <1>9 DEF IInv

(* The link is consumed and the staged file removed.                       *)
LEMMA ConsumedKeeps ==
  ASSUME IInv, NEW r \in Requests, Consumed(r)
  PROVE  IInv'
<1>1. request[r].step = "written" /\ request[r].link \in Links
  <2>1. request[r] \in RequestType /\ request[r].step = "written"
    BY DEF Consumed, IInv, Types
  <2> QED
    BY <2>1, RequestShapes DEF Installing
<1>2. /\ request' \in [Requests -> RequestType]
      /\ OneServed'
      /\ \A q \in Requests : request'[q].step \notin Served
  BY AnswersServes DEF Consumed
<1>3. Types'
  BY <1>1, <1>2 DEF Consumed, Answers, IInv, Types
<1>4. StoredIsParsed'
  BY <1>2 DEF StoredIsParsed, Served
<1>5. \A q \in Requests \ {r} : request[q].step \notin Served
  BY ServingAlone DEF Consumed
<1>6. StagedIsFresh'
  BY <1>1, <1>5 DEF Consumed, IInv, Types, StagedIsFresh, Served
<1>7. FileMatchesRow'
  BY <1>1, <1>5 DEF Consumed, IInv, FileMatchesRow, Replacing, Served
<1> QED
  BY <1>2, <1>3, <1>4, <1>6, <1>7 DEF IInv

(* The group and the links change without the files and the requests.      *)
LEMMA WorldKeeps ==
  ASSUME IInv,
         CollectorArchives \/ GroupRemoved \/ GroupAdded \/ \E l \in Links : LinkExpires(l)
  PROVE  IInv'
<1>1. UNCHANGED <<staged, payload, file, row, previews, request, serving, torn, fresh>>
  BY DEF CollectorArchives, GroupRemoved, GroupAdded, LinkExpires
<1>2. group' \in {"open", "archived", "removed"} /\ spent' \subseteq Links
  BY DEF CollectorArchives, GroupRemoved, GroupAdded, LinkExpires, IInv, Types
<1>3. Types'
  BY <1>1, <1>2 DEF IInv, Types
<1> QED
  BY <1>1, <1>3 DEF IInv, OneServed, StoredIsParsed, StagedIsFresh, FileMatchesRow, Replacing

(* A crash ends every request; what was written but not yet removed may be *)
(* installed again.                                                        *)
LEMMA CrashKeeps ==
  ASSUME IInv, Crash
  PROVE  IInv'
<1>1. \A q \in Requests : request'[q] = NoRequest /\ request'[q].step = "none"
  BY DEF Crash, NoRequest
<1>2. request' \in [Requests -> RequestType]
  BY DEF Crash, RequestType
<1>3. fresh' \in [Links -> BOOLEAN]
  BY DEF Crash, IInv, Types
<1>4. Types'
  BY <1>2, <1>3 DEF Crash, IInv, Types
<1>5. OneServed' /\ StoredIsParsed'
  BY <1>1, CardReplaceAssumption DEF Crash, OneServed, StoredIsParsed, Served
<1>6. StagedIsFresh'
  <2> SUFFICES ASSUME NEW l \in Links, staged[l] # Nothing PROVE fresh'[l]
    BY DEF Crash, StagedIsFresh
  <2>1. CASE fresh[l]
    BY <2>1 DEF Crash, IInv, Types
  <2>2. ASSUME NEW r \in Requests, request[r].step = "written", request[r].link = l
        PROVE  fresh'[l]
    <3>1. serving = r /\ serving # Nothing
      BY <2>2, CardReplaceAssumption DEF IInv, OneServed, Served
    <3> QED
      BY <2>2, <3>1 DEF Crash, IInv, Types
  <2> QED
    BY <2>1, <2>2 DEF IInv, StagedIsFresh
<1>7. FileMatchesRow'
  BY DEF Crash, FileMatchesRow
<1> QED
  BY <1>4, <1>5, <1>6, <1>7 DEF IInv

(* Every step.                                                             *)
LEMMA StepKeeps == IInv /\ [Next]_vars => IInv'
<1> SUFFICES ASSUME IInv, [Next]_vars PROVE IInv'
  OBVIOUS
<1>1. ASSUME NEW r \in Requests, Request(r) PROVE IInv'
  BY <1>1, UploadKeeps, StagesKeeps, PreviewsKeeps, ConfirmKeeps, FileKeeps, RowCheckKeeps,
     RowKeeps, ConsumedKeeps DEF Request
<1>2. CASE UNCHANGED vars
  BY <1>2 DEF vars, IInv, Types, OneServed, StoredIsParsed, StagedIsFresh, FileMatchesRow,
     Replacing
<1> QED
  BY <1>1, <1>2, WorldKeeps, CrashKeeps DEF Next

-----------------------------------------------------------------------------
(* Theorems                                                                *)

(* The strengthened invariant holds throughout.                            *)
THEOREM InductiveInvariant == Spec => []IInv
  BY InitSatisfies, StepKeeps, PTL DEF Spec

(* Every reachable state of the links, the files, the row and the requests *)
(* is of its type: a request runs beyond its wait only while it is served  *)
(* (web.py, cards.py).                                                     *)
THEOREM TypeCorrect == Spec => []TypeOK
<1>1. IInv => TypeOK
  BY RequestShapes DEF IInv, Types, OneServed, TypeOK, Served
<1> QED
  BY <1>1, InductiveInvariant, PTL

(* The stored file is the one the row names (CharacterCardService.finalize *)
(* and replace_character), but for a replacement under way or one that was *)
(* stopped between the two.                                                *)
THEOREM FileMatchesRowHolds == Spec => []FileMatchesRow
<1>1. IInv => FileMatchesRow
  BY DEF IInv
<1> QED
  BY <1>1, InductiveInvariant, PTL

(* However many pages confirm it, an upload is installed once              *)
(* (confirm_card, finalize).                                               *)
THEOREM UploadInstallsOnceHolds == Spec => UploadInstallsOnce
<1>1. IInv => \A r \in Requests : RowWritten(r) => fresh[request[r].link]
  BY DEF IInv, StoredIsParsed, RowWritten
<1>2. IInv /\ [Next]_vars =>
        [\A r \in Requests : RowWritten(r) => fresh[request[r].link]]_vars
  BY <1>1
<1> QED
  BY <1>2, InductiveInvariant, PTL DEF Spec, UploadInstallsOnce
=============================================================================
