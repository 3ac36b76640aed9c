------------------------------- MODULE Previews -------------------------------
(***************************************************************************)
(* The desktop's preview of a blob: preview_blob with what it calls        *)
(* (app/src-tauri/src/commands.rs) and the pane that pages through it      *)
(* (handlePreviewBlob and BlobPreviewPane, app/src/App.tsx).  Every page   *)
(* is a new request, which reads the blob from the start again.            *)
(*                                                                         *)
(* A blob's chunks are its rows.  What is loaded stops at Cap half rows:   *)
(* an odd Cap cuts a row in two.                                           *)
(***************************************************************************)
EXTENDS Downloads

CONSTANTS
  Format,        \* "csv", "lines" (JSON), "parquet", "image" or "text"
  Cap,           \* how much of a blob is loaded, by format
  Limits,        \* the page sizes the pane offers
  DefaultLimit,  \* ... and the one it starts with
  MaxLimit,      \* the longest page preview_blob gives out (500)
  Openable,      \* the blobs a person previews (a bound)
  MaxAsks        \* previews asked for (a bound)

ASSUME PreviewsAssumption ==
  /\ Limits \subseteq Nat \ {0} /\ DefaultLimit \in Limits /\ MaxLimit \in Nat \ {0}
  /\ Openable \subseteq Blobs /\ MaxAsks \in Nat
  /\ \A b \in Openable : Cap[Format[b]] \in Nat

VARIABLES
  requests,  \* the previews asked for, the last one being previewRequestId
  pane,      \* previewDialog, Nothing while it is closed
  viewed     \* the rows seen since the first page, by "next" (observation)

pvars == <<dvars, requests, pane, viewed>>

Failed == [kind |-> "error"]

NewRequest(b, offset, limit, how) ==
  [blob |-> b, offset |-> offset, limit |-> limit, how |-> how,
   stage |-> "sent", result |-> Nothing]

PInit == DInit /\ requests = <<>> /\ pane = Nothing /\ viewed = <<>>

-----------------------------------------------------------------------------
(* preview_blob                                                            *)

Lesser(m, n) == IF m < n THEN m ELSE n

IsCut(b) == 2 * Pieces[b] > Cap[Format[b]]

Half == 0

(* read_blob_preview_bytes: the rows that fit, and the half of one that is cut *)
Rows(b, v) ==
  SubSeq(Whole(b, v), 1, Lesser(Pieces[b], Cap[Format[b]] \div 2))
    \o (IF IsCut(b) /\ Cap[Format[b]] % 2 = 1 THEN <<Mark(b, v, Half)>> ELSE <<>>)

(* Text, an image, a binary: all of it at once *)
Plain(kind) ==
  [kind |-> kind, offset |-> 0, limit |-> 0, rows |-> <<>>, total |-> Nothing, next |-> FALSE]

(* Mutant: the first row of a page is left out. *)
TableShifted(rows, offset, limit, total) ==
  LET shown == SubSeq(rows, offset + 2, Lesser(offset + limit, Len(rows)))
  IN  [kind |-> "table", offset |-> offset, limit |-> limit, rows |-> shown,
       total |-> total, next |-> offset + Len(shown) < Len(rows)]

Table(rows, offset, limit, total) ==
  LET shown == SubSeq(rows, offset + 1, Lesser(offset + limit, Len(rows)))
  IN  [kind |-> "table", offset |-> offset, limit |-> limit, rows |-> shown,
       total |-> total, next |-> offset + Len(shown) < Len(rows)]

(* build_blob_preview.  A cut row of a CSV counts as a row; one of JSON lines  *)
(* cannot be read, and the whole is shown as text; without its end a Parquet   *)
(* file or an image is but a binary                                            *)
Preview(b, v, offset, limit) ==
  LET page == Table(Rows(b, v), offset, Lesser(limit, MaxLimit),
                    IF IsCut(b) THEN Nothing ELSE Pieces[b])
  IN  CASE Format[b] = "csv"     -> page
        [] Format[b] = "lines"   -> IF \E row \in Range(Rows(b, v)) : row[3] = Half
                                 THEN Plain("text") ELSE page
        [] Format[b] = "parquet" -> IF IsCut(b) THEN Plain("binary") ELSE page
        [] Format[b] = "image"   -> Plain(IF IsCut(b) THEN "binary" ELSE "image")
        [] OTHER                 -> Plain("text")

(* The command: the blob is read as it is now, or it fails *)
Answer(i) ==
  /\ requests[i].stage = "sent"
  /\ LET r == requests[i]
     IN  \E result \in {Failed} \cup
           (IF stored[r.blob] = Nothing THEN {}
            ELSE {Preview(r.blob, stored[r.blob], r.offset, r.limit)}) :
           requests' = [requests EXCEPT ![i].stage = "answered", ![i].result = result]
  /\ UNCHANGED <<dvars, pane, viewed>>

-----------------------------------------------------------------------------
(* The pane *)

Idle == \A d \in Downloads : at[d] = "over" /\ outcome[d] = "none"

(* handlePreviewBlob: what the pane shows of the same blob stays until the *)
(* answer comes                                                            *)
AskFor(b, offset, limit, how) ==
  /\ Idle /\ Len(requests) < MaxAsks
  /\ requests' = Append(requests, NewRequest(b, offset, limit, how))
  /\ pane' = [blob |-> b, offset |-> offset, limit |-> limit, busy |-> TRUE,
              result |-> IF pane # Nothing /\ pane.blob = b THEN pane.result ELSE Nothing]
  /\ UNCHANGED <<dvars, viewed>>

Open == \E b \in Openable : AskFor(b, 0, DefaultLimit, "open")

(* The buttons of the pager work on what is shown, while nothing is asked *)
CanPage ==
  pane # Nothing /\ ~pane.busy /\ pane.result # Nothing /\ pane.result.kind = "table"

PageLimit == IF pane.result.limit # 0 THEN pane.result.limit ELSE pane.limit

NextPage ==
  /\ CanPage /\ pane.result.next
  /\ AskFor(pane.blob, pane.result.offset + PageLimit, PageLimit, "next")

PreviousPage ==
  /\ CanPage /\ pane.result.offset > 0
  /\ AskFor(pane.blob, IF pane.result.offset > PageLimit THEN pane.result.offset - PageLimit
                       ELSE 0, PageLimit, "jump")

(* First, Last, a page's number, another page size *)
JumpTo ==
  /\ CanPage
  /\ \/ pane.result.offset > 0 /\ AskFor(pane.blob, 0, PageLimit, "jump")
     \/ /\ pane.result.total # Nothing /\ pane.result.total > 0
        /\ \E page \in 0..((pane.result.total - 1) \div PageLimit) :
             AskFor(pane.blob, page * PageLimit, PageLimit, "jump")
     \/ \E limit \in Limits : AskFor(pane.blob, 0, limit, "jump")

Close ==
  /\ pane # Nothing
  /\ pane' = Nothing
  /\ UNCHANGED <<dvars, requests, viewed>>

VersionOf(rows) == <<rows[1][1], rows[1][2]>>

(* What has been seen from the first row on, page after page of one version *)
Seen(request) ==
  IF request.result.kind # "table" \/ request.result.rows = <<>> THEN <<>>
  ELSE IF request.result.offset = 0 THEN request.result.rows
  ELSE IF request.how = "next" /\ viewed # <<>>
          /\ VersionOf(viewed) = VersionOf(request.result.rows)
       THEN viewed \o request.result.rows
  ELSE <<>>

(* Mutant: whatever answer comes is shown. *)
ReceiveAny(i) ==
  /\ requests[i].stage = "answered"
  /\ requests' = [requests EXCEPT ![i].stage = "received", ![i].result = Nothing]
  /\ LET r == requests[i]
     IN  /\ pane' = [blob |-> r.blob, busy |-> FALSE, result |-> r.result,
                     offset |-> IF r.result = Failed THEN r.offset ELSE r.result.offset,
                     limit |-> r.limit]
         /\ viewed' = Seen(r)
  /\ UNCHANGED dvars

(* Only the answer to the last request is shown; it opens a pane that was *)
(* closed meanwhile                                                       *)
Receive(i) ==
  /\ requests[i].stage = "answered"
  /\ requests' = [requests EXCEPT ![i].stage = "received", ![i].result = Nothing]
  /\ LET r == requests[i]
     IN  IF i # Len(requests) THEN UNCHANGED <<pane, viewed>>
         ELSE /\ pane' = [blob |-> r.blob, busy |-> FALSE, result |-> r.result,
                          offset |-> IF r.result = Failed THEN r.offset ELSE r.result.offset,
                          limit |-> IF r.result = Failed \/ r.result.limit = 0 THEN r.limit
                                    ELSE r.result.limit]
              /\ viewed' = Seen(r)
  /\ UNCHANGED dvars

PNext ==
  \/ DNext /\ UNCHANGED <<requests, pane, viewed>>
  \/ Open \/ NextPage \/ PreviousPage \/ JumpTo \/ Close
  \/ \E i \in DOMAIN requests : Answer(i) \/ Receive(i)

(* Downloads go on as they do alone; a preview may wait for ever *)
PFairness ==
  \A d \in Downloads : WF_pvars(Step(d) /\ UNCHANGED <<requests, pane, viewed>>)

PSpec == PInit /\ [][PNext]_pvars /\ PFairness
-----------------------------------------------------------------------------
(* Properties *)

(* A pane that is not waiting shows the answer to what was asked last, never *)
(* to an earlier request whose answer came late.                             *)
ShowsWhatWasAsked ==
  pane # Nothing /\ ~pane.busy =>
    LET last == requests[Len(requests)]
    IN  /\ last.stage = "received" /\ pane.blob = last.blob
        /\ pane.result.kind = "table" =>
             pane.result.offset = last.offset /\ pane.result.limit = Lesser(last.limit, MaxLimit)

(* Paging forward from the first page through a blob that is not replaced     *)
(* meanwhile shows every row that is loaded once and in order, whatever was   *)
(* asked and given up in between; when there is no next page all have been    *)
(* shown, the whole blob unless it is said to be cut.                         *)
PagesShowEveryRow ==
  viewed # <<>> =>
    LET blob == viewed[1][1]
        loaded == Rows(blob, viewed[1][2])
    IN  /\ viewed = SubSeq(loaded, 1, Len(viewed))
        /\ pane # Nothing /\ ~pane.busy /\ pane.result.kind = "table" /\ ~pane.result.next =>
             /\ viewed = loaded
             /\ pane.result.total # Nothing => Len(viewed) = Pieces[blob]
=============================================================================
