---------------------------- MODULE ScanProperties ----------------------------
(***************************************************************************)
(* What the quarantine promises: nothing unscanned is served, a verdict    *)
(* stands, and an attachment is decided.                                   *)
(***************************************************************************)
EXTENDS AttachmentScan

(* AttachmentVisibilityPolicy::view on a row that queries can find.        *)
Served ==
    row.status = "clean" /\ row.safe = "yes" /\ row.file \in files /\ ~row.trashed

(* What may be downloaded or forwarded was called clean by the scanner,    *)
(* and the safe flag never says more than the status, whatever retries,    *)
(* late answers, rescans and changes of the backend came in between.       *)
ServedIsScanned ==
    /\ Served => "clean" \in said
    /\ row.safe = "yes" => row.status = "clean"
    /\ row.status = "infected" => "infected" \in said

(* Clean, infected and skipped stand; only a rescan takes back failed.     *)
KeepsVerdict ==
    row.status \in Verdicts =>
      \/ row'.status = row.status /\ row'.safe = row.safe
      \/ row.status = "failed" /\ rescans' = rescans + 1

(* No late answer, second job or timeout changes a verdict that is given.  *)
VerdictIsFinal == [][KeepsVerdict]_vars

(* The file of a row that may still be scanned or served stays on disk:    *)
(* the cleanup of a failing duplicate never takes it.                      *)
StoredFileIsKept ==
    row.status \in {"pending", "scanning", "clean", "skipped"} /\ rescans = 0 =>
      row.file \in files \/ \E i \in Deliveries : row.file = i /\ ~delivery[i].put

(* Somebody will still look at the attachment.                             *)
InHand ==
    \/ pushing
    \/ \E i \in Deliveries : delivery[i].pc = "committed"
    \/ \E j \in Jobs : job[j].state # "none"
    \/ \E w \in Workers : worker[w].pc \in {"scanning", "thrown"}

(* An attachment without a verdict is in somebody's hands, unless a        *)
(* process died after it had committed and before it had dispatched or     *)
(* answered, a write to the disk was refused, or a rescan met a held lock. *)
UndecidedIsInHand == Open => InHand \/ stranded

(* Every attachment gets a verdict, with the same exceptions.              *)
ScanDecides == Open ~> (~Open \/ stranded)

=============================================================================
