-------------------------- MODULE ScanSafety_proofs --------------------------
(***************************************************************************)
(* Attachment scanning, for every number of deliveries, workers and jobs:  *)
(* what is served was called clean, a verdict stands, and the file of a    *)
(* row that may still be scanned or served stays on disk.                  *)
(***************************************************************************)
EXTENDS ScanProperties, TLAPS

(* The row says no more than the scanner did.                              *)
RowIsHonest ==
    /\ row.status = "clean" => "clean" \in said
    /\ row.status = "infected" => "infected" \in said
    /\ row.safe = "yes" => row.status = "clean"

(* A delivery that is about to commit has its file on disk, unless the     *)
(* write was refused; one whose row is committed will not clean up.        *)
FilesAreOwned ==
    /\ \A i \in Deliveries :
         delivery[i].pc = "stored" /\ delivery[i].put => i \in files
    /\ row.status # "none" =>
         row.file \in Deliveries /\ delivery[row.file].pc # "stored"
    /\ row.status = "none" => row.safe = "null"

ScanInv == TypeOK /\ RowIsHonest /\ FilesAreOwned /\ StoredFileIsKept

-----------------------------------------------------------------------------
(* A verdict is written to an open row only, and keeps its file.           *)
LEMMA TerminalWrites ==
    ASSUME TypeOK, NEW status \in Statuses, NEW safe \in {"null", "yes", "no"}, NEW n \in Nat
    PROVE  /\ Terminal(status, safe, n) \in Row
           /\ Terminal(status, safe, n).file = row.file
           /\ Terminal(status, safe, n).trashed = row.trashed
           /\ \/ Terminal(status, safe, n) = row
              \/ /\ row.status \in {"pending", "scanning"}
                 /\ Terminal(status, safe, n).status = status
                 /\ Terminal(status, safe, n).safe = safe
<1>1. row \in Row  BY DEF TypeOK
<1>2. [row EXCEPT !.status = status] \in Row  BY <1>1 DEF Row
<1>3. [row EXCEPT !.status = status, !.safe = safe] \in Row  BY <1>2 DEF Row
<1>4. [row EXCEPT !.status = status, !.safe = safe, !.attempts = n] \in Row  BY <1>3 DEF Row
<1> QED  BY <1>1, <1>4 DEF Terminal, Open, Row

LEMMA JobFailedWrites ==
    ASSUME TypeOK
    PROVE  /\ JobFailed \in Row
           /\ JobFailed.file = row.file
           /\ JobFailed.trashed = row.trashed
           /\ \/ JobFailed = row
              \/ /\ row.status \in {"pending", "scanning"}
                 /\ JobFailed.status = "failed"
                 /\ JobFailed.safe = "null"
<1>1. row.attempts \in Nat  BY DEF TypeOK, Row
<1>2. "failed" \in Statuses  BY DEF Statuses, Verdicts
<1> QED  BY <1>1, <1>2, TerminalWrites DEF JobFailed

(* What a step may do to the row once it is there, the rescan apart.       *)
Settles ==
    /\ row' \in Row
    /\ row'.file = row.file
    /\ \/ row'.status = row.status /\ row'.safe = row.safe
       \/ row.status \in {"pending", "scanning"} /\ row'.status \in Statuses \ {"none"}
    /\ row'.status = "clean" => row.status = "clean" \/ "clean" \in said'
    /\ row'.status = "infected" => row.status = "infected" \/ "infected" \in said'
    /\ row'.safe = "yes" => row'.status = "clean"

(* Such a step keeps what the row says, and its file.                      *)
LEMMA SettlesKeeps ==
    ASSUME ScanInv, Settles, said \subseteq said', UNCHANGED <<files, delivery, rescans>>
    PROVE  RowIsHonest' /\ FilesAreOwned' /\ StoredFileIsKept' /\ KeepsVerdict
<1>1. RowIsHonest /\ FilesAreOwned /\ StoredFileIsKept  BY DEF ScanInv
<1>2. row.status = "none" <=> row'.status = "none"
    BY DEF Settles, Statuses, Verdicts
<1>3. RowIsHonest'  BY <1>1 DEF RowIsHonest, Settles
<1>4. FilesAreOwned'  BY <1>1, <1>2 DEF FilesAreOwned, Settles
<1>5. StoredFileIsKept'  BY <1>1 DEF StoredFileIsKept, Settles
<1>6. KeepsVerdict  BY DEF KeepsVerdict, Settles, Verdicts
<1> QED  BY <1>3, <1>4, <1>5, <1>6

LEMMA InitScan ==
    ASSUME Init
    PROVE  ScanInv
<1>1. NoRow \in Row
  <2>1. "none" \in Statuses /\ 0 \in Nat  BY DEF Statuses
  <2> QED  BY <2>1 DEF NoRow, Row
<1>2. NewDelivery \in Delivery  BY TriesAssumption DEF NewDelivery, Delivery
<1>3. Gone \in Job  BY TriesAssumption DEF Gone, Job
<1>4. Idle \in Worker  BY TriesAssumption DEF Idle, Worker
<1>5. TypeOK
  <2>1. enabled \in BOOLEAN /\ lock \in BOOLEAN /\ pushing \in BOOLEAN /\ stranded \in BOOLEAN
      BY DEF Init
  <2>2. /\ row \in Row /\ files \subseteq Deliveries
        /\ delivery \in [Deliveries -> Delivery]
        /\ job \in [Jobs -> Job] /\ worker \in [Workers -> Worker]
        /\ said \subseteq {"clean", "infected"}
      BY <1>1, <1>2, <1>3, <1>4 DEF Init
  <2>3. rescans \in 0 .. RescanBound  BY TriesAssumption DEF Init
  <2> QED  BY <2>1, <2>2, <2>3 DEF TypeOK
<1>6. RowIsHonest /\ FilesAreOwned /\ StoredFileIsKept
    BY DEF Init, NoRow, NewDelivery, RowIsHonest, FilesAreOwned, StoredFileIsKept
<1> QED  BY <1>5, <1>6 DEF ScanInv

-----------------------------------------------------------------------------
(* Ingest.                                                                 *)

LEMMA AfterTryIsPc ==
    ASSUME NEW i \in Deliveries
    PROVE  AfterTry(i) \in {"queued", "done"}
BY DEF AfterTry

LEMMA StoreKeeps ==
    ASSUME ScanInv, NEW i \in Deliveries, NEW ok \in BOOLEAN, Store(i, ok)
    PROVE  ScanInv' /\ KeepsVerdict
<1>1. TypeOK /\ FilesAreOwned /\ StoredFileIsKept /\ RowIsHonest  BY DEF ScanInv
<1>2. delivery[i] \in Delivery  BY <1>1 DEF TypeOK
<1>3. delivery[i].tries + 1 \in 0 .. DeliveryTries
    BY <1>2, TriesAssumption DEF Store, Delivery
<1>4. [pc |-> "stored", tries |-> delivery[i].tries + 1, put |-> ok, scan |-> enabled] \in Delivery
    BY <1>1, <1>3 DEF TypeOK, Delivery
<1>5. delivery' \in [Deliveries -> Delivery]  BY <1>1, <1>4 DEF TypeOK, Store
<1>6. TypeOK'  BY <1>1, <1>5 DEF TypeOK, Store
<1>7. FilesAreOwned'  BY <1>1 DEF TypeOK, FilesAreOwned, Store
<1>8. RowIsHonest' /\ StoredFileIsKept' /\ KeepsVerdict
    BY <1>1 DEF RowIsHonest, StoredFileIsKept, KeepsVerdict, Store, Verdicts
<1> QED  BY <1>6, <1>7, <1>8 DEF ScanInv

LEMMA DuplicateKeeps ==
    ASSUME ScanInv, NEW i \in Deliveries, Duplicate(i)
    PROVE  ScanInv' /\ KeepsVerdict
<1>1. TypeOK /\ FilesAreOwned /\ StoredFileIsKept /\ RowIsHonest  BY DEF ScanInv
<1>2. delivery[i] \in Delivery  BY <1>1 DEF TypeOK
<1>3. delivery[i].tries + 1 \in 0 .. DeliveryTries
    BY <1>2, TriesAssumption DEF Duplicate, Delivery
<1>4. [delivery[i] EXCEPT !.pc = "done"] \in Delivery  BY <1>2 DEF Delivery
<1>5. [delivery[i] EXCEPT !.pc = "done", !.tries = @ + 1] \in Delivery
    BY <1>2, <1>3, <1>4 DEF Delivery
<1>6. delivery' = [delivery EXCEPT ![i] = [delivery[i] EXCEPT !.pc = "done", !.tries = @ + 1]]
    BY <1>1, <1>2 DEF Duplicate, TypeOK, Delivery
<1>7. TypeOK'  BY <1>1, <1>5, <1>6 DEF TypeOK, Duplicate
<1>8. \A j \in Deliveries : /\ delivery'[j].put = delivery[j].put
                            /\ delivery'[j].pc \in {delivery[j].pc, "done"}
    BY <1>1, <1>2, <1>6 DEF TypeOK, Delivery
<1>9. FilesAreOwned' /\ RowIsHonest' /\ StoredFileIsKept' /\ KeepsVerdict
    BY <1>1, <1>8 DEF FilesAreOwned, RowIsHonest, StoredFileIsKept, KeepsVerdict, Duplicate
<1> QED  BY <1>7, <1>9 DEF ScanInv

(* The delivery only changes its program counter.                          *)
LEMMA MovesDelivery ==
    ASSUME TypeOK, NEW i \in Deliveries, NEW pc \in {"queued", "stored", "committed", "done"},
           delivery' = [delivery EXCEPT ![i].pc = pc]
    PROVE  /\ delivery' \in [Deliveries -> Delivery]
           /\ delivery'[i].pc = pc
           /\ \A j \in Deliveries : delivery'[j].put = delivery[j].put
           /\ \A j \in Deliveries \ {i} : delivery'[j].pc = delivery[j].pc
<1>1. [delivery[i] EXCEPT !.pc = pc] \in Delivery  BY DEF TypeOK, Delivery
<1> QED  BY <1>1 DEF TypeOK, Delivery

LEMMA CommitDeliveryKeeps ==
    ASSUME ScanInv, NEW i \in Deliveries, CommitDelivery(i)
    PROVE  ScanInv' /\ KeepsVerdict
<1>1. TypeOK /\ FilesAreOwned /\ StoredFileIsKept /\ RowIsHonest  BY DEF ScanInv
<1>2. /\ delivery' \in [Deliveries -> Delivery]
      /\ delivery'[i].pc = "committed"
      /\ \A j \in Deliveries : delivery'[j].put = delivery[j].put
      /\ \A j \in Deliveries \ {i} : delivery'[j].pc = delivery[j].pc
    BY <1>1, MovesDelivery DEF CommitDelivery
<1>3. row' \in Row
  <2>1. "pending" \in Statuses /\ 0 \in Nat  BY DEF Statuses
  <2> QED  BY <2>1 DEF CommitDelivery, NoRow, Row
<1>4. row'.status = "pending" /\ row'.safe = "null" /\ row'.file = i
    BY DEF CommitDelivery, NoRow
<1>5. TypeOK'  BY <1>1, <1>2, <1>3 DEF TypeOK, CommitDelivery
<1>6. FilesAreOwned'  BY <1>1, <1>2, <1>4 DEF FilesAreOwned, CommitDelivery
<1>7. RowIsHonest'  BY <1>4 DEF RowIsHonest
<1>8. StoredFileIsKept'
    BY <1>1, <1>2, <1>4 DEF FilesAreOwned, StoredFileIsKept, CommitDelivery
<1>9. KeepsVerdict  BY DEF KeepsVerdict, CommitDelivery, Verdicts
<1> QED  BY <1>5, <1>6, <1>7, <1>8, <1>9 DEF ScanInv

LEMMA FailDeliveryKeeps ==
    ASSUME ScanInv, NEW i \in Deliveries, FailDelivery(i) \/ CrashDelivery(i)
    PROVE  ScanInv' /\ KeepsVerdict
<1>1. TypeOK /\ FilesAreOwned /\ StoredFileIsKept /\ RowIsHonest  BY DEF ScanInv
<1>2. /\ delivery' \in [Deliveries -> Delivery]
      /\ delivery'[i].pc \in {"queued", "done"}
      /\ \A j \in Deliveries : delivery'[j].put = delivery[j].put
      /\ \A j \in Deliveries \ {i} : delivery'[j].pc = delivery[j].pc
    BY <1>1, AfterTryIsPc, MovesDelivery DEF FailDelivery, CrashDelivery
<1>3. TypeOK'  BY <1>1, <1>2 DEF TypeOK, FailDelivery, CrashDelivery
<1>4. /\ files' \subseteq files /\ files \subseteq files' \cup {i}
      /\ i \notin files' => i \notin files \/ delivery[i].pc = "stored"
    BY DEF FailDelivery, CrashDelivery
<1>5. FilesAreOwned'
    BY <1>1, <1>2, <1>4 DEF FilesAreOwned, FailDelivery, CrashDelivery
<1>6. StoredFileIsKept'
    BY <1>1, <1>2, <1>4 DEF FilesAreOwned, StoredFileIsKept, FailDelivery, CrashDelivery
<1>7. RowIsHonest' /\ KeepsVerdict
    BY <1>1 DEF RowIsHonest, KeepsVerdict, FailDelivery, CrashDelivery
<1> QED  BY <1>3, <1>5, <1>6, <1>7 DEF ScanInv

LEMMA PushIsJobs ==
    ASSUME TypeOK, Push
    PROVE  job' \in [Jobs -> Job]
<1>1. [Gone EXCEPT !.state = "available"] \in Job  BY TriesAssumption DEF Gone, Job
<1> QED  BY <1>1 DEF TypeOK, Push

LEMMA DispatchScanKeeps ==
    ASSUME ScanInv, NEW i \in Deliveries, DispatchScan(i)
    PROVE  ScanInv' /\ KeepsVerdict
<1>1. TypeOK /\ FilesAreOwned /\ StoredFileIsKept /\ RowIsHonest  BY DEF ScanInv
<1>2. /\ delivery' \in [Deliveries -> Delivery]
      /\ delivery'[i].pc = "done"
      /\ \A j \in Deliveries : delivery'[j].put = delivery[j].put
      /\ \A j \in Deliveries \ {i} : delivery'[j].pc = delivery[j].pc
    BY <1>1, MovesDelivery DEF DispatchScan
<1>3. /\ Terminal("skipped", "null", row.attempts) \in Row
      /\ Terminal("skipped", "null", row.attempts).file = row.file
      /\ \/ Terminal("skipped", "null", row.attempts) = row
         \/ /\ row.status \in {"pending", "scanning"}
            /\ Terminal("skipped", "null", row.attempts).status = "skipped"
            /\ Terminal("skipped", "null", row.attempts).safe = "null"
  <2>1. "skipped" \in Statuses /\ row.attempts \in Nat  BY <1>1 DEF Statuses, Verdicts, TypeOK, Row
  <2> QED  BY <1>1, <2>1, TerminalWrites
<1>4. /\ row' \in Row /\ row'.file = row.file
      /\ \/ row' = row
         \/ row.status \in {"pending", "scanning"} /\ row'.status = "skipped" /\ row'.safe = "null"
    BY <1>1, <1>3 DEF DispatchScan, TypeOK
<1>5. job' \in [Jobs -> Job]  BY <1>1, PushIsJobs DEF DispatchScan, TypeOK
<1>6. TypeOK'  BY <1>1, <1>2, <1>4, <1>5 DEF TypeOK, DispatchScan
<1>7. FilesAreOwned'  BY <1>1, <1>2, <1>4 DEF FilesAreOwned, DispatchScan
<1>8. StoredFileIsKept'  BY <1>1, <1>2, <1>4 DEF StoredFileIsKept, DispatchScan
<1>9. RowIsHonest' /\ KeepsVerdict
    BY <1>1, <1>4 DEF RowIsHonest, KeepsVerdict, Verdicts, DispatchScan
<1> QED  BY <1>6, <1>7, <1>8, <1>9 DEF ScanInv

-----------------------------------------------------------------------------
(* The scan job.  Every step settles the row, if it writes it at all.      *)

LEMMA RowStays ==
    ASSUME ScanInv, UNCHANGED row
    PROVE  Settles
BY DEF ScanInv, TypeOK, RowIsHonest, Settles

LEMMA Fails ==
    ASSUME ScanInv, row' = JobFailed
    PROVE  Settles
<1>1. TypeOK /\ RowIsHonest  BY DEF ScanInv
<1>2. "failed" \in Statuses \ {"none"}  BY DEF Statuses, Verdicts
<1> QED  BY <1>1, <1>2, JobFailedWrites DEF Settles, RowIsHonest

LEMMA WorkerMoves ==
    ASSUME TypeOK, NEW w \in Workers, NEW pc \in {"idle", "loaded", "scanning", "thrown", "ending"}
    PROVE  [worker EXCEPT ![w].pc = pc] \in [Workers -> Worker]
<1>1. [worker[w] EXCEPT !.pc = pc] \in Worker  BY DEF TypeOK, Worker
<1> QED  BY <1>1 DEF TypeOK

LEMMA WorkerRests ==
    ASSUME TypeOK, NEW w \in Workers
    PROVE  [worker EXCEPT ![w] = Idle] \in [Workers -> Worker]
<1>1. Idle \in Worker  BY TriesAssumption DEF Idle, Worker
<1> QED  BY <1>1 DEF TypeOK

LEMMA LeftIsJobs ==
    ASSUME TypeOK, NEW w \in Workers
    PROVE  Left(w) \subseteq [Jobs -> Job]
<1>1. Gone \in Job  BY TriesAssumption DEF Gone, Job
<1>2. [job EXCEPT ![worker[w].job] = Gone] \in [Jobs -> Job]  BY <1>1 DEF TypeOK
<1> QED  BY <1>2 DEF Left, TypeOK

LEMMA ReleasedIsJobs ==
    ASSUME TypeOK, NEW w \in Workers, Released(w)
    PROVE  job' \in [Jobs -> Job]
<1>1. worker[w].try \in 0 .. MaxAttempts  BY DEF TypeOK, Worker
<1>2. [state |-> "available", tries |-> worker[w].try, owner |-> NoWorker] \in Job
    BY <1>1 DEF Job
<1> QED  BY <1>2, LeftIsJobs DEF Released

(* A step that settles the row and leaves files and deliveries alone.      *)
LEMMA SettlingStep ==
    ASSUME ScanInv, TypeOK', Settles, said \subseteq said', UNCHANGED <<files, delivery, rescans>>
    PROVE  ScanInv' /\ KeepsVerdict
BY SettlesKeeps DEF ScanInv

LEMMA PickKeeps ==
    ASSUME ScanInv, NEW w \in Workers, NEW j \in Jobs, Pick(w, j)
    PROVE  ScanInv' /\ KeepsVerdict
<1>1. TypeOK  BY DEF ScanInv
<1>2. CASE job[j].tries = MaxAttempts /\ row' = JobFailed /\ job' = [job EXCEPT ![j] = Gone]
           /\ lock' = FALSE /\ UNCHANGED worker
  <2>1. Gone \in Job  BY TriesAssumption DEF Gone, Job
  <2>2. row' \in Row  BY <1>1, <1>2, JobFailedWrites
  <2>3. TypeOK'  BY <1>1, <1>2, <2>1, <2>2 DEF TypeOK, Pick
  <2> QED  BY <1>2, <2>3, Fails, SettlingStep DEF Pick
<1>3. CASE /\ job[j].tries < MaxAttempts
           /\ job' = [job EXCEPT ![j] = [state |-> "reserved", tries |-> @.tries + 1, owner |-> w]]
           /\ worker' = [worker EXCEPT ![w] = [pc |-> IF Open THEN "loaded" ELSE "ending",
                                               job |-> j, try |-> job[j].tries + 1,
                                               attempts |-> row.attempts]]
           /\ UNCHANGED <<row, lock>>
  <2>1. job[j].tries + 1 \in 0 .. MaxAttempts /\ row.attempts \in Nat
      BY <1>1, <1>3, TriesAssumption DEF TypeOK, Job, Row
  <2>2. [state |-> "reserved", tries |-> job[j].tries + 1, owner |-> w] \in Job
      BY <2>1 DEF Job
  <2>3. [pc |-> IF Open THEN "loaded" ELSE "ending", job |-> j, try |-> job[j].tries + 1,
         attempts |-> row.attempts] \in Worker
      BY <2>1 DEF Worker
  <2>4. job' \in [Jobs -> Job] /\ worker' \in [Workers -> Worker]
      BY <1>1, <1>3, <2>2, <2>3 DEF TypeOK
  <2>5. TypeOK'  BY <1>1, <1>3, <2>4 DEF TypeOK, Pick
  <2> QED  BY <1>3, <2>5, RowStays, SettlingStep DEF Pick
<1> QED  BY <1>2, <1>3 DEF Pick

LEMMA ScanWithoutSettles ==
    ASSUME ScanInv, NEW w \in Workers, NEW status \in {"skipped", "failed"}, ScanWithout(w, status)
    PROVE  Settles /\ worker' \in [Workers -> Worker]
<1>1. TypeOK /\ RowIsHonest  BY DEF ScanInv
<1>2. status \in Statuses /\ worker[w].attempts \in Nat
    BY <1>1 DEF Statuses, Verdicts, TypeOK, Worker
<1>3. row' = Terminal(status, "null", worker[w].attempts)  BY DEF ScanWithout
<1>4. Settles  BY <1>1, <1>2, <1>3, TerminalWrites DEF Settles, RowIsHonest
<1> QED  BY <1>1, <1>4, WorkerMoves DEF ScanWithout

LEMMA ClaimSettles ==
    ASSUME ScanInv, NEW w \in Workers, Claim(w)
    PROVE  Settles /\ worker' \in [Workers -> Worker]
<1>1. TypeOK /\ RowIsHonest  BY DEF ScanInv
<1>2. row \in Row /\ row.attempts + 1 \in Nat /\ "scanning" \in Statuses
    BY <1>1 DEF TypeOK, Row, Statuses
<1>3. [row EXCEPT !.status = "scanning"] \in Row  BY <1>2 DEF Row
<1>4. [row EXCEPT !.status = "scanning", !.safe = "null"] \in Row  BY <1>3 DEF Row
<1>5. row' \in Row  BY <1>2, <1>4 DEF Row, Claim
<1>6. row'.file = row.file /\ row'.status = "scanning" /\ row'.safe = "null"
    BY <1>2 DEF Row, Claim
<1>7. Settles  BY <1>2, <1>5, <1>6 DEF Settles, Claim
<1>8. [worker[w] EXCEPT !.pc = "scanning"] \in Worker  BY <1>1 DEF TypeOK, Worker
<1>9. [worker[w] EXCEPT !.pc = "scanning", !.attempts = row.attempts + 1] \in Worker
    BY <1>2, <1>8 DEF Worker
<1>10. worker' = [worker EXCEPT ![w] = [worker[w] EXCEPT !.pc = "scanning", !.attempts = row.attempts + 1]]
    BY <1>1 DEF Claim, TypeOK, Worker
<1> QED  BY <1>1, <1>7, <1>9, <1>10 DEF TypeOK

LEMMA ScanKeeps ==
    ASSUME ScanInv, NEW w \in Workers, Scan(w)
    PROVE  ScanInv' /\ KeepsVerdict
<1>1. TypeOK  BY DEF ScanInv
<1>2. Settles /\ worker' \in [Workers -> Worker]
    BY <1>1, ScanWithoutSettles, ClaimSettles, RowStays, WorkerMoves DEF Scan
<1>3. TypeOK'  BY <1>1, <1>2 DEF TypeOK, Scan, Settles
<1> QED  BY <1>2, <1>3, SettlingStep DEF Scan

LEMMA AnswerKeeps ==
    ASSUME ScanInv, NEW w \in Workers, NEW verdict \in {"clean", "infected", "failed"},
           Answer(w, verdict)
    PROVE  ScanInv' /\ KeepsVerdict
<1>1. TypeOK /\ RowIsHonest  BY DEF ScanInv
<1>2. verdict \in Statuses \ {"none"} /\ worker[w].attempts \in Nat
    BY <1>1 DEF Statuses, Verdicts, TypeOK, Worker
<1>3. SafeFlag[verdict] \in {"null", "yes", "no"} /\ (SafeFlag[verdict] = "yes" => verdict = "clean")
    BY DEF SafeFlag
<1>4. said \subseteq said' /\ said' \subseteq {"clean", "infected"}
      /\ (verdict # "failed" => verdict \in said')
    BY <1>1 DEF Answer, TypeOK
<1>5. row' = Terminal(verdict, SafeFlag[verdict], worker[w].attempts)  BY DEF Answer
<1>6. Settles  BY <1>1, <1>2, <1>3, <1>4, <1>5, TerminalWrites DEF Settles, RowIsHonest
<1>7. worker' \in [Workers -> Worker]  BY <1>1, WorkerMoves DEF Answer
<1>8. TypeOK'  BY <1>1, <1>4, <1>6, <1>7 DEF TypeOK, Answer, Settles
<1> QED  BY <1>4, <1>6, <1>8, SettlingStep DEF Answer

LEMMA ScheduleRetryOrExhaustKeeps ==
    ASSUME ScanInv, NEW w \in Workers, ScheduleRetryOrExhaust(w)
    PROVE  ScanInv' /\ KeepsVerdict
<1>1. TypeOK /\ RowIsHonest  BY DEF ScanInv
<1>2. ASSUME row.status = "scanning", row' = [row EXCEPT !.status = "pending", !.safe = "null"]
      PROVE  Settles
  <2>1. row \in Row /\ "pending" \in Statuses  BY <1>1 DEF TypeOK, Statuses
  <2>2. [row EXCEPT !.status = "pending"] \in Row  BY <2>1 DEF Row
  <2>3. row' \in Row  BY <1>2, <2>2 DEF Row
  <2>4. row'.file = row.file /\ row'.status = "pending" /\ row'.safe = "null"
      BY <1>2, <2>1 DEF Row
  <2> QED  BY <1>2, <2>1, <2>3, <2>4 DEF Settles
<1>3. Settles /\ worker' \in [Workers -> Worker]
    BY <1>1, <1>2, ScanWithoutSettles, RowStays, WorkerMoves DEF ScheduleRetryOrExhaust
<1>4. TypeOK'  BY <1>1, <1>3 DEF TypeOK, ScheduleRetryOrExhaust, Settles
<1> QED  BY <1>3, <1>4, SettlingStep DEF ScheduleRetryOrExhaust

LEMMA RethrowKeeps ==
    ASSUME ScanInv, NEW w \in Workers, Rethrow(w) \/ EndJob(w) \/ Die(w)
    PROVE  ScanInv' /\ KeepsVerdict
<1>1. TypeOK  BY DEF ScanInv
<1>2. Settles  BY RowStays, Fails DEF Rethrow, EndJob, Die
<1>3. worker' \in [Workers -> Worker]  BY <1>1, WorkerRests DEF Rethrow, EndJob, Die
<1>4. job' \in [Jobs -> Job]
    BY <1>1, LeftIsJobs, ReleasedIsJobs DEF Rethrow, EndJob, Die, Finished, TypeOK
<1>5. lock' \in BOOLEAN /\ stranded' \in BOOLEAN
    BY <1>1 DEF Rethrow, EndJob, Die, TypeOK
<1>6. /\ said' = said /\ UNCHANGED <<files, delivery, rescans, enabled, pushing>>
    BY DEF Rethrow, EndJob, Die
<1>7. TypeOK'  BY <1>1, <1>2, <1>3, <1>4, <1>5, <1>6 DEF TypeOK, Settles
<1> QED  BY <1>2, <1>6, <1>7, SettlingStep

LEMMA RedeliverKeeps ==
    ASSUME ScanInv, NEW j \in Jobs, Redeliver(j)
    PROVE  ScanInv' /\ KeepsVerdict
<1>1. TypeOK  BY DEF ScanInv
<1>2. [job[j] EXCEPT !.state = "available"] \in Job  BY <1>1 DEF TypeOK, Job
<1>3. [job[j] EXCEPT !.state = "available", !.owner = NoWorker] \in Job  BY <1>2 DEF Job
<1>4. job' = [job EXCEPT ![j] = [job[j] EXCEPT !.state = "available", !.owner = NoWorker]]
    BY <1>1 DEF Redeliver, TypeOK, Job
<1>5. TypeOK'  BY <1>1, <1>3, <1>4 DEF TypeOK, Redeliver
<1> QED  BY <1>5, RowStays, SettlingStep DEF Redeliver

LEMMA PushRescanKeeps ==
    ASSUME ScanInv, PushRescan \/ LosePush \/ LockExpires \/ Configure
    PROVE  ScanInv' /\ KeepsVerdict
<1>1. TypeOK  BY DEF ScanInv
<1>2. job' \in [Jobs -> Job]
    BY <1>1, PushIsJobs DEF PushRescan, LosePush, LockExpires, Configure, TypeOK
<1>3. /\ enabled' \in BOOLEAN /\ lock' \in BOOLEAN /\ pushing' \in BOOLEAN /\ stranded' \in BOOLEAN
    BY <1>1 DEF PushRescan, LosePush, LockExpires, Configure, TypeOK
<1>4. UNCHANGED <<row, files, delivery, worker, rescans, said>>
    BY DEF PushRescan, LosePush, LockExpires, Configure
<1>5. TypeOK'  BY <1>1, <1>2, <1>3, <1>4 DEF TypeOK
<1> QED  BY <1>4, <1>5, RowStays, SettlingStep

-----------------------------------------------------------------------------
(* Administrators.                                                         *)

LEMMA RescanKeeps ==
    ASSUME ScanInv, Rescan
    PROVE  ScanInv' /\ KeepsVerdict
<1>1. TypeOK /\ FilesAreOwned  BY DEF ScanInv
<1>2. row \in Row /\ "pending" \in Statuses  BY <1>1 DEF TypeOK, Statuses
<1>3. [row EXCEPT !.status = "pending"] \in Row  BY <1>2 DEF Row
<1>4. row' \in Row  BY <1>3 DEF Row, Rescan
<1>5. row'.file = row.file /\ row'.status = "pending" /\ row'.safe = "null"
    BY <1>2 DEF Row, Rescan
<1>6. rescans' \in 0 .. RescanBound /\ rescans' # 0
    BY <1>1, TriesAssumption DEF TypeOK, Rescan
<1>7. lock' \in BOOLEAN /\ pushing' \in BOOLEAN /\ stranded' \in BOOLEAN
    BY <1>1 DEF TypeOK, Rescan
<1>8. TypeOK'  BY <1>1, <1>4, <1>6, <1>7 DEF TypeOK, Rescan
<1>9. FilesAreOwned'  BY <1>1, <1>5 DEF FilesAreOwned, Rescan
<1>10. RowIsHonest' /\ StoredFileIsKept' /\ KeepsVerdict
    BY <1>5, <1>6 DEF RowIsHonest, StoredFileIsKept, KeepsVerdict, Rescan
<1> QED  BY <1>8, <1>9, <1>10 DEF ScanInv

(* The file that goes belongs to a row nobody waits for.                   *)
LEMMA PermanentlyDeleteKeeps ==
    ASSUME ScanInv, NEW committed \in BOOLEAN, PermanentlyDelete(committed)
    PROVE  ScanInv' /\ KeepsVerdict
<1>1. TypeOK /\ FilesAreOwned /\ RowIsHonest  BY DEF ScanInv
<1>2. row' \in Row  BY <1>1 DEF TypeOK, Row, PermanentlyDelete
<1>3. row'.file = row.file /\ row'.status = row.status /\ row'.safe = row.safe
    BY <1>1 DEF TypeOK, Row, PermanentlyDelete
<1>4. TypeOK'  BY <1>1, <1>2 DEF TypeOK, PermanentlyDelete
<1>5. FilesAreOwned'  BY <1>1, <1>3 DEF FilesAreOwned, PermanentlyDelete
<1>6. RowIsHonest' /\ StoredFileIsKept' /\ KeepsVerdict
    BY <1>1, <1>3 DEF RowIsHonest, StoredFileIsKept, KeepsVerdict, PermanentlyDelete
<1> QED  BY <1>4, <1>5, <1>6 DEF ScanInv

LEMMA NextKeepsScan ==
    ASSUME ScanInv, Next
    PROVE  ScanInv' /\ KeepsVerdict
<1>1. ASSUME NEW i \in Deliveries,
             \/ \E ok \in BOOLEAN : Store(i, ok)
             \/ Duplicate(i) \/ CommitDelivery(i) \/ FailDelivery(i)
             \/ DispatchScan(i) \/ CrashDelivery(i)
      PROVE  ScanInv' /\ KeepsVerdict
    BY <1>1, StoreKeeps, DuplicateKeeps, CommitDeliveryKeeps, FailDeliveryKeeps, DispatchScanKeeps
<1>2. ASSUME NEW w \in Workers,
             \/ \E j \in Jobs : Pick(w, j)
             \/ \E verdict \in {"clean", "infected", "failed"} : Answer(w, verdict)
             \/ Scan(w) \/ ScheduleRetryOrExhaust(w) \/ Rethrow(w) \/ EndJob(w) \/ Die(w)
      PROVE  ScanInv' /\ KeepsVerdict
    BY <1>2, PickKeeps, AnswerKeeps, ScanKeeps, ScheduleRetryOrExhaustKeeps, RethrowKeeps
<1> QED  BY <1>1, <1>2, RedeliverKeeps, PermanentlyDeleteKeeps, PushRescanKeeps, RescanKeeps DEF Next

-----------------------------------------------------------------------------
(* The invariant of scanning: the row is honest, files are owned and kept. *)
THEOREM ScanInvariant_Holds == Spec => []ScanInv
<1>1. Init => ScanInv  BY InitScan
<1>2. ScanInv /\ UNCHANGED vars => ScanInv'
    BY DEF ScanInv, TypeOK, RowIsHonest, FilesAreOwned, StoredFileIsKept, vars
<1>3. ScanInv /\ [Next]_vars => ScanInv'  BY <1>2, NextKeepsScan
<1> QED  BY <1>1, <1>3, PTL DEF Spec

(* The row, the queue, the workers and the deliveries keep their types.    *)
THEOREM ScanTypeCorrect == Spec => []TypeOK
<1>1. ScanInv => TypeOK  BY DEF ScanInv
<1> QED  BY <1>1, ScanInvariant_Holds, PTL

(* What is downloaded or forwarded was called clean by the scanner.        *)
THEOREM NothingUnscannedIsServed == Spec => []ServedIsScanned
<1>1. ScanInv => ServedIsScanned  BY DEF ScanInv, RowIsHonest, ServedIsScanned, Served
<1> QED  BY <1>1, ScanInvariant_Holds, PTL

(* The cleanup of a failing duplicate never takes the committed file.      *)
THEOREM CommittedFileIsKept == Spec => []StoredFileIsKept
<1>1. ScanInv => StoredFileIsKept  BY DEF ScanInv
<1> QED  BY <1>1, ScanInvariant_Holds, PTL

(* No late answer, second job, timeout or rescan changes a verdict other   *)
(* than failed.                                                            *)
THEOREM VerdictsStand == Spec => VerdictIsFinal
<1>1. ScanInv /\ [Next]_vars => [KeepsVerdict]_vars  BY NextKeepsScan
<1> QED  BY <1>1, ScanInvariant_Holds, PTL DEF Spec, VerdictIsFinal

-----------------------------------------------------------------------------
(* Who will still look at an undecided attachment.  A queue entry counts   *)
(* only while no worker that holds it is past the loading of the row: a    *)
(* worker that is done, or late, takes its entry with it when it leaves.   *)

Waits(j) ==
    /\ job[j].state # "none"
    /\ \A w \in Workers : worker[w].job = j => worker[w].pc = "loaded"

PendingIsExpected ==
    row.status = "pending" /\ ~row.trashed =>
      \/ stranded \/ pushing
      \/ \E i \in Deliveries : delivery[i].pc = "committed"
      \/ \E w \in Workers : worker[w].pc = "thrown"
      \/ \E j \in Jobs : Waits(j)

ScanningIsHeld ==
    row.status = "scanning" /\ ~row.trashed =>
      stranded \/ \E w \in Workers : worker[w].pc = "scanning"

Expected == PendingIsExpected /\ ScanningIsHeld

LEMMA ExpectedIsInHand ==
    ASSUME Expected
    PROVE  UndecidedIsInHand
BY DEF Expected, PendingIsExpected, ScanningIsHeld, Waits, UndecidedIsInHand, InHand, Open

(* A decided or trashed row needs nobody.                                  *)
LEMMA ClosedNeedsNobody ==
    ASSUME ~Open'
    PROVE  Expected'
BY DEF Open, Expected, PendingIsExpected, ScanningIsHeld

LEMMA VerdictCloses ==
    ASSUME TypeOK, NEW status \in Verdicts, NEW safe \in {"null", "yes", "no"}, NEW n \in Nat,
           row' = Terminal(status, safe, n)
    PROVE  Expected'
<1>1. status \in Statuses  BY DEF Statuses
<1>2. CASE Open
  <2>1. row'.status = status  BY <1>2 DEF Terminal, TypeOK, Row
  <2> QED  BY <2>1, ClosedNeedsNobody DEF Open, Verdicts
<1>3. CASE ~Open  BY <1>3, ClosedNeedsNobody DEF Terminal, Open
<1> QED  BY <1>2, <1>3

LEMMA FailureCloses ==
    ASSUME TypeOK, row' = JobFailed
    PROVE  Expected'
BY VerdictCloses DEF JobFailed, TypeOK, Row, Verdicts

(* A job pushed under a fresh identity waits.                              *)
LEMMA PushedWaits ==
    ASSUME TypeOK, Push, UNCHANGED worker
    PROVE  \E j \in Jobs : Waits(j)'
<1>1. PICK j \in Jobs : /\ \A w \in Workers : worker[w].job # j
                        /\ job' = [job EXCEPT ![j] = [Gone EXCEPT !.state = "available"]]
    BY DEF Push
<1>2. job'[j].state = "available"  BY <1>1 DEF TypeOK, Gone
<1> QED  BY <1>1, <1>2 DEF Waits

LEMMA IngestExpects ==
    ASSUME TypeOK, Expected, NEW i \in Deliveries,
           \/ \E ok \in BOOLEAN : Store(i, ok)
           \/ Duplicate(i) \/ CommitDelivery(i) \/ FailDelivery(i)
           \/ DispatchScan(i) \/ CrashDelivery(i)
    PROVE  Expected'
<1>1. CASE (\E ok \in BOOLEAN : Store(i, ok)) \/ Duplicate(i) \/ FailDelivery(i)
  <2>1. /\ UNCHANGED <<row, stranded, pushing, job, worker>>
        /\ delivery[i].pc # "committed"
        /\ \A k \in Deliveries \ {i} : delivery'[k] = delivery[k]
      BY <1>1 DEF Store, Duplicate, FailDelivery, TypeOK
  <2> QED  BY <2>1 DEF Expected, PendingIsExpected, ScanningIsHeld, Waits
<1>2. CASE CommitDelivery(i)
  <2>1. row'.status = "pending"  BY <1>2 DEF CommitDelivery, NoRow
  <2>2. delivery'[i].pc = "committed"  BY <1>2, MovesDelivery DEF CommitDelivery
  <2> QED  BY <2>1, <2>2 DEF Expected, PendingIsExpected, ScanningIsHeld
<1>3. CASE CrashDelivery(i)
  <2>1. /\ UNCHANGED <<row, pushing, job, worker>>
        /\ stranded => stranded'
        /\ delivery[i].pc = "committed" => stranded'
        /\ \A k \in Deliveries \ {i} : delivery'[k] = delivery[k]
      BY <1>3 DEF CrashDelivery, TypeOK
  <2> QED  BY <2>1 DEF Expected, PendingIsExpected, ScanningIsHeld, Waits
<1>4. CASE DispatchScan(i)
  <2>1. CASE row' = Terminal("skipped", "null", row.attempts)
      BY <2>1, VerdictCloses DEF TypeOK, Row, Verdicts
  <2>2. CASE Push /\ UNCHANGED <<row, stranded>>
    <3>1. \E j \in Jobs : Waits(j)'  BY <1>4, <2>2, PushedWaits DEF DispatchScan
    <3> QED  BY <1>4, <2>2, <3>1 DEF DispatchScan, Expected, PendingIsExpected, ScanningIsHeld
  <2>3. CASE stranded'  BY <2>3 DEF Expected, PendingIsExpected, ScanningIsHeld
  <2> QED  BY <1>4, <2>1, <2>2, <2>3 DEF DispatchScan
<1> QED  BY <1>1, <1>2, <1>3, <1>4

(* The row stays, and whoever was going to look at it still is.            *)
LEMMA HopeStays ==
    ASSUME Expected, UNCHANGED <<row, delivery>>,
           stranded => stranded', pushing => pushing' \/ stranded' \/ \E j \in Jobs : Waits(j)',
           \A j \in Jobs : Waits(j) => Waits(j)',
           \A w \in Workers : worker[w].pc = "thrown" =>
             \/ stranded' \/ \E j \in Jobs : Waits(j)'
             \/ worker'[w].pc = "thrown",
           \A w \in Workers : worker[w].pc = "scanning" => stranded' \/ worker'[w].pc = "scanning"
    PROVE  Expected'
<1>1. PendingIsExpected'
  <2>1. CASE row.status = "pending" /\ ~row.trashed
    <3>1. \/ stranded \/ pushing
          \/ \E i \in Deliveries : delivery[i].pc = "committed"
          \/ \E w \in Workers : worker[w].pc = "thrown"
          \/ \E j \in Jobs : Waits(j)
        BY <2>1 DEF Expected, PendingIsExpected
    <3>2. \/ stranded' \/ pushing'
          \/ \E i \in Deliveries : delivery'[i].pc = "committed"
          \/ \E w \in Workers : worker'[w].pc = "thrown"
          \/ \E j \in Jobs : Waits(j)'
        BY <3>1
    <3> QED  BY <3>2 DEF PendingIsExpected
  <2> QED  BY <2>1 DEF PendingIsExpected
<1>2. ScanningIsHeld'  BY DEF Expected, ScanningIsHeld
<1> QED  BY <1>1, <1>2 DEF Expected

LEMMA PickExpects ==
    ASSUME TypeOK, Expected, NEW w \in Workers, NEW j \in Jobs, Pick(w, j)
    PROVE  Expected'
<1>1. CASE row' = JobFailed  BY <1>1, FailureCloses
<1>2. CASE ~Open /\ UNCHANGED row  BY <1>2, ClosedNeedsNobody DEF Open
<1>3. CASE /\ Open /\ UNCHANGED row
           /\ job' = [job EXCEPT ![j] = [state |-> "reserved", tries |-> @.tries + 1, owner |-> w]]
           /\ worker' = [worker EXCEPT ![w] = [pc |-> "loaded", job |-> j,
                                               try |-> job[j].tries + 1,
                                               attempts |-> row.attempts]]
  <2>1. /\ \A v \in Workers \ {w} : worker'[v] = worker[v]
        /\ worker'[w].pc = "loaded" /\ worker[w].pc = "idle"
      BY <1>3 DEF TypeOK, Pick
  <2>2. \A k \in Jobs : job[k].state # "none" => job'[k].state # "none"
      BY <1>3 DEF TypeOK
  <2>3. \A k \in Jobs : Waits(k) => Waits(k)'
      BY <2>1, <2>2 DEF Waits
  <2> QED  BY <1>3, <2>1, <2>3, HopeStays DEF Pick
<1> QED  BY <1>1, <1>2, <1>3 DEF Pick

LEMMA ScanExpects ==
    ASSUME TypeOK, Expected, NEW w \in Workers, Scan(w)
    PROVE  Expected'
<1>1. CASE \E status \in {"skipped", "failed"} : ScanWithout(w, status)
    BY <1>1, VerdictCloses DEF ScanWithout, TypeOK, Worker, Verdicts
<1>2. CASE Claim(w)
  <2>1. row'.status = "scanning"  BY <1>2 DEF Claim, TypeOK, Row
  <2>2. worker'[w].pc = "scanning"  BY <1>2 DEF Claim, TypeOK, Worker
  <2> QED  BY <2>1, <2>2 DEF Expected, PendingIsExpected, ScanningIsHeld
<1>3. CASE /\ row.status # "pending" \/ row.trashed
           /\ worker' = [worker EXCEPT ![w].pc = "ending"]
           /\ UNCHANGED row
  <2>1. \A v \in Workers : worker[v].pc = "scanning" => worker'[v].pc = "scanning"
      BY <1>3 DEF Scan, TypeOK
  <2> QED  BY <1>3, <2>1 DEF Scan, Expected, PendingIsExpected, ScanningIsHeld
<1> QED  BY <1>1, <1>2, <1>3 DEF Scan

LEMMA AnswerExpects ==
    ASSUME TypeOK, Expected, NEW w \in Workers, NEW verdict \in {"clean", "infected", "failed"},
           Answer(w, verdict)
    PROVE  Expected'
<1>1. SafeFlag[verdict] \in {"null", "yes", "no"} /\ verdict \in Verdicts
    BY DEF SafeFlag, Verdicts
<1> QED  BY <1>1, VerdictCloses DEF Answer, TypeOK, Worker

(* A late answer that finds the row pending again leaves it to the others. *)
LEMMA ScheduleRetryOrExhaustExpects ==
    ASSUME TypeOK, Expected, NEW w \in Workers, ScheduleRetryOrExhaust(w)
    PROVE  Expected'
<1>1. CASE ScanWithout(w, "failed")
    BY <1>1, VerdictCloses DEF ScanWithout, TypeOK, Worker, Verdicts
<1>2. CASE /\ row' = [row EXCEPT !.status = "pending", !.safe = "null"]
           /\ worker' = [worker EXCEPT ![w].pc = "thrown"]
  <2>1. row'.status = "pending"  BY <1>2 DEF TypeOK, Row
  <2>2. worker'[w].pc = "thrown"  BY <1>2 DEF TypeOK, Worker
  <2> QED  BY <2>1, <2>2 DEF Expected, PendingIsExpected, ScanningIsHeld
<1>3. CASE /\ row.status # "scanning" \/ row.trashed
           /\ worker' = [worker EXCEPT ![w].pc = "ending"]
           /\ UNCHANGED row
  <2>1. /\ worker[w].pc = "scanning"
        /\ \A v \in Workers \ {w} : worker'[v] = worker[v]
        /\ worker'[w].job = worker[w].job
      BY <1>3 DEF ScheduleRetryOrExhaust, TypeOK, Worker
  <2>2. \A j \in Jobs : Waits(j) => Waits(j)'
      BY <2>1 DEF ScheduleRetryOrExhaust, Waits
  <2>3. \A v \in Workers : worker[v].pc = "thrown" => worker'[v].pc = "thrown"
      BY <2>1
  <2>4. UNCHANGED <<stranded, pushing, delivery>>  BY DEF ScheduleRetryOrExhaust
  <2> QED  BY <1>3, <2>2, <2>3, <2>4 DEF Expected, PendingIsExpected, ScanningIsHeld
<1> QED  BY <1>1, <1>2, <1>3 DEF ScheduleRetryOrExhaust

(* A worker that is past loading takes no waiting entry with it.           *)
LEMMA LeavingKeepsWaiting ==
    ASSUME TypeOK, NEW w \in Workers, worker[w].pc \notin {"idle", "loaded"},
           worker' = [worker EXCEPT ![w] = Idle], NEW left \in Left(w),
           NEW j \in Jobs, Waits(j)
    PROVE  /\ left[j] = job[j]
           /\ \A x \in Workers : worker'[x].job = j => worker'[x].pc = "loaded"
<1>1. worker[w].job # j  BY DEF Waits
<1>2. left[j] = job[j]  BY <1>1 DEF Left, TypeOK
<1>3. \A x \in Workers : worker'[x].job = j => worker'[x] = worker[x]
    BY NamesAssumption DEF TypeOK, Idle
<1> QED  BY <1>2, <1>3 DEF Waits

LEMMA RethrowExpects ==
    ASSUME TypeOK, Expected, NEW w \in Workers, Rethrow(w)
    PROVE  Expected'
<1>1. CASE row' = JobFailed  BY <1>1, FailureCloses
<1>2. CASE Released(w) /\ UNCHANGED row
  <2>1. PICK left \in Left(w), j \in Jobs :
          /\ \A x \in Workers \ {w} : worker[x].job # j
          /\ job' = [left EXCEPT ![j] = [state |-> "available", tries |-> worker[w].try,
                                         owner |-> NoWorker]]
      BY <1>2 DEF Released
  <2>2. worker' = [worker EXCEPT ![w] = Idle] /\ worker[w].pc = "thrown"  BY DEF Rethrow
  <2>3. left \in [Jobs -> Job]  BY LeftIsJobs
  <2>4. Waits(j)'
    <3>1. job'[j].state = "available"  BY <2>1, <2>3
    <3>2. \A x \in Workers : worker'[x].job # j
        BY <2>1, <2>2, NamesAssumption DEF TypeOK, Idle
    <3> QED  BY <3>1, <3>2 DEF Waits
  <2>5. \A v \in Workers : worker[v].pc = "scanning" => worker'[v].pc = "scanning"
      BY <2>2 DEF TypeOK
  <2> QED  BY <1>2, <2>4, <2>5 DEF Rethrow, Expected, PendingIsExpected, ScanningIsHeld
<1> QED  BY <1>1, <1>2 DEF Rethrow

LEMMA EndJobExpects ==
    ASSUME TypeOK, Expected, NEW w \in Workers, EndJob(w)
    PROVE  Expected'
<1>1. worker' = [worker EXCEPT ![w] = Idle] /\ worker[w].pc = "ending"  BY DEF EndJob
<1>2. job' \in Left(w)  BY DEF EndJob, Finished
<1>3. \A j \in Jobs : Waits(j) => Waits(j)'
    BY <1>1, <1>2, LeavingKeepsWaiting DEF Waits
<1>4. \A v \in Workers : worker[v].pc \in {"thrown", "scanning"} => worker'[v] = worker[v]
    BY <1>1 DEF TypeOK
<1> QED  BY <1>3, <1>4, HopeStays DEF EndJob

(* A worker that dies before it claimed leaves its entry; one that dies    *)
(* later is what stranded stands for.                                      *)
LEMMA DieExpects ==
    ASSUME TypeOK, Expected, NEW w \in Workers, Die(w)
    PROVE  Expected'
<1>1. CASE row' = JobFailed  BY <1>1, FailureCloses
<1>2. CASE /\ stranded' = (stranded \/ worker[w].pc \in {"scanning", "thrown"})
           /\ UNCHANGED <<row, lock, job>>
  <2>1. worker' = [worker EXCEPT ![w] = Idle]  BY DEF Die
  <2>2. \A x \in Workers, j \in Jobs : worker'[x].job = j => worker'[x] = worker[x]
      BY <2>1, NamesAssumption DEF TypeOK, Idle
  <2>3. \A j \in Jobs : Waits(j) => Waits(j)'
      BY <1>2, <2>2 DEF Waits
  <2>4. \A v \in Workers : worker[v].pc \in {"thrown", "scanning"} =>
          stranded' \/ worker'[v] = worker[v]
      BY <1>2, <2>1 DEF TypeOK
  <2>5. stranded => stranded'  BY <1>2
  <2> QED  BY <1>2, <2>3, <2>4, <2>5, HopeStays DEF Die
<1> QED  BY <1>1, <1>2 DEF Die

LEMMA OthersExpect ==
    ASSUME TypeOK, Expected,
           \/ \E j \in Jobs : Redeliver(j)
           \/ PushRescan \/ LosePush \/ LockExpires \/ Configure
    PROVE  Expected'
<1>1. ASSUME NEW j \in Jobs, Redeliver(j) PROVE Expected'
  <2>1. \A k \in Jobs : job[k].state # "none" => job'[k].state # "none"
      BY <1>1 DEF Redeliver, TypeOK, Job
  <2>2. \A k \in Jobs : Waits(k) => Waits(k)'
      BY <1>1, <2>1 DEF Redeliver, Waits
  <2> QED  BY <1>1, <2>2, HopeStays DEF Redeliver
<1>2. CASE PushRescan
  <2>1. \E j \in Jobs : Waits(j)'  BY <1>2, PushedWaits DEF PushRescan
  <2> QED  BY <1>2, <2>1 DEF PushRescan, Expected, PendingIsExpected, ScanningIsHeld
<1>3. CASE LosePush
    BY <1>3 DEF LosePush, Expected, PendingIsExpected, ScanningIsHeld
<1>4. CASE LockExpires \/ Configure
  <2>1. \A k \in Jobs : Waits(k) => Waits(k)'
      BY <1>4 DEF LockExpires, Configure, Waits
  <2>2. UNCHANGED <<row, delivery, stranded, pushing, worker>>
      BY <1>4 DEF LockExpires, Configure
  <2> QED  BY <2>1, <2>2, HopeStays
<1> QED  BY <1>1, <1>2, <1>3, <1>4

LEMMA AdminExpects ==
    ASSUME TypeOK, Expected, Rescan \/ \E committed \in BOOLEAN : PermanentlyDelete(committed)
    PROVE  Expected'
<1>1. CASE Rescan
  <2>1. row'.status = "pending"  BY <1>1 DEF Rescan, TypeOK, Row
  <2>2. stranded' \/ pushing'  BY <1>1 DEF Rescan, TypeOK
  <2> QED  BY <2>1, <2>2 DEF Expected, PendingIsExpected, ScanningIsHeld
<1>2. CASE \E committed \in BOOLEAN : PermanentlyDelete(committed)
  <2>1. row'.status \in {"infected", "failed"}
      BY <1>2 DEF PermanentlyDelete, TypeOK, Row
  <2> QED  BY <2>1, ClosedNeedsNobody DEF Open
<1> QED  BY <1>1, <1>2

LEMMA NextExpects ==
    ASSUME TypeOK, Expected, Next
    PROVE  Expected'
<1>1. ASSUME NEW i \in Deliveries,
             \/ \E ok \in BOOLEAN : Store(i, ok)
             \/ Duplicate(i) \/ CommitDelivery(i) \/ FailDelivery(i)
             \/ DispatchScan(i) \/ CrashDelivery(i)
      PROVE  Expected'
    BY <1>1, IngestExpects
<1>2. ASSUME NEW w \in Workers,
             \/ \E j \in Jobs : Pick(w, j)
             \/ \E verdict \in {"clean", "infected", "failed"} : Answer(w, verdict)
             \/ Scan(w) \/ ScheduleRetryOrExhaust(w) \/ Rethrow(w) \/ EndJob(w) \/ Die(w)
      PROVE  Expected'
    BY <1>2, PickExpects, AnswerExpects, ScanExpects, ScheduleRetryOrExhaustExpects,
       RethrowExpects, EndJobExpects, DieExpects
<1> QED  BY <1>1, <1>2, OthersExpect, AdminExpects DEF Next

(* An attachment without a verdict is in somebody's hands, whatever second *)
(* workers, late answers, expired locks and rescans there are, unless a    *)
(* process died at one of the places stranded names.                       *)
THEOREM UndecidedIsExpected == Spec => []UndecidedIsInHand
<1>1. Init => Expected
    BY DEF Init, NoRow, Expected, PendingIsExpected, ScanningIsHeld
<1>2. TypeOK /\ Expected /\ [Next]_vars => Expected'
  <2>1. ASSUME TypeOK, Expected, UNCHANGED vars PROVE Expected'
      BY <2>1, HopeStays DEF vars, Waits
  <2> QED  BY <2>1, NextExpects
<1>3. Expected => UndecidedIsInHand  BY ExpectedIsInHand
<1> QED  BY <1>1, <1>2, <1>3, ScanTypeCorrect, PTL DEF Spec

=============================================================================
