------------------------ MODULE RetentionSafety_proofs ------------------------
(***************************************************************************)
(* Retention, for every number of messages and of overlapping passes: a    *)
(* held message keeps its content, and no message is deleted on which a    *)
(* provider may still report.                                              *)
(***************************************************************************)
EXTENDS RetentionProperties, TLAPS

(* A message listed for deletion has ended.  If its owner retries it, it   *)
(* is on its way to a worker, and from there on has an attempt row that    *)
(* no pass prunes: rows age only while no pass runs.                       *)
ListedIsSettled ==
    \A p \in Passes : \A m \in Messages :
      pass[p].pc = "hard" /\ m \in pass[p].todo =>
        row[m].state \in Terminal \cup {"queued", "claimed", "gone"} \/ "young" \in attempts[m]

RInv == TypeOK /\ ListedIsSettled

-----------------------------------------------------------------------------
(* What an owner, a worker or a provider does to the row of a message:     *)
(* one row is saved with another state, no list or attempt row is lost.    *)
LEMMA SaveKeepsRows ==
    ASSUME TypeOK, NEW m \in Messages, NEW changed \in Row, Save(m, changed)
    PROVE  /\ row' \in [Messages -> Row]
           /\ row'[m].state = changed.state
           /\ row'[m].content = changed.content
           /\ \A n \in Messages \ {m} : row'[n] = row[n]
<1>1. [changed EXCEPT !.updated = "young"] \in Row  BY DEF Row, Ages
<1> QED  BY <1>1 DEF TypeOK, Save, Row

(* The state machine of a message, as far as deletion depends on it.       *)
LEMMA OnlyKeepsRows ==
    ASSUME TypeOK, NEW m \in Messages, NEW from, NEW to \in States, Only(m, from, to)
    PROVE  /\ row' \in [Messages -> Row]
           /\ row[m].state \in from /\ row'[m].state = to
           /\ row'[m].content = row[m].content
           /\ \A n \in Messages \ {m} : row'[n] = row[n]
<1>1. [row[m] EXCEPT !.state = to] \in Row  BY DEF TypeOK, Row
<1>2. [row[m] EXCEPT !.state = to].state = to /\ [row[m] EXCEPT !.state = to].content = row[m].content
    BY DEF TypeOK, Row
<1> QED  BY <1>1, <1>2, SaveKeepsRows DEF Only

-----------------------------------------------------------------------------
LEMMA InitRetention ==
    ASSUME Init
    PROVE  RInv
<1>1. NewRow("draft") \in Row /\ NewRow("queued") \in Row
    BY DEF NewRow, Row, States, Ages
<1>2. row \in [Messages -> Row]  BY <1>1 DEF Init
<1>3. TypeOK
    BY <1>2, BoundsAssumption DEF Init, TypeOK, Pass, IdlePass
<1>4. ListedIsSettled  BY DEF Init, ListedIsSettled, IdlePass
<1> QED  BY <1>3, <1>4 DEF RInv

-----------------------------------------------------------------------------
(* Each action keeps the invariant.                                        *)

LEMMA RetryKeeps ==
    ASSUME RInv, NEW m \in Messages, Retry(m)
    PROVE  RInv'
<1>1. TypeOK /\ ListedIsSettled  BY DEF RInv
<1>2. Only(m, {"failed"}, "queued")  BY DEF Retry
<1>3. "queued" \in States  BY DEF States, Terminal
<1>4. /\ row' \in [Messages -> Row]
      /\ row[m].state \in {"failed"} /\ row'[m].state = "queued"
      /\ \A n \in Messages \ {m} : row'[n] = row[n]
    BY <1>1, <1>2, <1>3, OnlyKeepsRows
<1>5. TypeOK'  BY <1>1, <1>4 DEF TypeOK, Retry
<1>6. ListedIsSettled'
    BY <1>1, <1>4 DEF ListedIsSettled, Terminal, Retry
<1> QED  BY <1>5, <1>6 DEF RInv

LEMMA CancelKeeps ==
    ASSUME RInv, NEW m \in Messages, Cancel(m)
    PROVE  RInv'
<1>1. TypeOK /\ ListedIsSettled  BY DEF RInv
<1>2. Only(m, {"scheduled", "queued"}, "cancelled")  BY DEF Cancel
<1>3. "cancelled" \in States  BY DEF States, Terminal
<1>4. /\ row' \in [Messages -> Row]
      /\ row[m].state \in {"scheduled", "queued"} /\ row'[m].state = "cancelled"
      /\ \A n \in Messages \ {m} : row'[n] = row[n]
    BY <1>1, <1>2, <1>3, OnlyKeepsRows
<1>5. TypeOK'  BY <1>1, <1>4 DEF TypeOK, Cancel
<1>6. ListedIsSettled'
    BY <1>1, <1>4 DEF ListedIsSettled, Terminal, Cancel
<1> QED  BY <1>5, <1>6 DEF RInv

LEMMA ClaimMessageKeeps ==
    ASSUME RInv, NEW m \in Messages, ClaimMessage(m)
    PROVE  RInv'
<1>1. TypeOK /\ ListedIsSettled  BY DEF RInv
<1>2. Only(m, {"queued"}, "claimed")  BY DEF ClaimMessage
<1>3. "claimed" \in States  BY DEF States, Terminal
<1>4. /\ row' \in [Messages -> Row]
      /\ row[m].state \in {"queued"} /\ row'[m].state = "claimed"
      /\ \A n \in Messages \ {m} : row'[n] = row[n]
    BY <1>1, <1>2, <1>3, OnlyKeepsRows
<1>5. TypeOK'  BY <1>1, <1>4 DEF TypeOK, ClaimMessage
<1>6. ListedIsSettled'
    BY <1>1, <1>4 DEF ListedIsSettled, Terminal, ClaimMessage
<1> QED  BY <1>5, <1>6 DEF RInv

LEMMA BackToDraftKeeps ==
    ASSUME RInv, NEW m \in Messages, BackToDraft(m)
    PROVE  RInv'
<1>1. TypeOK /\ ListedIsSettled  BY DEF RInv
<1>2. Only(m, {"scheduled"}, "draft")  BY DEF BackToDraft
<1>3. "draft" \in States  BY DEF States, Terminal
<1>4. /\ row' \in [Messages -> Row]
      /\ row[m].state \in {"scheduled"} /\ row'[m].state = "draft"
      /\ \A n \in Messages \ {m} : row'[n] = row[n]
    BY <1>1, <1>2, <1>3, OnlyKeepsRows
<1>5. TypeOK'  BY <1>1, <1>4 DEF TypeOK, BackToDraft
<1>6. ListedIsSettled'
    BY <1>1, <1>4 DEF ListedIsSettled, Terminal, BackToDraft
<1> QED  BY <1>5, <1>6 DEF RInv

LEMMA EndAttemptKeeps ==
    ASSUME RInv, NEW m \in Messages, NEW state \in {"sent", "failed", "queued"}, EndAttempt(m, state)
    PROVE  RInv'
<1>1. TypeOK /\ ListedIsSettled  BY DEF RInv
<1>2. Only(m, {"sending"}, state)  BY DEF EndAttempt
<1>3. state \in States  BY DEF States, Terminal
<1>4. /\ row' \in [Messages -> Row]
      /\ row[m].state \in {"sending"} /\ row'[m].state = state
      /\ \A n \in Messages \ {m} : row'[n] = row[n]
    BY <1>1, <1>2, <1>3, OnlyKeepsRows
<1>5. TypeOK'  BY <1>1, <1>4 DEF TypeOK, EndAttempt
<1>6. ListedIsSettled'
    BY <1>1, <1>4 DEF ListedIsSettled, Terminal, EndAttempt
<1> QED  BY <1>5, <1>6 DEF RInv

LEMMA EditDraftKeeps ==
    ASSUME RInv, NEW m \in Messages, EditDraft(m)
    PROVE  RInv'
<1>1. TypeOK /\ ListedIsSettled  BY DEF RInv
<1> DEFINE changed == [row[m] EXCEPT !.content = "present"]
<1>2. changed \in Row  BY <1>1 DEF TypeOK, Row
<1>3. changed.state = row[m].state  BY <1>1 DEF TypeOK, Row
<1>4. Save(m, changed)  BY DEF EditDraft
<1> HIDE DEF changed
<1>5. /\ row' \in [Messages -> Row] /\ row'[m].state = changed.state
      /\ \A n \in Messages \ {m} : row'[n] = row[n]
    BY <1>1, <1>2, <1>4, SaveKeepsRows
<1>6. TypeOK'  BY <1>1, <1>5 DEF TypeOK, EditDraft
<1>7. ListedIsSettled'
    BY <1>1, <1>3, <1>5 DEF ListedIsSettled, Terminal, EditDraft
<1> QED  BY <1>6, <1>7 DEF RInv

LEMMA DiscardDraftKeeps ==
    ASSUME RInv, NEW m \in Messages, DiscardDraft(m)
    PROVE  RInv'
<1>1. TypeOK /\ ListedIsSettled  BY DEF RInv
<1> DEFINE changed == [row[m] EXCEPT !.discarded = TRUE]
<1>2. changed \in Row  BY <1>1 DEF TypeOK, Row
<1>3. changed.state = row[m].state  BY <1>1 DEF TypeOK, Row
<1>4. Save(m, changed)  BY DEF DiscardDraft
<1> HIDE DEF changed
<1>5. /\ row' \in [Messages -> Row] /\ row'[m].state = changed.state
      /\ \A n \in Messages \ {m} : row'[n] = row[n]
    BY <1>1, <1>2, <1>4, SaveKeepsRows
<1>6. TypeOK'  BY <1>1, <1>5 DEF TypeOK, DiscardDraft
<1>7. ListedIsSettled'
    BY <1>1, <1>3, <1>5 DEF ListedIsSettled, Terminal, DiscardDraft
<1> QED  BY <1>6, <1>7 DEF RInv

LEMMA SetHoldKeeps ==
    ASSUME RInv, NEW m \in Messages, NEW hold \in {"timed", "indefinite"}, SetHold(m, hold)
    PROVE  RInv'
<1>1. TypeOK /\ ListedIsSettled  BY DEF RInv
<1> DEFINE changed == [row[m] EXCEPT !.hold = hold]
<1>2. changed \in Row  BY <1>1 DEF TypeOK, Row
<1>3. changed.state = row[m].state  BY <1>1 DEF TypeOK, Row
<1>4. Save(m, changed)  BY DEF SetHold
<1> HIDE DEF changed
<1>5. /\ row' \in [Messages -> Row] /\ row'[m].state = changed.state
      /\ \A n \in Messages \ {m} : row'[n] = row[n]
    BY <1>1, <1>2, <1>4, SaveKeepsRows
<1>6. TypeOK'  BY <1>1, <1>5 DEF TypeOK, SetHold
<1>7. ListedIsSettled'
    BY <1>1, <1>3, <1>5 DEF ListedIsSettled, Terminal, SetHold
<1> QED  BY <1>6, <1>7 DEF RInv

LEMMA ReleaseHoldKeeps ==
    ASSUME RInv, NEW m \in Messages, ReleaseHold(m)
    PROVE  RInv'
<1>1. TypeOK /\ ListedIsSettled  BY DEF RInv
<1> DEFINE changed == [row[m] EXCEPT !.hold = "none"]
<1>2. changed \in Row  BY <1>1 DEF TypeOK, Row
<1>3. changed.state = row[m].state  BY <1>1 DEF TypeOK, Row
<1>4. Save(m, changed)  BY DEF ReleaseHold
<1> HIDE DEF changed
<1>5. /\ row' \in [Messages -> Row] /\ row'[m].state = changed.state
      /\ \A n \in Messages \ {m} : row'[n] = row[n]
    BY <1>1, <1>2, <1>4, SaveKeepsRows
<1>6. TypeOK'  BY <1>1, <1>5 DEF TypeOK, ReleaseHold
<1>7. ListedIsSettled'
    BY <1>1, <1>3, <1>5 DEF ListedIsSettled, Terminal, ReleaseHold
<1> QED  BY <1>6, <1>7 DEF RInv

LEMMA HideKeeps ==
    ASSUME RInv, NEW m \in Messages, Hide(m)
    PROVE  RInv'
<1>1. TypeOK /\ ListedIsSettled  BY DEF RInv
<1> DEFINE changed == [row[m] EXCEPT !.hidden = TRUE, !.state = IF @ \in {"queued", "scheduled"} THEN "cancelled" ELSE @]
<1>2. changed \in Row
  <2>1. row[m] \in Row  BY <1>1 DEF TypeOK
  <2>2. [row[m] EXCEPT !.hidden = TRUE] \in Row  BY <2>1 DEF Row
  <2>3. "cancelled" \in States  BY DEF States, Terminal
  <2> QED  BY <2>1, <2>2, <2>3 DEF Row
<1>3. changed.state \in {row[m].state, "cancelled"}  BY <1>1 DEF TypeOK, Row
<1>4. Save(m, changed)  BY DEF Hide
<1> HIDE DEF changed
<1>5. /\ row' \in [Messages -> Row] /\ row'[m].state = changed.state
      /\ \A n \in Messages \ {m} : row'[n] = row[n]
    BY <1>1, <1>2, <1>4, SaveKeepsRows
<1>6. TypeOK'  BY <1>1, <1>5 DEF TypeOK, Hide
<1>7. ListedIsSettled'
    BY <1>1, <1>3, <1>5 DEF ListedIsSettled, Terminal, Hide
<1> QED  BY <1>6, <1>7 DEF RInv

LEMMA SubmitKeeps ==
    ASSUME RInv, NEW m \in Messages, NEW state \in {"draft", "scheduled", "queued"}, Submit(m, state)
    PROVE  RInv'
<1>1. TypeOK /\ ListedIsSettled  BY DEF RInv
<1>2. Only(m, {"draft", "scheduled"}, state)  BY DEF Submit, Only
<1>3. state \in States  BY DEF States
<1>4. /\ row' \in [Messages -> Row]
      /\ row[m].state \in {"draft", "scheduled"} /\ row'[m].state = state
      /\ \A n \in Messages \ {m} : row'[n] = row[n]
    BY <1>1, <1>2, <1>3, OnlyKeepsRows
<1>5. TypeOK'  BY <1>1, <1>4 DEF TypeOK, Submit
<1>6. ListedIsSettled'  BY <1>1, <1>4 DEF ListedIsSettled, Terminal, Submit
<1> QED  BY <1>5, <1>6 DEF RInv

LEMMA StartAttemptKeeps ==
    ASSUME RInv, NEW m \in Messages, StartAttempt(m)
    PROVE  RInv'
<1>1. TypeOK /\ ListedIsSettled  BY DEF RInv
<1>2. Only(m, {"claimed"}, "sending")  BY DEF StartAttempt
<1>3. "sending" \in States  BY DEF States
<1>4. /\ row' \in [Messages -> Row]
      /\ \A n \in Messages \ {m} : row'[n] = row[n]
    BY <1>1, <1>2, <1>3, OnlyKeepsRows
<1>5. TypeOK'  BY <1>1, <1>4 DEF TypeOK, StartAttempt, Ages
<1>6. ListedIsSettled'  BY <1>1, <1>4 DEF TypeOK, ListedIsSettled, StartAttempt
<1> QED  BY <1>5, <1>6 DEF RInv

LEMMA ReportKeeps ==
    ASSUME RInv, NEW m \in Messages, Report(m)
    PROVE  RInv'
<1>1. TypeOK /\ ListedIsSettled  BY DEF RInv
<1>2. PICK state \in {"sent", "delivered", "failed"} : Only(m, {row[m].state}, state)
    BY DEF Report
<1>3. state \in States  BY DEF States, Terminal
<1>4. /\ row' \in [Messages -> Row] /\ row'[m].state = state
      /\ \A n \in Messages \ {m} : row'[n] = row[n]
    BY <1>1, <1>2, <1>3, OnlyKeepsRows
<1>5. row[m].state = "sent" \/ row'[m].state \in Terminal
    BY <1>1, <1>4 DEF Report, Only, Save, Terminal, TypeOK, Row
<1>6. TypeOK'  BY <1>1, <1>4, BoundsAssumption DEF TypeOK, Report, Ages
<1>7. ListedIsSettled'  BY <1>1, <1>4, <1>5 DEF ListedIsSettled, Report, Terminal
<1> QED  BY <1>6, <1>7 DEF RInv

LEMMA RepairKeeps ==
    ASSUME RInv, NEW m \in Messages, RepairMissingAttempt(m)
    PROVE  RInv'
<1>1. TypeOK /\ ListedIsSettled  BY DEF RInv
<1>2. faults' \in 0 .. FaultBound
    BY <1>1, BoundsAssumption DEF TypeOK, RepairMissingAttempt
<1>4. TypeOK'  BY <1>1, <1>2 DEF TypeOK, RepairMissingAttempt, Ages
<1>3. ListedIsSettled'  BY <1>1 DEF TypeOK, ListedIsSettled, RepairMissingAttempt
<1> QED  BY <1>3, <1>4 DEF RInv

LEMMA HoldEndsKeeps ==
    ASSUME RInv, NEW m \in Messages, HoldEnds(m)
    PROVE  RInv'
<1>1. TypeOK /\ ListedIsSettled  BY DEF RInv
<1>2. TypeOK'  BY <1>1 DEF TypeOK, HoldEnds, Row
<1>3. ListedIsSettled'  BY <1>1 DEF TypeOK, Row, ListedIsSettled, HoldEnds
<1> QED  BY <1>2, <1>3 DEF RInv

LEMMA TimePassesKeeps ==
    ASSUME RInv, NEW m \in Messages, TimePasses(m)
    PROVE  RInv'
<1>1. TypeOK  BY DEF RInv
<1>2. [row[m] EXCEPT !.created = "old"] \in Row  BY <1>1 DEF TypeOK, Row, Ages
<1>3. [row[m] EXCEPT !.created = "old", !.updated = "old"] \in Row  BY <1>2 DEF Row, Ages
<1>4. TypeOK'  BY <1>1, <1>3 DEF TypeOK, TimePasses, Old, Ages
<1>5. ListedIsSettled'  BY DEF ListedIsSettled, TimePasses, Running
<1> QED  BY <1>4, <1>5 DEF RInv

-----------------------------------------------------------------------------
(* The steps of a pass.                                                    *)

LEMMA EnterKeeps ==
    ASSUME RInv, NEW p \in Passes, NEW category \in Categories, Enter(p, category),
           UNCHANGED <<row, attempts, events>>
    PROVE  pass' \in [Passes -> Pass] /\ ListedIsSettled'
<1>1. TypeOK /\ ListedIsSettled  BY DEF RInv
<1>2. Candidates(category) \subseteq Messages  BY DEF Candidates
<1>3. pass' \in [Passes -> Pass]  BY <1>1, <1>2 DEF TypeOK, Enter, Pass
<1>4. category = "hard" => \A m \in Candidates(category) : row[m].state \in Terminal
    BY DEF Candidates
<1>5. ListedIsSettled'  BY <1>1, <1>4 DEF TypeOK, ListedIsSettled, Enter
<1> QED  BY <1>3, <1>5

LEMMA StartPassKeeps ==
    ASSUME RInv, NEW p \in Passes, StartPass(p)
    PROVE  RInv'
<1>1. pass' \in [Passes -> Pass] /\ ListedIsSettled'
    BY EnterKeeps DEF StartPass, Categories
<1>2. TypeOK'  BY <1>1 DEF RInv, TypeOK, StartPass
<1> QED  BY <1>1, <1>2 DEF RInv

LEMMA NextCategoryKeeps ==
    ASSUME RInv, NEW p \in Passes, NextCategory(p)
    PROVE  RInv'
<1>1. After[pass[p].pc] \in Categories
    BY DEF RInv, TypeOK, Pass, Categories, After, NextCategory
<1>2. pass' \in [Passes -> Pass] /\ ListedIsSettled'
    BY <1>1, EnterKeeps DEF NextCategory
<1>3. TypeOK'  BY <1>2 DEF RInv, TypeOK, NextCategory
<1> QED  BY <1>2, <1>3 DEF RInv

(* Steps that only shorten or clear the list of a pass.                    *)
LEMMA EndPassKeeps ==
    ASSUME RInv, NEW p \in Passes, EndPass(p) \/ KillPass(p)
    PROVE  RInv'
<1>1. IdlePass \in Pass  BY DEF IdlePass, Pass
<1>2. TypeOK'
    BY <1>1, BoundsAssumption DEF RInv, TypeOK, EndPass, KillPass
<1>3. ListedIsSettled'
    BY DEF RInv, TypeOK, ListedIsSettled, EndPass, KillPass, IdlePass
<1> QED  BY <1>2, <1>3 DEF RInv

(* A message that is handled leaves the list of its pass.                  *)
LEMMA HandleShortens ==
    ASSUME TypeOK, NEW p \in Passes, NEW m \in Messages, NEW category \in Categories,
           Handle(p, m, category)
    PROVE  /\ pass' \in [Passes -> Pass]
           /\ \A q \in Passes : pass'[q].pc = pass[q].pc /\ pass'[q].todo \subseteq pass[q].todo
BY DEF TypeOK, Handle, Pass

LEMMA ClearShortens ==
    ASSUME TypeOK, NEW p \in Passes, pass' = [pass EXCEPT ![p].todo = {}]
    PROVE  /\ pass' \in [Passes -> Pass]
           /\ \A q \in Passes : pass'[q].pc = pass[q].pc /\ pass'[q].todo \subseteq pass[q].todo
BY DEF TypeOK, Pass

(* Handling keeps the invariant if the row is untouched, erased or gone.   *)
LEMMA HandledKeeps ==
    ASSUME RInv, NEW m \in Messages, pass' \in [Passes -> Pass],
           \A q \in Passes : pass'[q].pc = pass[q].pc /\ pass'[q].todo \subseteq pass[q].todo,
           row' \in [Messages -> Row],
           \A n \in Messages \ {m} : row'[n] = row[n],
           row'[m].state \in {row[m].state, "gone"},
           UNCHANGED <<attempts, events, lock, reports, faults>>
    PROVE  RInv'
<1>1. TypeOK'  BY DEF RInv, TypeOK
<1>2. ListedIsSettled'
  <2> SUFFICES ASSUME NEW q \in Passes, NEW n \in Messages,
                      pass'[q].pc = "hard", n \in pass'[q].todo
               PROVE  \/ row'[n].state \in Terminal \cup {"queued", "claimed", "gone"}
                      \/ "young" \in attempts'[n]
    BY DEF ListedIsSettled
  <2>1. pass[q].pc = "hard" /\ n \in pass[q].todo  OBVIOUS
  <2>2. row'[n].state \in {row[n].state, "gone"}  OBVIOUS
  <2> QED  BY <2>1, <2>2 DEF RInv, ListedIsSettled
<1> QED  BY <1>1, <1>2 DEF RInv

LEMMA PruneDraftKeeps ==
    ASSUME RInv, NEW p \in Passes, NEW m \in Messages, PruneDraft(p, m)
    PROVE  RInv'
<1>1. TypeOK  BY DEF RInv
<1>2. Erased(m) \in Row /\ Erased(m).state = row[m].state
    BY <1>1 DEF TypeOK, Erased, Row
<1> DEFINE changed == [Erased(m) EXCEPT !.discarded = TRUE]
<1>3. changed \in Row /\ changed.state = row[m].state  BY <1>2 DEF Row
<1>4. Save(m, changed) \/ UNCHANGED row  BY DEF PruneDraft
<1> HIDE DEF changed
<1>5. /\ row' \in [Messages -> Row] /\ row'[m].state = row[m].state
      /\ \A n \in Messages \ {m} : row'[n] = row[n]
    BY <1>1, <1>3, <1>4, SaveKeepsRows DEF TypeOK
<1>6. Handle(p, m, "drafts") /\ UNCHANGED <<attempts, events, lock, reports, faults>>
    BY DEF PruneDraft
<1> QED  BY <1>1, <1>5, <1>6, HandleShortens, HandledKeeps DEF Categories

LEMMA RedactOneKeeps ==
    ASSUME RInv, NEW p \in Passes, NEW m \in Messages, RedactOne(p, m)
    PROVE  RInv'
<1>1. TypeOK  BY DEF RInv
<1>2. Erased(m) \in Row /\ Erased(m).state = row[m].state
    BY <1>1 DEF TypeOK, Erased, Row
<1>3. Save(m, Erased(m)) \/ UNCHANGED row  BY DEF RedactOne
<1>4. /\ row' \in [Messages -> Row] /\ row'[m].state = row[m].state
      /\ \A n \in Messages \ {m} : row'[n] = row[n]
    BY <1>1, <1>2, <1>3, SaveKeepsRows DEF TypeOK
<1>5. Handle(p, m, "content") /\ UNCHANGED <<attempts, events, lock, reports, faults>>
    BY DEF RedactOne
<1> QED  BY <1>1, <1>4, <1>5, HandleShortens, HandledKeeps DEF Categories

LEMMA HardDeleteOneKeeps ==
    ASSUME RInv, NEW p \in Passes, NEW m \in Messages, HardDeleteOne(p, m)
    PROVE  RInv'
<1>1. TypeOK  BY DEF RInv
<1> DEFINE changed == [row[m] EXCEPT !.state = "gone"]
<1>2. changed \in Row /\ changed.state = "gone"  BY <1>1 DEF TypeOK, Row, States
<1>3. Save(m, changed) \/ UNCHANGED row  BY DEF HardDeleteOne
<1> HIDE DEF changed
<1>4. /\ row' \in [Messages -> Row] /\ row'[m].state \in {row[m].state, "gone"}
      /\ \A n \in Messages \ {m} : row'[n] = row[n]
    BY <1>1, <1>2, <1>3, SaveKeepsRows DEF TypeOK
<1>5. Handle(p, m, "hard") /\ UNCHANGED <<attempts, events, lock, reports, faults>>
    BY DEF HardDeleteOne
<1> QED  BY <1>1, <1>4, <1>5, HandleShortens, HandledKeeps DEF Categories

(* The statement on attempt rows takes old ones only.                      *)
LEMMA PruneRowsKeeps ==
    ASSUME RInv, NEW p \in Passes, PruneDeliveryAttempts(p) \/ PruneProviderEvents(p)
    PROVE  RInv'
<1>1. TypeOK /\ ListedIsSettled  BY DEF RInv
<1>2. pass' = [pass EXCEPT ![p].todo = {}]  BY DEF PruneDeliveryAttempts, PruneProviderEvents
<1>3. /\ pass' \in [Passes -> Pass]
      /\ \A q \in Passes : pass'[q].pc = pass[q].pc /\ pass'[q].todo \subseteq pass[q].todo
    BY <1>1, <1>2, ClearShortens
<1>4. /\ attempts' \in [Messages -> SUBSET Ages] /\ events' \in [Messages -> SUBSET Ages]
      /\ \A m \in Messages : "young" \in attempts[m] => "young" \in attempts'[m]
      /\ UNCHANGED <<row, lock, reports, faults>>
    BY <1>1 DEF TypeOK, PruneDeliveryAttempts, PruneProviderEvents
<1>5. TypeOK'  BY <1>1, <1>3, <1>4 DEF TypeOK
<1>6. ListedIsSettled'  BY <1>1, <1>3, <1>4 DEF ListedIsSettled
<1> QED  BY <1>5, <1>6 DEF RInv

LEMMA SkipKeeps ==
    ASSUME RInv, NEW p \in Passes, Skip(p)
    PROVE  RInv'
<1>1. TypeOK /\ ListedIsSettled  BY DEF RInv
<1>2. /\ pass' \in [Passes -> Pass]
      /\ \A q \in Passes : pass'[q].pc = pass[q].pc /\ pass'[q].todo \subseteq pass[q].todo
  <2>1. CASE \E m \in Messages, category \in {"content", "hard"} : Handle(p, m, category)
      BY <1>1, <2>1, HandleShortens DEF Categories
  <2>2. CASE pass' = [pass EXCEPT ![p].todo = {}]  BY <1>1, <2>2, ClearShortens
  <2> QED  BY <2>1, <2>2 DEF Skip
<1>3. TypeOK'  BY <1>1, <1>2, BoundsAssumption DEF TypeOK, Skip
<1>4. ListedIsSettled'  BY <1>1, <1>2 DEF ListedIsSettled, Skip
<1> QED  BY <1>3, <1>4 DEF RInv

LEMMA LockExpiresKeeps ==
    ASSUME RInv, LockExpires
    PROVE  RInv'
<1>1. TypeOK'  BY BoundsAssumption DEF RInv, TypeOK, LockExpires
<1>2. ListedIsSettled'  BY DEF RInv, ListedIsSettled, LockExpires
<1> QED  BY <1>1, <1>2 DEF RInv

LEMMA NextKeepsRetention ==
    ASSUME RInv, [Next]_vars
    PROVE  RInv'
<1>1. CASE UNCHANGED vars
    BY <1>1 DEF RInv, TypeOK, ListedIsSettled, vars
<1>2. ASSUME NEW m \in Messages,
             \/ EditDraft(m) \/ DiscardDraft(m) \/ BackToDraft(m) \/ Retry(m) \/ Cancel(m) \/ Hide(m)
             \/ \E state \in {"draft", "scheduled", "queued"} : Submit(m, state)
             \/ ClaimMessage(m) \/ StartAttempt(m) \/ Report(m) \/ RepairMissingAttempt(m)
             \/ \E state \in {"sent", "failed", "queued"} : EndAttempt(m, state)
             \/ \E hold \in {"timed", "indefinite"} : SetHold(m, hold)
             \/ ReleaseHold(m) \/ HoldEnds(m) \/ TimePasses(m)
      PROVE  RInv'
    BY <1>2, EditDraftKeeps, DiscardDraftKeeps, BackToDraftKeeps, RetryKeeps, CancelKeeps, HideKeeps,
       SubmitKeeps, ClaimMessageKeeps, StartAttemptKeeps, ReportKeeps, RepairKeeps, EndAttemptKeeps, SetHoldKeeps,
       ReleaseHoldKeeps, HoldEndsKeeps, TimePassesKeeps
<1>3. ASSUME NEW p \in Passes, StartPass(p) \/ RunOn(p) \/ Skip(p) \/ KillPass(p)
      PROVE  RInv'
    BY <1>3, StartPassKeeps, NextCategoryKeeps, EndPassKeeps, PruneRowsKeeps, PruneDraftKeeps,
       RedactOneKeeps, HardDeleteOneKeeps, SkipKeeps DEF RunOn
<1> QED  BY <1>1, <1>2, <1>3, LockExpiresKeeps DEF Next

-----------------------------------------------------------------------------
(* The invariant of retention holds: what is listed for deletion has ended *)
(* or is protected by an attempt row.                                      *)
THEOREM RetentionInvariant_Holds == Spec => []RInv
<1>1. Init => RInv  BY InitRetention
<1>2. RInv /\ [Next]_vars => RInv'  BY NextKeepsRetention
<1> QED  BY <1>1, <1>2, PTL DEF Spec

(* Every row, list and counter of retention keeps its type.                *)
THEOREM RetentionTypeCorrect == Spec => []TypeOK
<1>1. RInv => TypeOK  BY DEF RInv
<1> QED  BY <1>1, RetentionInvariant_Holds, PTL

(* Content is erased, and a message deleted, by three steps of a pass      *)
(* only, each of which asks for the hold under the lock of the row.        *)
LEMMA OtherStepsKeep ==
    ASSUME TypeOK, NEW m \in Messages,
           \/ EditDraft(m) \/ DiscardDraft(m) \/ BackToDraft(m) \/ Retry(m) \/ Cancel(m) \/ Hide(m)
           \/ \E state \in {"draft", "scheduled", "queued"} : Submit(m, state)
           \/ ClaimMessage(m) \/ StartAttempt(m) \/ Report(m) \/ RepairMissingAttempt(m)
           \/ \E state \in {"sent", "failed", "queued"} : EndAttempt(m, state)
           \/ \E hold \in {"timed", "indefinite"} : SetHold(m, hold)
           \/ ReleaseHold(m) \/ HoldEnds(m) \/ TimePasses(m)
    PROVE  \A n \in Messages :
             /\ row[n].content = "present" => row'[n].content = "present"
             /\ Exists(n) => row'[n].state # "gone"
<1>1. row[m] \in Row  BY DEF TypeOK
<1>2. CASE \E from \in SUBSET States, to \in States \ {"gone"} : Only(m, from, to)
    BY <1>2, OnlyKeepsRows DEF Exists
<1>3. ASSUME NEW changed \in Row, Save(m, changed),
             changed.state = "gone" => row[m].state = "gone",
             row[m].content = "present" => changed.content = "present"
      PROVE  \A n \in Messages :
               /\ row[n].content = "present" => row'[n].content = "present"
               /\ Exists(n) => row'[n].state # "gone"
    BY <1>3, SaveKeepsRows DEF Exists
<1>4. CASE EditDraft(m) \/ DiscardDraft(m) \/ (\E hold \in {"timed", "indefinite"} : SetHold(m, hold))
           \/ ReleaseHold(m)
  <2>1. PICK changed \in {[row[m] EXCEPT !.content = "present"], [row[m] EXCEPT !.discarded = TRUE],
                          [row[m] EXCEPT !.hold = "timed"], [row[m] EXCEPT !.hold = "indefinite"],
                          [row[m] EXCEPT !.hold = "none"]} : Save(m, changed)
      BY <1>4 DEF EditDraft, DiscardDraft, SetHold, ReleaseHold
  <2>2. changed \in Row /\ changed.state = row[m].state
        /\ (row[m].content = "present" => changed.content = "present")
      BY <1>1 DEF Row
  <2> QED  BY <1>3, <2>1, <2>2
<1>9. CASE Hide(m)
  <2> DEFINE changed == [row[m] EXCEPT !.hidden = TRUE,
                           !.state = IF @ \in {"queued", "scheduled"} THEN "cancelled" ELSE @]
  <2>1. [row[m] EXCEPT !.hidden = TRUE] \in Row /\ "cancelled" \in States
      BY <1>1 DEF Row, States, Terminal
  <2>2. changed \in Row  BY <1>1, <2>1 DEF Row
  <2>3. changed.state \in {row[m].state, "cancelled"} /\ changed.content = row[m].content
      BY <1>1 DEF Row
  <2>4. Save(m, changed)  BY <1>9 DEF Hide
  <2> HIDE DEF changed
  <2> QED  BY <1>3, <2>2, <2>3, <2>4
<1>10. CASE HoldEnds(m)
    BY <1>1, <1>10 DEF TypeOK, Row, Exists, HoldEnds
<1>5. CASE TimePasses(m)
    BY <1>1, <1>5 DEF TypeOK, Row, Exists, TimePasses
<1>6. CASE BackToDraft(m) \/ Retry(m) \/ Cancel(m) \/ ClaimMessage(m) \/ StartAttempt(m)
    <2>1. \E from \in SUBSET States, to \in States \ {"gone"} : Only(m, from, to)
        BY <1>6 DEF BackToDraft, Retry, Cancel, ClaimMessage, StartAttempt, States, Terminal
    <2> QED  BY <1>2, <2>1
<1>7. CASE \/ \E state \in {"draft", "scheduled", "queued"} : Submit(m, state)
           \/ \E state \in {"sent", "failed", "queued"} : EndAttempt(m, state)
    <2>1. \E from \in SUBSET States, to \in States \ {"gone"} : Only(m, from, to)
        BY <1>7 DEF Submit, EndAttempt, States, Terminal
    <2> QED  BY <1>2, <2>1
<1>8. CASE Report(m)
    <2>1. PICK to \in {"sent", "delivered", "failed"} : Only(m, {row[m].state}, to)
        BY <1>8 DEF Report
    <2>2. to \in States \ {"gone"} /\ {row[m].state} \in SUBSET States
        BY <1>1 DEF States, Terminal, Row
    <2> QED  BY <1>2, <2>1, <2>2
<1>11. CASE RepairMissingAttempt(m)
    BY <1>11 DEF RepairMissingAttempt, Exists
<1> QED  BY <1>4, <1>5, <1>6, <1>7, <1>8, <1>9, <1>10, <1>11

(* No pass erases or deletes a message under a hold, even a hold that was  *)
(* set after the pass had listed the message.                              *)
THEOREM HeldIsKept == Spec => HoldKeepsContent
<1>1. RInv /\ [Next]_vars => [HeldKeepsContent]_vars
  <2> SUFFICES ASSUME RInv, Next, NEW n \in Messages, Held(n)
               PROVE  /\ row[n].content = "present" => row'[n].content = "present"
                      /\ Exists(n) => row'[n].state # "gone"
      BY DEF HeldKeepsContent
  <2>1. TypeOK  BY DEF RInv
  <2>2. CASE UNCHANGED row  BY <2>2 DEF Exists
  <2>3. ASSUME NEW p \in Passes, NEW m \in Messages,
               PruneDraft(p, m) \/ RedactOne(p, m) \/ HardDeleteOne(p, m)
        PROVE  row'[n] = row[n]
      BY <2>1, <2>3 DEF TypeOK, PruneDraft, RedactOne, HardDeleteOne, Save
  <2>4. ASSUME NEW p \in Passes, StartPass(p) \/ RunOn(p) \/ Skip(p) \/ KillPass(p)
        PROVE  row'[n] = row[n]
      BY <2>3, <2>4 DEF StartPass, RunOn, NextCategory, EndPass, PruneDeliveryAttempts,
         PruneProviderEvents, Skip, KillPass
  <2>5. CASE LockExpires  BY <2>2, <2>5 DEF LockExpires
  <2> QED  BY <2>1, <2>4, <2>5, OtherStepsKeep DEF Next, Exists
<1> QED  BY <1>1, RetentionInvariant_Holds, PTL DEF Spec, HoldKeepsContent

(* What is deleted is hidden, erased and without rows of its own, and is   *)
(* not what a provider may still report on, however late it was retried.   *)
THEOREM ReportableStays == Spec => ReportableIsKept
<1>1. RInv /\ [Next]_vars => [KeepsReportable]_vars
  <2> SUFFICES ASSUME RInv, Next, NEW n \in Messages, Exists(n), row'[n].state = "gone"
               PROVE  /\ row[n].hidden /\ row[n].stamp
                      /\ attempts[n] = {} /\ events[n] = {}
                      /\ row[n].state \notin {"draft", "scheduled", "sending", "sent"}
      BY DEF KeepsReportable
  <2>1. TypeOK /\ ListedIsSettled  BY DEF RInv
  <2>2. ASSUME NEW p \in Passes, NEW m \in Messages, PruneDraft(p, m) \/ RedactOne(p, m)
        PROVE  row'[n].state = row[n].state
    <3>1. Erased(m) \in Row /\ Erased(m).state = row[m].state
        BY <2>1 DEF TypeOK, Erased, Row
    <3>2. /\ [Erased(m) EXCEPT !.discarded = TRUE] \in Row
          /\ [Erased(m) EXCEPT !.discarded = TRUE].state = row[m].state
        BY <3>1 DEF Row
    <3>3. PICK changed \in {Erased(m), [Erased(m) EXCEPT !.discarded = TRUE]} :
            Save(m, changed) \/ UNCHANGED row
        BY <2>2 DEF PruneDraft, RedactOne
    <3> QED  BY <2>1, <3>1, <3>2, <3>3, SaveKeepsRows
  <2>3. PICK p \in Passes, m \in Messages : HardDeleteOne(p, m)
    <3>1. ASSUME NEW p \in Passes,
                 \/ StartPass(p) \/ Skip(p) \/ KillPass(p) \/ NextCategory(p) \/ EndPass(p)
                 \/ PruneDeliveryAttempts(p) \/ PruneProviderEvents(p)
          PROVE  FALSE
        BY <3>1 DEF Exists, StartPass, NextCategory, EndPass, PruneDeliveryAttempts,
           PruneProviderEvents, Skip, KillPass
    <3>2. ~LockExpires  BY DEF LockExpires, Exists
    <3> QED  BY <2>1, <2>2, <3>1, <3>2, OtherStepsKeep DEF Next, RunOn, Exists
  <2>4. n = m /\ Save(m, [row[m] EXCEPT !.state = "gone"])
      BY <2>1, <2>3 DEF TypeOK, HardDeleteOne, Save, Exists
  <2>5. /\ row[n].hidden /\ row[n].stamp /\ attempts[n] = {} /\ events[n] = {}
        /\ pass[p].pc = "hard" /\ n \in pass[p].todo
      BY <2>3, <2>4 DEF HardDeleteOne, Handle, Exists
  <2> QED  BY <2>1, <2>5 DEF ListedIsSettled, Exists, Terminal
<1> QED  BY <1>1, RetentionInvariant_Holds, PTL DEF Spec, ReportableIsKept

=============================================================================
