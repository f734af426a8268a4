-------------------------- MODULE RetentionProperties --------------------------
(***************************************************************************)
(* What the retention policy promises about outbound messages.             *)
(***************************************************************************)
EXTENDS OutboundRetention

(* A message that is held before a step is there after it, its content     *)
(* with it.                                                                *)
HeldKeepsContent ==
    \A m \in Messages :
      Held(m) => /\ row[m].content = "present" => row'[m].content = "present"
                 /\ Exists(m) => row'[m].state # "gone"

(* No pass erases or deletes a message under a hold, even a hold that was  *)
(* set after the pass had listed the message.                              *)
HoldKeepsContent == [][HeldKeepsContent]_vars

(* What a step deletes is hidden and erased, leaves no attempt or event    *)
(* row behind, and is not what a provider may still report on.             *)
KeepsReportable ==
    \A m \in Messages :
      Exists(m) /\ row'[m].state = "gone" =>
        /\ row[m].hidden /\ row[m].stamp
        /\ attempts[m] = {} /\ events[m] = {}
        /\ row[m].state \notin {"draft", "scheduled", "sending", "sent"}

(* hardDeleteOne does not ask for the state again; a message that was      *)
(* listed, retried, and handed to a provider is kept all the same.  The    *)
(* policy also excludes messages that are queued or just claimed, which    *)
(* the code does not: no property here asks for that.                      *)
ReportableIsKept == [][KeepsReportable]_vars

(* A hidden message that stays settled and is not held for good is deleted *)
(* in the end, although the repair of attempt rows makes it wait for every *)
(* row that it writes anew to age.                                         *)
HiddenIsDeleted ==
    \A m \in Messages :
      <>[](row[m].hidden /\ row[m].state \in Terminal \cup {"gone"} /\ ~Held(m))
        => <>(row[m].state = "gone")

=============================================================================
