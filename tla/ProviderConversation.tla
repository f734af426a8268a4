------------------------ MODULE ProviderConversation ------------------------
(***************************************************************************)
(* What outbound delivery promises about handing a message to the mail     *)
(* provider, with no queue, no workers and no reconcilers: a message is    *)
(* offered, the transport answers or stays silent, and only an answer      *)
(* moves it on.  While an offer is unanswered, or once an acceptance was   *)
(* reported, the message is not offered again; a reported bounce or a      *)
(* reported failure makes it offerable anew.                               *)
(*                                                                         *)
(* It is told from the caller's side.  A reported failure is not a refusal:*)
(* the provider may have taken the message before the connection was lost, *)
(* and the caller offers it again all the same.                            *)
(***************************************************************************)
CONSTANT Messages

VARIABLES
    talk,    \* where the conversation about each message stands
    answer   \* what the transport reported of the offer in flight

Phases == {"unsent", "offering", "accepted", "delivered", "withdrawn"}

ConversationTypeOK ==
    /\ talk \in [Messages -> Phases]
    /\ answer \in [Messages -> {"none", "accepted", "failed"}]

ConversationInit ==
    /\ talk = [m \in Messages |-> "unsent"]
    /\ answer = [m \in Messages |-> "none"]

Offer(m) ==
    /\ talk[m] = "unsent"
    /\ talk' = [talk EXCEPT ![m] = "offering"]
    /\ UNCHANGED answer

Answer(m) ==
    /\ talk[m] = "offering"
    /\ answer[m] = "none"
    /\ \E a \in {"accepted", "failed"} : answer' = [answer EXCEPT ![m] = a]
    /\ UNCHANGED talk

(* The caller writes down what it was told.                                *)
Record(m) ==
    /\ talk[m] = "offering"
    /\ answer[m] # "none"
    /\ talk' = [talk EXCEPT ![m] = IF answer[m] = "accepted" THEN "accepted" ELSE "unsent"]
    /\ answer' = [answer EXCEPT ![m] = "none"]

(* The whole exchange in one transaction, as the provider retry does it.   *)
(* An exchange reported as failed leaves the message unsent.               *)
Exchange(m) ==
    /\ talk[m] = "unsent"
    /\ talk' = [talk EXCEPT ![m] = "accepted"]
    /\ UNCHANGED answer

ProviderReports(m) ==
    /\ talk[m] = "accepted"
    /\ \E phase \in {"delivered", "unsent"} : talk' = [talk EXCEPT ![m] = phase]
    /\ UNCHANGED answer

Withdraw(m) ==
    /\ talk[m] = "unsent"
    /\ talk' = [talk EXCEPT ![m] = "withdrawn"]
    /\ UNCHANGED answer

ConversationStep(m) ==
    \/ Offer(m) \/ Answer(m) \/ Record(m) \/ Exchange(m)
    \/ ProviderReports(m) \/ Withdraw(m)

ConversationSpec ==
    ConversationInit /\ [][\E m \in Messages : ConversationStep(m)]_<<talk, answer>>

=============================================================================
