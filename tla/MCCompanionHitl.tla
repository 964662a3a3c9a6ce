-------------------------- MODULE MCCompanionHitl --------------------------
(***************************************************************************)
(* Small instances of CompanionHitl: requests to one recipient, r1 an      *)
(* approval, the others questions (or approvals), and the nodes that send  *)
(* them.                                                                   *)
(***************************************************************************)
EXTENDS CompanionHitl, TLC

CONSTANT r1

MCSymmetry == Permutations(Handlers)

MCOneRecipient == [r \in Requests |-> "human"]
MCMixedKinds == [r \in Requests |-> IF r = r1 THEN "approval" ELSE "question"]
MCApprovals == [r \in Requests |-> "approval"]

(* A node whose questions have the given shape.                             *)
Of(channel, mode, backend, delivery, shape) ==
    [channel |-> channel, mode |-> mode, backend |-> backend, delivery |-> delivery,
     secret |-> TRUE, timeoutMs |-> 0, retries |-> 0, lost |-> {},
     shape |-> [r \in Requests |-> IF KindOf[r] = "approval" THEN "approval" ELSE shape]]

(* Over Postgres: one node retries and has lost a record, one is answered   *)
(* by buttons and chat, one by links.                                       *)
MCPostgresNodes ==
    { [Of("telegram", "waitForReply", "postgres", "buttons", "choice")
           EXCEPT !.lost = Requests \ {r1}, !.retries = 1],
      Of("whatsapp", "dispatchAndExit", "postgres", "buttons", "list"),
      [Of("whatsapp", "waitForReply", "postgres", "textLinks", "form")
           EXCEPT !.lost = Requests \ {r1}] }

(* With one over static data, whose requests expire and whose tombstones    *)
(* outlast the clock, as if it were a table.                                *)
MCBothStores == MCPostgresNodes \cup
    { [Of("discord", "waitForReply", "staticData", "buttons", "choice") EXCEPT !.timeoutMs = 1] }

(* Over static data: records of waiting nodes expire after their wait limit.*)
MCStaticNodes ==
    { Of("telegram", "dispatchAndExit", "staticData", "buttons", "choice"),
      [Of("telegram", "waitForReply", "staticData", "buttons", "open") EXCEPT !.timeoutMs = 1],
      Of("woztell", "dispatchAndExit", "staticData", "buttons", "choice"),
      [Of("woztell", "waitForReply", "staticData", "textLinks", "form") EXCEPT !.timeoutMs = 1],
      [Of("whatsapp", "dispatchAndExit", "staticData", "template", "list") EXCEPT !.secret = FALSE],
      [Of("slack", "waitForReply", "staticData", "buttons", "choice") EXCEPT !.timeoutMs = 1],
      [Of("discord", "waitForReply", "staticData", "buttons", "list") EXCEPT !.lost = {r1}],
      Of("email", "waitForReply", "staticData", "textLinks", "form"),
      [Of("gmail", "waitForReply", "staticData", "textLinks", "open") EXCEPT !.timeoutMs = 2] }

MCWhatsAppNode == {Of("whatsapp", "dispatchAndExit", "postgres", "buttons", "choice")}

(* Time passes where records expire.                                        *)
MCMaxClock == [b \in Backends |-> IF b = "postgres" THEN 0 ELSE 2]

(* Every delivery; the sender of free text is named by the request r1.      *)
MCAll == {d \in Delivery : d.how = "sender" => d.target = r1}

(* Enough of them for every case: duplicates, conflicts, a page opened and  *)
(* not submitted, a chat message that is no answer.                         *)
MCSome == {d \in MCAll :
              /\ d.approval = "deny" => d.how = "request" /\ d.post /\ d.path # "inbound"
              /\ ~d.post => d.approval = "approve"
              /\ d.how = "message" => d.path = "inbound" /\ d.answer # NoKey}

(* Over Postgres the trigger brings denials and chat messages.              *)
MCFew == {d \in MCSome :
             d.path = "trigger" /\ d.how = "request" => d.approval = "deny"}

(* A button or URL, or text that quotes the message.                        *)
MCApprove == {d \in MCAll : d.approval = "approve" /\ d.how # "sender"}
=============================================================================
