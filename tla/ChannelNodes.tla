----------------------------- MODULE ChannelNodes -----------------------------
(***************************************************************************)
(* The seven channel nodes (Telegram, WhatsApp, Woztell, Slack, Discord,   *)
(* Email, Gmail): what a workflow author can set on each, which way to     *)
(* answer the message they send offers for a request, and what the inbound *)
(* deliveries can carry that such a message provokes.  Pure definitions:   *)
(* CompanionHitl picks a node and lets the deliveries arrive.              *)
(***************************************************************************)
EXTENDS PendingStore

(***************************************************************************)
(* What is asked: an approval, or one question with few options, with more *)
(* than three, with none, or several questions.                            *)
(***************************************************************************)
Shapes == {"approval", "choice", "list", "open", "form"}

ShapesOf(r) == IF KindOf[r] = "approval" THEN {"approval"} ELSE Shapes \ {"approval"}

(***************************************************************************)
(* A node: its channel and the settings that its replies depend on.        *)
(* secret tells whether the provider's webhook secret is set, timeoutMs is *)
(* the wait limit, retries what n8n's Retry On Fail allows, shape what the *)
(* requests it is given ask, and lost the requests it sent earlier whose   *)
(* record its store does not hold.                                         *)
(***************************************************************************)
NodeOf(channels, modes, backends, deliveries) ==
    [channel : channels, mode : modes, backend : backends, delivery : deliveries,
     secret : BOOLEAN, timeoutMs : Nat, retries : Nat,
     shape : [Requests -> Shapes], lost : SUBSET Requests]

ReplyModes == {"dispatchAndExit", "waitForReply"}
Backends   == {"staticData", "postgres"}

TelegramNode == NodeOf({"telegram"}, ReplyModes, Backends, {"buttons"})
WhatsAppNode == NodeOf({"whatsapp"}, ReplyModes, Backends,
                       {"buttons", "textLinks", "template", "ctaLinks"})
WoztellNode  == NodeOf({"woztell"}, ReplyModes, Backends, {"buttons", "textLinks", "template"})
SlackNode    == NodeOf({"slack"}, {"waitForReply"}, {"staticData"}, {"buttons"})
DiscordNode  == NodeOf({"discord"}, {"waitForReply"}, {"staticData"}, {"buttons"})
EmailNode    == NodeOf({"email"}, {"waitForReply"}, {"staticData"}, {"textLinks"})
GmailNode    == NodeOf({"gmail"}, {"waitForReply"}, {"staticData"}, {"textLinks"})

(* A wait limit is read only while the execution waits for the reply.       *)
Node ==
    {n \in TelegramNode \cup WhatsAppNode \cup WoztellNode
              \cup SlackNode \cup DiscordNode \cup EmailNode \cup GmailNode :
        /\ \A r \in Requests : n.shape[r] \in ShapesOf(r)
        /\ n.mode = "dispatchAndExit" => n.timeoutMs = 0}

CONSTANT Nodes
ASSUME NodesAssumption == Nodes \subseteq Node

(***************************************************************************)
(* What the sent message offers: a "button" whose tap comes back through   *)
(* the provider, a "link" to the node's own webhook, or only the chat.     *)
(***************************************************************************)
TelegramOffers(shape) == IF shape \in {"approval", "choice"} THEN {"button"} ELSE {"link"}
SlackOffers(shape)    == IF shape \in {"approval", "choice"} THEN {"button"} ELSE {"link"}
DiscordOffers(shape)  == IF shape \in {"approval", "choice"} THEN {"button"} ELSE {"link"}
EmailOffers(shape)    == {"link"}
GmailOffers(shape)    == {"link"}

(* The interactive messages of WhatsApp and Woztell: reply buttons, a list, *)
(* a text with the link of the form, or a text that asks to reply.          *)
InteractiveOffers(shape) ==
    CASE shape \in {"approval", "choice", "list"} -> {"button"}
      [] shape = "form" -> {"link"}
      [] shape = "open" -> {}

WhatsAppOffers(delivery, shape) ==
    IF delivery = "buttons" THEN InteractiveOffers(shape) ELSE {"link"}

WoztellOffers(delivery, shape) ==
    IF delivery = "buttons" THEN InteractiveOffers(shape) ELSE {"link"}

Offers(n, r) ==
    CASE n.channel = "telegram" -> TelegramOffers(n.shape[r])
      [] n.channel = "whatsapp" -> WhatsAppOffers(n.delivery, n.shape[r])
      [] n.channel = "woztell"  -> WoztellOffers(n.delivery, n.shape[r])
      [] n.channel = "slack"    -> SlackOffers(n.shape[r])
      [] n.channel = "discord"  -> DiscordOffers(n.shape[r])
      [] n.channel = "email"    -> EmailOffers(n.shape[r])
      [] n.channel = "gmail"    -> GmailOffers(n.shape[r])

(* Only these transports return the id of the message they sent.            *)
KnowsMessageId(n) == n.channel \in {"telegram", "whatsapp", "woztell"}

(* A token says approve or deny, or names an option of the question.        *)
IsToken(d) == /\ d.how = "request"
              /\ IF KindOf[d.target] = "approval"
                 THEN d.approval # NoKey /\ d.answer = NoKey
                 ELSE d.approval = NoKey /\ d.answer # NoKey

(***************************************************************************)
(* An inbound delivery.  path is the code path it takes: "callback" a      *)
(* button tap reported by Telegram, Slack or Discord, "query" a response   *)
(* URL, "inbound" a WhatsApp callback, "trigger" a WhatsApp or Woztell     *)
(* trigger event.  how is what identifies its request: the request id, the *)
(* quoted provider message, or only the sender.  post tells a submitted    *)
(* form from a URL that was only opened.  A tap always carries a token.    *)
(***************************************************************************)
Delivery == {d \in [path : {"callback", "query", "inbound", "trigger"},
                    how : {"request", "message", "sender"},
                    target : Requests,
                    approval : Approvals \cup {NoKey},
                    answer : Answers \cup {NoKey},
                    post : BOOLEAN] : d.path = "callback" => IsToken(d)}

Paths(n) == CASE n.channel \in {"telegram", "slack", "discord"} -> {"callback", "query"}
              [] n.channel = "whatsapp" -> {"inbound", "query", "trigger"}
              [] n.channel = "woztell"  -> {"query", "trigger"}
              [] n.channel \in {"email", "gmail"} -> {"query"}

(* Telegram, Slack and Discord: a tap on a button of the message.           *)
CallbackDelivery(n, d) ==
    d.post /\ "button" \in Offers(n, d.target)

(* The URL of an approval carries the decision; that of a question carries  *)
(* the questions, and its form the answers.                                 *)
QueryDelivery(n, d) ==
    /\ d.how = "request" /\ "link" \in Offers(n, d.target)
    /\ IF KindOf[d.target] = "approval"
       THEN d.approval # NoKey /\ d.answer = NoKey
       ELSE d.approval = NoKey

(* A chat message quotes another or stands alone.  A text can be taken for  *)
(* an answer and may also read as an approval; other media carry neither.   *)
ChatMessage(d) == /\ d.how \in {"message", "sender"}
                  /\ d.answer = NoKey => d.approval = NoKey

WhatsAppInbound(n, d) ==
    d.post /\ \/ IsToken(d) /\ "button" \in Offers(n, d.target)
              \/ ChatMessage(d)

(* The same through the WhatsApp trigger node.                              *)
WhatsAppTrigger(n, d) == WhatsAppInbound(n, d)

(* Woztell's trigger reports no media, and in an INTERACTIVE_MESSAGE_REPLY  *)
(* the token's approval is not read.                                        *)
WoztellTrigger(n, d) ==
    d.post /\ \/ /\ "button" \in Offers(n, d.target)
                 /\ \/ IsToken(d)
                    \/ /\ d.how = "request" /\ KindOf[d.target] = "approval"
                       /\ d.approval = NoKey /\ d.answer = NoKey
              \/ ChatMessage(d) /\ d.answer # NoKey

WellFormed(n, d) ==
    /\ d.path \in Paths(n)
    /\ d.path = "callback" => CallbackDelivery(n, d)
    /\ d.path = "query"    => QueryDelivery(n, d)
    /\ d.path = "inbound"  => WhatsAppInbound(n, d)
    /\ d.path = "trigger"  => IF n.channel = "woztell" THEN WoztellTrigger(n, d)
                                                      ELSE WhatsAppTrigger(n, d)

(***************************************************************************)
(* Which deliveries a webhook turns away.                                  *)
(***************************************************************************)

(* verifyChannelWebhook: a provider callback is verified against the secret *)
(* of the node; without one it is rejected.                                 *)
Verified(n, d) == d.path \in {"callback", "inbound"} /\ n.secret

(* isUnsignedQueryDecisionAllowed: a response URL is honoured only when n8n *)
(* validated its signature, i.e. not in dispatchAndExit mode.               *)
QueryAllowed(n) == n.mode # "dispatchAndExit"

(* The handler answers 403.  WhatsApp looks for the request first and       *)
(* refuses a response URL afterwards; the trigger needs no verification.    *)
Rejected(n, d) ==
    \/ d.path \in {"callback", "inbound"} /\ ~Verified(n, d)
    \/ d.path = "query" /\ ~QueryAllowed(n) /\ n.channel # "whatsapp"
=============================================================================
