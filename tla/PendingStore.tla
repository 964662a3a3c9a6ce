---------------------------- MODULE PendingStore ----------------------------
(***************************************************************************)
(* The records of pending human-in-the-loop requests that the channel      *)
(* nodes (WhatsApp, Telegram, Woztell, Slack, Discord, Email, Gmail) keep, *)
(* and the two stores that hold them: workflow static data                 *)
(* (ClaudeAgentChannelShared/core/pendingStore.ts, synchronous, with       *)
(* expiry) and a Postgres table (pendingStorePostgres.ts, one SQL          *)
(* statement at a time, without expiry).  This module has no variables: an *)
(* operator maps a store to the store after one call or one statement.     *)
(***************************************************************************)
EXTENDS Integers

CONSTANTS Requests,          \* request ids
          Answers,           \* answers to a question, as decision keys
          RecipientOf,       \* who a request is sent to
          KindOf,            \* "approval" or "question"
          DefaultMaxAge,     \* DEFAULT_PENDING_MAX_AGE_MS
          MaxMaxAge,         \* MAX_PENDING_MAX_AGE_MS
          ConsumedMaxAge     \* CONSUMED_MAX_AGE_MS

NoKey == "none"

Approvals == {"approve", "deny"}

(* decisionKey: `approval:approved`, `approval:denied`, or a key that       *)
(* stands for the answers given to a question.                              *)
Keys == Approvals \cup Answers

Kinds == {"approval", "question"}

ASSUME KeysAssumption == Answers \cap (Approvals \cup {NoKey}) = {}
ASSUME KindAssumption == KindOf \in [Requests -> Kinds]
ASSUME AgesAssumption == /\ DefaultMaxAge \in Nat
                         /\ MaxMaxAge \in Nat
                         /\ ConsumedMaxAge \in Nat

(***************************************************************************)
(* PendingCompanionHitlRecord.  Status "none" stands for an absent record. *)
(* messageId tells whether providerMessageId is known (it is the request's *)
(* own message), session whether sessionId is present, so that the reply   *)
(* can name the conversation to resume.                                    *)
(***************************************************************************)
Record == [status : {"none", "pending", "consumed"}, kind : Kinds,
           key : Keys \cup {NoKey}, createdAt : Nat, consumedAt : Nat,
           timeoutMs : Nat, messageId : BOOLEAN, session : BOOLEAN]

NoRecord == [status |-> "none", kind |-> "approval", key |-> NoKey,
             createdAt |-> 0, consumedAt |-> 0,
             timeoutMs |-> 0, messageId |-> FALSE, session |-> FALSE]

(* buildPendingRecordFromRequest at time now, optionally with the provider  *)
(* message id that the send returned.                                       *)
RequestRecord(r, timeoutMs, now, withId) ==
    [NoRecord EXCEPT !.status = "pending", !.kind = KindOf[r],
                     !.createdAt = now, !.timeoutMs = timeoutMs,
                     !.messageId = withId, !.session = TRUE]

(* The consumed form of a record.                                           *)
Consumed(rec, key, now) ==
    [rec EXCEPT !.status = "consumed", !.key = key, !.consumedAt = now]

(***************************************************************************)
(* Workflow static data.  Every call first drops expired records; the      *)
(* calls are synchronous, hence atomic.                                    *)
(***************************************************************************)
Smaller(a, b) == IF a < b THEN a ELSE b

(* Mutant: a consumed record ages like a pending one.                       *)
ExpiredByCreation(rec, now) ==
    /\ rec.status # "none"
    /\ now - rec.createdAt
         > Smaller(IF rec.timeoutMs > 0 THEN rec.timeoutMs ELSE DefaultMaxAge, MaxMaxAge)

(* cleanupExpired, for one record.                                          *)
Expired(rec, now) ==
    \/ /\ rec.status = "consumed"
       /\ now - rec.consumedAt > ConsumedMaxAge
    \/ /\ rec.status = "pending"
       /\ now - rec.createdAt
            > Smaller(IF rec.timeoutMs > 0 THEN rec.timeoutMs ELSE DefaultMaxAge, MaxMaxAge)

CleanupExpired(store, now) ==
    [r \in Requests |-> IF Expired(store[r], now) THEN NoRecord ELSE store[r]]

(* Mutant: savePending replaces a consumed record.                          *)
StaticSaveAlways(store, r, rec, now) == [CleanupExpired(store, now) EXCEPT ![r] = rec]

(* savePending on static data.                                              *)
StaticSave(store, r, rec, now) ==
    LET clean == CleanupExpired(store, now)
    IN  IF clean[r].status = "consumed" THEN clean ELSE [clean EXCEPT ![r] = rec]

(* consumeWithDecision: the status it returns and the store it leaves.      *)
(* fallback is NoRecord when the caller passes none.                        *)
StaticVerdict(store, r, key, fallback, now) ==
    LET rec == CleanupExpired(store, now)[r]
    IN  CASE rec.status = "none" /\ fallback.status = "none" -> "missing"
          [] rec.status = "consumed" -> IF rec.key = key THEN "duplicate" ELSE "conflict"
          [] OTHER -> "accepted"

StaticConsume(store, r, key, fallback, now) ==
    LET clean == CleanupExpired(store, now)
        rec   == clean[r]
    IN  CASE rec.status = "pending" ->
               [clean EXCEPT ![r] = Consumed(rec, key, now)]
          [] rec.status = "none" /\ fallback.status # "none" ->
               [clean EXCEPT ![r] = Consumed(fallback, key, now)]
          [] OTHER -> clean

(***************************************************************************)
(* Postgres, row by row.                                                   *)
(***************************************************************************)

(* Mutant: the upsert lacks its WHERE status = 'pending'.                   *)
UpsertRowAlways(row, rec) ==
    IF row.status = "none" THEN rec ELSE [rec EXCEPT !.createdAt = row.createdAt]

(* The upsert of savePendingHitlRecordPostgres keeps created_at_ms of an    *)
(* existing row and a known provider message id, and leaves a consumed row  *)
(* alone.                                                                   *)
UpsertRow(row, rec) ==
    CASE row.status = "none"     -> rec
      [] row.status = "pending"  -> [rec EXCEPT !.createdAt = row.createdAt,
                                                !.messageId = rec.messageId \/ row.messageId]
      [] row.status = "consumed" -> row

(* Mutant: the UPDATE also asks for the provider message id.                *)
UpdateMatchesWithId(row) == row.status = "pending" /\ row.messageId

(* UPDATE ... SET status = 'consumed' ... WHERE status = 'pending'          *)
UpdateMatches(row) == row.status = "pending"

(* INSERT ... 'consumed' ... ON CONFLICT DO NOTHING                         *)
InsertMatches(row) == row.status = "none"

(* Mutant: the row's own status is passed on.                               *)
RowVerdictStatus(row, key) == IF row.key = key THEN "duplicate" ELSE row.status

(* Mutant: the decision keys are not compared.                              *)
RowVerdictAnyKey(row, key) == "duplicate"

(* What consumePendingHitlRecordWithDecisionPostgres answers for a row it   *)
(* read after its UPDATE (or its INSERT) matched nothing.                   *)
RowVerdict(row, key) ==
    IF row.status = "consumed" /\ row.key = key THEN "duplicate" ELSE "conflict"

(***************************************************************************)
(* Lookups that are not by request id.  Both see pending records only, in  *)
(* either store, and neither drops expired records.                        *)
(***************************************************************************)
ByProviderMessageId(store, r, recipient) ==
    {x \in {r} : /\ store[x].status = "pending"
                 /\ store[x].messageId
                 /\ RecipientOf[x] = recipient}

PendingOf(store, recipient) ==
    {x \in Requests : store[x].status = "pending" /\ RecipientOf[x] = recipient}

LatestByRecipient(store, recipient) ==
    {x \in PendingOf(store, recipient) :
        \A y \in PendingOf(store, recipient) : store[y].createdAt <= store[x].createdAt}
=============================================================================
