--------------------------- MODULE CompanionTimes ---------------------------
(***************************************************************************)
(* CompanionHitl with the times of the decisions.  The node keeps no such  *)
(* history: a record says when it was consumed, but static data drops it   *)
(* after CONSUMED_MAX_AGE_MS.  What a handler once told its human stays    *)
(* told, so what may become of it is stated against the moment of the      *)
(* decision it was told of, which decidedAt remembers for each handler.    *)
(***************************************************************************)
EXTENDS CompanionHitl

VARIABLE decidedAt  \* when the decision was taken that the handler told its human of

timedVars == <<vars, decidedAt>>

TimedInit == Init /\ decidedAt = [h \in Handlers |-> 0]

Told == {"accepted", "duplicate", "conflict"}

(* A handler that answers has just read or written the record it answers    *)
(* from.                                                                    *)
Remember ==
    decidedAt' = [h \in Handlers |->
                     IF handler'[h].outcome \in Told \ {handler[h].outcome}
                     THEN store'[handler'[h].req].consumedAt ELSE decidedAt[h]]

TimedNext ==
    \/ Tick /\ Remember
    \/ \E r \in Requests : DispatchStep(r) /\ Remember
    \/ \E h \in Handlers : \E d \in Deliveries : Receive(h, d) /\ Remember
    \/ \E h \in Handlers : (HandlerStep(h) \/ HandlerFails(h)) /\ Remember

TimedSpec == TimedInit /\ [][TimedNext]_timedVars

(***************************************************************************)
(* Properties                                                              *)
(***************************************************************************)
Apart(s, t) == s - t > ConsumedMaxAge \/ t - s > ConsumedMaxAge

(* A request is accepted a second time only over static data, and only     *)
(* after its first decision has outlived CONSUMED_MAX_AGE_MS: neither a    *)
(* late save of execute(), nor an expired request, nor a retry brings a    *)
(* decided request back any sooner, and over Postgres nothing ever does.   *)
AcceptancesApart ==
    \A r \in Requests : \A g, h \in Winners(r) :
        g # h => node.backend # "postgres" /\ Apart(decidedAt[g], decidedAt[h])

(* What a handler told its human of a decision, 'accepted', 'duplicate' or *)
(* 'conflict', stays true of the store: over Postgres for ever, over       *)
(* static data until CONSUMED_MAX_AGE_MS after that very decision.         *)
VerdictLasts(h) ==
    LET rec == store[handler[h].req] IN
    (/\ handler[h].outcome \in Told
     /\ node.backend = "postgres" \/ clock - decidedAt[h] <= ConsumedMaxAge) =>
        /\ rec.status = "consumed" /\ rec.consumedAt = decidedAt[h]
        /\ handler[h].outcome = "conflict" <=> rec.key # handler[h].key

VerdictsLast == \A h \in Handlers : VerdictLasts(h)
=============================================================================
