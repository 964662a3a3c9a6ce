---------------------------- MODULE OnceDecision ----------------------------
(***************************************************************************)
(* What a human-in-the-loop store promises its handlers: every request is  *)
(* a register that is written once.  A handler asks to decide a request    *)
(* with a key.  If the request is undecided the key becomes its decision   *)
(* and the handler is told 'accepted'; if not, it is told 'duplicate' when *)
(* it brings the decision on record and 'conflict' when it brings another. *)
(* A handler may also be refused without touching the register, and one    *)
(* whose key was taken may fail before it is told.  Nothing else changes a *)
(* verdict, a decision or what a handler asked.                            *)
(***************************************************************************)
CONSTANTS Requests, Keys, NoKey, Handlers

VARIABLES decision,  \* the decision of each request
          asked,     \* the request and the key of each handler, once it has asked
          verdict    \* what each handler was told, or that it was not

Init == /\ decision = [r \in Requests |-> NoKey]
        /\ asked = [h \in Handlers |-> <<>>]
        /\ verdict = [h \in Handlers |-> "none"]

Ask(h, r, k) ==
    /\ asked[h] = <<>>
    /\ asked' = [asked EXCEPT ![h] = <<r, k>>]
    /\ UNCHANGED <<decision, verdict>>

Answer(h) ==
    LET r == asked[h][1]
        k == asked[h][2]
    IN  /\ asked[h] # <<>> /\ verdict[h] = "none"
        /\ \/ /\ decision[r] = NoKey
              /\ decision' = [decision EXCEPT ![r] = k]
              /\ verdict' = [verdict EXCEPT ![h] = "accepted"]
           \/ /\ decision[r] # NoKey
              /\ verdict' = [verdict EXCEPT ![h] = IF decision[r] = k THEN "duplicate"
                                                                     ELSE "conflict"]
              /\ UNCHANGED decision
        /\ UNCHANGED asked

Refuse(h) ==
    /\ verdict[h] = "none"
    /\ verdict' = [verdict EXCEPT ![h] = "refused"]
    /\ UNCHANGED <<decision, asked>>

(* The decision stays; whoever asks again is told 'duplicate'.             *)
Lose(h) ==
    /\ verdict[h] = "accepted"
    /\ verdict' = [verdict EXCEPT ![h] = "lost"]
    /\ UNCHANGED <<decision, asked>>

Next == \E h \in Handlers : \/ Answer(h) \/ Refuse(h) \/ Lose(h)
                            \/ \E r \in Requests, k \in Keys : Ask(h, r, k)

Spec == Init /\ [][Next]_<<decision, asked, verdict>>
=============================================================================
