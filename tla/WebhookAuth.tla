----------------------------- MODULE WebhookAuth -----------------------------
(***************************************************************************)
(* Who may answer through the node's webhook (webhook/auth.ts).  A request *)
(* proves what it proves: its user name and password, header or token is   *)
(* absent, wrong, out of date or right, and it may name a responder.       *)
(* Every refusal answers the request and changes nothing.                  *)
(***************************************************************************)
Proofs == {"absent", "wrong", "outOfDate", "right"}
AuthModes == {"none", "basicAuth", "headerAuth", "jwtAuth"}
IdentityModes == {"none", "basicUsername", "headerValue", "jwtClaim"}

\* The credential must be complete, and a header, a user and password or a token right.
AuthenticateBasicAuth(auth, request) == auth.credential /\ request.proof = "right"
AuthenticateHeaderAuth(auth, request) == auth.credential /\ request.proof = "right"
\* The algorithm and the signature must be right, and exp and nbf admit the time.
VerifyJwtToken(request) == request.proof \notin {"wrong", "outOfDate"}
AuthenticateJwtAuth(auth, request) ==
    auth.credential /\ request.proof # "absent" /\ VerifyJwtToken(request)

\* A user name needs basic authentication, a claim needs a token.
ResolveResponderIdentity(auth, request) ==
    CASE auth.identity = "none"          -> TRUE
      [] auth.identity = "basicUsername" -> auth.mode = "basicAuth"
      [] auth.identity = "headerValue"   -> request.named
      [] auth.identity = "jwtClaim"      -> auth.mode = "jwtAuth" /\ request.named

AuthenticateHitlWebhookRequest(auth, request) ==
    IF auth.mode = "none" THEN auth.identity = "none"
    ELSE /\ CASE auth.mode = "basicAuth"  -> AuthenticateBasicAuth(auth, request)
              [] auth.mode = "headerAuth" -> AuthenticateHeaderAuth(auth, request)
              [] auth.mode = "jwtAuth"    -> AuthenticateJwtAuth(auth, request)
         /\ ResolveResponderIdentity(auth, request)
=============================================================================
