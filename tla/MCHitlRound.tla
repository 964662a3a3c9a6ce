----------------------------- MODULE MCHitlRound -----------------------------
(***************************************************************************)
(* Small instances of HitlRound: two Bash calls, a Write whose relative    *)
(* path means another place in the n8n process's directory, an allowed     *)
(* Read; one form of two questions; workflows that differ in what each     *)
(* rule is about.                                                          *)
(***************************************************************************)
EXTENDS HitlRound, TLC

MCCalls == {"b1", "b2", "w1", "r1"}
MCToolOf == [c \in MCCalls |-> CASE c = "w1" -> "Write" [] c = "r1" -> "Read" [] OTHER -> "Bash"]
MCPlacesOf == [c \in MCCalls |-> CASE c = "w1" -> [process |-> {"shared"}, workdir |-> {"outside"}]
                                   [] OTHER    -> [process |-> {}, workdir |-> {}]]
\* A destructive command, a command about an .env file, a secret written.
MCLooksOf == [c \in MCCalls |-> CASE c = "b1" -> {"destructive"} [] c = "b2" -> {"envFile"}
                                  [] c = "w1" -> {"secret"}      [] OTHER    -> {}]

Option(label, action) == [label |-> label, action |-> action]
MCForm == <<[text |-> "which", header |-> "choice", multiSelect |-> FALSE,
             options |-> <<Option(<<"go on">>, "resume"), Option(<<"stop">>, "complete")>>],
            [text |-> "what else", header |-> "extras", multiSelect |-> TRUE,
             options |-> <<Option(<<"tests">>, "none"), Option(<<"docs">>, "complete")>>]>>
MCForms == {MCForm}
MCPicksOf == [f \in MCForms |-> {<< <<1>>, <<1, 2>> >>, << <<2>>, <<2>> >>}]

Bounds(a, c, p) == [asks |-> a, clock |-> c, posts |-> p]
NoAuth == [mode |-> "none", identity |-> "none", credential |-> FALSE]
Off == [on |-> FALSE, rules |-> <<>>, defaultDecision |-> "allow", askFallback |-> "deny"]
Plain ==
    [bounds |-> Bounds(3, 0, 1), allowed |-> {"Read"}, blocked |-> {}, scope |-> "notAllowed", specificTools |-> {}, match |-> "tool",
     sandbox |-> [on |-> FALSE, tools |-> {}, base |-> {}, additional |-> {}], operatorPlaces |-> {},
     filter |-> [on |-> FALSE, rules |-> <<>>, presets |-> {}], blockEnvFiles |-> FALSE,
     hooks |-> {}, perms |-> Off, agt |-> [on |-> FALSE, rows |-> <<>>, defaultAction |-> "allow"],
     timeout |-> 1, stream |-> TRUE, ownsWait |-> TRUE,
     allowOverride |-> FALSE, overrideModes |-> {}, overrides |-> {}, operatorModes |-> {},
     auth |-> NoAuth, host |-> [credential |-> FALSE, queueMode |-> FALSE]]

\* No deadline, approval by input, the .env rules against b2, a preset against w1.
Guarded == [Plain EXCEPT !.bounds = Bounds(2, 2, 1), !.timeout = 0, !.match = "tool+input", !.blockEnvFiles = TRUE,
                         !.filter = [on |-> TRUE, rules |-> <<>>, presets |-> {"secretsPatterns"}],
                         !.auth = [mode |-> "jwtAuth", identity |-> "jwtClaim", credential |-> TRUE]]
\* The operator's places; approval of Bash only; two handlers for Read.
Hook == [handler |-> "command", mode |-> "sync", tools |-> {"Read"}, blocks |-> {"r1"}, fail |-> "continue"]
Sandboxed == [Plain EXCEPT !.hooks = {Hook, [Hook EXCEPT !.handler = "webhook"]}, !.bounds = Bounds(2, 2, 1), !.scope = "bash", !.operatorPlaces = {"work", "shared"},
                           !.sandbox = [on |-> TRUE, tools |-> {"Write"}, base |-> {"work"}, additional |-> {"shared"}]]
\* A companion owns the wait and may bring a permission mode.
Companion == [Plain EXCEPT !.ownsWait = FALSE, !.allowOverride = TRUE, !.stream = FALSE, !.scope = "specific",
                           !.specificTools = {"Bash"}, !.allowed = {},
                           !.overrideModes = {"acceptEdits", "bypassPermissions", "unknown"},
                           !.overrides = {"acceptEdits", "bypassPermissions", "plan", "unknown"},
                           !.operatorModes = {"default", "acceptEdits", "unknown"},
                           !.perms = [Off EXCEPT !.on = TRUE, !.rules =
                               <<[tools |-> {"Bash"}, holds |-> {"b1"}, decision |-> "allow"],
                                 [tools |-> {"Read"}, holds |-> MCCalls, decision |-> "ask"]>>]]
MCSymmetry == Permutations(Slots) \cup Permutations(Handlers)
Condition(field, holds) == [field |-> field, holds |-> holds]
Row(conditions) == [tools |-> {"Bash"}, decision |-> "require_approval", conditions |-> conditions]
Governed(conditions) == [on |-> TRUE, rows |-> <<Row(conditions)>>, defaultAction |-> "allow"]
Broken == [Plain EXCEPT !.sandbox.on = TRUE]
Unsupported == [Plain EXCEPT !.agt = Governed(<<Condition("unsupported", {})>>)]
\* Two requests answer at once, until what they answered is forgotten; AGT governs b2.
Raced == [Plain EXCEPT !.bounds = Bounds(1, 2, 2),
                       !.agt = Governed(<<Condition("missing", {}), Condition("known", {"b2"})>>)]
MCWorkflows == {Plain, Raced, Guarded, Sandboxed, Companion, Broken, Unsupported}
=============================================================================
