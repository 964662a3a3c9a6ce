--------------------------- MODULE PermissionRules ---------------------------
(***************************************************************************)
(* The rules that decide over a tool call (permissions/): blocked tools,   *)
(* path sandbox, tool permissions, content filter, AGT governance and the  *)
(* scope of interactive approval.                                          *)
(*                                                                         *)
(* A call is a tool with one input.  A pattern (glob, regular expression,  *)
(* condition) is the set of tools or calls it matches, and a path field is *)
(* the set of places it resolves to once decoded, normalised and freed of  *)
(* symbolic links, which depends on the directory it is resolved against.  *)
(***************************************************************************)
EXTENDS Naturals, Sequences
LOCAL INSTANCE FiniteSetsExt

CONSTANTS Calls,     \* tool calls
          ToolOf,    \* the tool of a call
          PlacesOf,  \* PlacesOf[c][cwd]: the places the path fields of c name
          LooksOf    \* what the built-in patterns find in the text of a call

Cwds == {"process", "workdir"}
Tools == {ToolOf[c] : c \in Calls}
Decisions == {"allow", "deny", "ask"}

Looks == {"destructive", "secret", "systemFile", "envFile"}

ASSUME CallsAssumption == /\ DOMAIN ToolOf = Calls /\ DOMAIN PlacesOf = Calls
                          /\ \A c \in Calls : DOMAIN PlacesOf[c] = Cwds
                          /\ LooksOf \in [Calls -> SUBSET Looks]

FILE_OPERATION_TOOLS == {"Write", "Edit", "NotebookEdit"}
BASH_TOOLS == {"Bash"}
PATH_TOOLS == {"Read", "Write", "Edit", "Glob", "Grep"}
-----------------------------------------------------------------------------
(***************************************************************************)
(* Configuration.                                                          *)
(***************************************************************************)
\* Working Directory mode sandboxes to the working directory, Custom Path mode to a place.
ParsePathSandbox(settings) ==
    [on |-> settings.on, tools |-> settings.tools,
     places |-> settings.base \cup settings.additional, operator |-> {}]

\* A custom base path must be given, and Working Directory mode needs a directory.
SandboxParses(settings) == settings.on => settings.base # {}

(***************************************************************************)
(* The built-in rules of the content filter.  Each stands for a group of   *)
(* patterns that look for one kind of text in the calls of some tools.     *)
(***************************************************************************)
BuiltIn(tools, look) ==
    [tools |-> tools, unsafe |-> FALSE, hits |-> {c \in Calls : look \in LooksOf[c]}]

DANGEROUS_COMMANDS_PRESET == BuiltIn(BASH_TOOLS, "destructive")
SECRETS_PATTERNS_PRESET   == BuiltIn({"Write", "Edit"}, "secret")
SYSTEM_FILES_PRESET       == BuiltIn({"Read", "Write", "Edit"}, "systemFile")
ENV_FILE_PROTECTION_RULES == BuiltIn({"Read", "Write", "Edit", "Glob", "Grep", "Bash"}, "envFile")

PRESETS == [dangerousCommands |-> DANGEROUS_COMMANDS_PRESET,
            secretsPatterns   |-> SECRETS_PATTERNS_PRESET,
            systemFiles       |-> SYSTEM_FILES_PRESET]

\* The rules of the .env files come before the workflow's, and switch the filter on.
ParseContentFilter(filter, blockEnvFiles) ==
    [on      |-> blockEnvFiles \/ filter.on,
     rules   |-> (IF blockEnvFiles THEN <<ENV_FILE_PROTECTION_RULES>> ELSE <<>>)
                 \o (IF filter.on THEN filter.rules ELSE <<>>),
     presets |-> IF filter.on THEN filter.presets ELSE {}]

(***************************************************************************)
(* AGT governance.  A row's rule holds for the calls that satisfy all its  *)
(* conditions; one without a left-hand field is dropped, and one that the  *)
(* engine cannot express ends the setup, as does a row without tools.      *)
(* Conditions joined by 'or' are grouped by the engine and are left out.   *)
(***************************************************************************)
CompileFilterCondition(row) ==
    {c \in Calls : \A i \in DOMAIN row.conditions :
                     row.conditions[i].field # "missing" => c \in row.conditions[i].holds}

TranslateRulesToPolicy(rows) ==
    [i \in DOMAIN rows |-> [tools |-> rows[i].tools, decision |-> rows[i].decision,
                            holds |-> CompileFilterCondition(rows[i])]]

AgtCompiles(agt) ==
    agt.on => \A i \in DOMAIN agt.rows :
                 /\ agt.rows[i].tools # {}
                 /\ \A k \in DOMAIN agt.rows[i].conditions :
                       agt.rows[i].conditions[k].field # "unsupported"

\* The operator's places narrow the workflow's sandbox, or are the sandbox if it has none.
ApplyOperatorPathPolicy(sandbox, operator) ==
    CASE operator = {}                 -> sandbox
      [] operator # {} /\ sandbox.on   -> [sandbox EXCEPT !.operator = operator]
      [] OTHER -> [on |-> TRUE, tools |-> PATH_TOOLS, places |-> operator, operator |-> {}]
-----------------------------------------------------------------------------
(***************************************************************************)
(* The layers.                                                             *)
(***************************************************************************)
\* extractPaths: only the path tools have path fields.
ExtractPaths(c, cwd) == IF ToolOf[c] \in PATH_TOOLS THEN PlacesOf[c][cwd] ELSE {}

ValidatePath(place, sandbox) ==
    place \in sandbox.places /\ (sandbox.operator # {} => place \in sandbox.operator)

CheckPathSandbox(c, cwd, sandbox) ==
    ToolOf[c] \in sandbox.tools => \A p \in ExtractPaths(c, cwd) : ValidatePath(p, sandbox)

\* The first rule for the tool whose condition holds decides; 0 if there is none.
FindMatchingRule(c, rules) ==
    LET hits == {i \in DOMAIN rules : ToolOf[c] \in rules[i].tools /\ c \in rules[i].holds}
    IN  IF hits = {} THEN 0 ELSE Min(hits)

EvaluateToolPermission(c, perms) ==
    LET i == FindMatchingRule(c, perms.rules)
    IN  CASE i = 0                                         -> perms.defaultDecision
          [] i # 0 /\ perms.rules[i].decision = "ask"      -> perms.askFallback
          [] OTHER                                         -> perms.rules[i].decision

EvaluatePermissionDecision(config, c, cwd) ==
    CASE ToolOf[c] \in config.blocked -> "deny"
      [] /\ ToolOf[c] \notin config.blocked
         /\ config.sandbox.on /\ ~CheckPathSandbox(c, cwd, config.sandbox) -> "deny"
      [] OTHER -> IF config.perms.on THEN EvaluateToolPermission(c, config.perms) ELSE "allow"

\* checkRule: a rule whose pattern is unsafe to evaluate counts as a match.
CheckRule(c, rule) == ToolOf[c] \in rule.tools /\ (rule.unsafe \/ c \in rule.hits)

\* getAllRules
AllRules(filter) == {filter.rules[i] : i \in DOMAIN filter.rules} \cup {PRESETS[p] : p \in filter.presets}

CheckContentFilter(c, filter) == filter.on /\ \E rule \in AllRules(filter) : CheckRule(c, rule)

\* checkPermissionRules of canUseTool.
CheckPermissionRules(config, c, cwd) ==
    LET core == EvaluatePermissionDecision(config, c, cwd)
    IN  CASE core = "deny" \/ CheckContentFilter(c, config.filter) -> "deny"
          [] core # "deny" /\ ~CheckContentFilter(c, config.filter) /\ config.perms.on -> core
          [] OTHER -> IF ToolOf[c] \in config.allowed THEN "allow" ELSE "ask"

ToolRequiresApproval(config, c) ==
    CASE config.scope = "notAllowed" -> ToolOf[c] \notin config.allowed
      [] config.scope = "fileOps"    -> ToolOf[c] \in FILE_OPERATION_TOOLS
      [] config.scope = "bash"       -> ToolOf[c] \in BASH_TOOLS
      [] config.scope = "specific"   -> ToolOf[c] \in config.specificTools
-----------------------------------------------------------------------------
(***************************************************************************)
(* The hooks the agent runs before every tool call, in this order: the     *)
(* permission hook, if a feature asks for one, AGT governance, whose       *)
(* engine is external and whose ask is a denial, and the user's handlers.  *)
(***************************************************************************)
HasAnyPermissionsEnabled(config) ==
    config.sandbox.on \/ config.filter.on \/ config.perms.on \/ config.blocked # {}

PreToolUseHook(config, c) ==
    HasAnyPermissionsEnabled(config) =>
        /\ EvaluatePermissionDecision(config, c, "workdir") # "deny"
        /\ ~CheckContentFilter(c, config.filter)

\* The engine (external): the first rule for the call, in the order its conflict strategy
\* gives them, or the default action.
AgtEvaluate(config, c) ==
    LET rules == TranslateRulesToPolicy(config.agt.rows)
        i == FindMatchingRule(c, rules)
    IN  IF i = 0 THEN config.agt.defaultAction ELSE rules[i].decision

AgtPreToolUseHook(config, c) == config.agt.on => AgtEvaluate(config, c) = "allow"

(***************************************************************************)
(* A user's handler (hooks/webhookHooks.ts) gets the call over HTTP or on  *)
(* the standard input of a command; it objects to the calls of blocks, if  *)
(* it answers at all.  A command that is killed at its timeout ends with a *)
(* non-zero code and so blocks, whatever the setting for failures says.    *)
(***************************************************************************)
Failures == {"error", "timeout", "invalid"}
Replies(hook, c) == Failures \cup {IF c \in hook.blocks THEN "block" ELSE "continue"}

FailHookHandler(hook) == hook.fail = "continue"
WebhookCallback(hook, reply) ==
    \/ hook.mode = "fireAndForget" \/ reply = "continue"
    \/ reply \in Failures /\ FailHookHandler(hook)
CommandCallback(hook, reply) ==
    \/ hook.mode = "fireAndForget" \/ reply = "continue"
    \/ reply = "invalid" /\ FailHookHandler(hook)

\* Whether the handlers for the tool may all let the call pass.
UserHooksAdmit(config, c) ==
    \A hook \in {h \in config.hooks : ToolOf[c] \in h.tools} : \E reply \in Replies(hook, c) :
        IF hook.handler = "command" THEN CommandCallback(hook, reply) ELSE WebhookCallback(hook, reply)

\* mergeExecutionHookSources
HooksAdmit(config, c) ==
    PreToolUseHook(config, c) /\ AgtPreToolUseHook(config, c) /\ UserHooksAdmit(config, c)
-----------------------------------------------------------------------------
(***************************************************************************)
(* Permission modes and the fingerprints of approved calls.                *)
(***************************************************************************)
PermissionModes == {"default", "acceptEdits", "bypassPermissions", "plan", "dontAsk", "auto"}

\* allowedModes = {} stands for an operator policy that names none.
ClampPermissionMode(mode, allowedModes) ==
    IF mode \in PermissionModes /\ (allowedModes = {} \/ mode \in allowedModes)
    THEN mode ELSE "default"

\* 'tool' approves the tool, 'tool+input' the call with this input.
Fingerprint(config, c) == IF config.match = "tool" THEN <<ToolOf[c]>> ELSE <<ToolOf[c], c>>
Fingerprints == {<<t>> : t \in Tools} \cup {<<ToolOf[c], c>> : c \in Calls}
=============================================================================
