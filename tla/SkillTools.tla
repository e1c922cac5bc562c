----------------------------- MODULE SkillTools -----------------------------
(***************************************************************************)
(* The built-in skills: the tools each one offers, what the sandbox grants *)
(* them, and how a call of each tool can end (src/skills/*/src/lib.rs,     *)
(* orion-skills/src/manifest.rs, sandbox.rs, executor.rs).  A tool's       *)
(* parameters are one of three classes:                                    *)
(*   "good"  complete and acceptable to the tool's own check,              *)
(*   "bad"   refused by that check (a blocked command, a private URL, a    *)
(*           path outside the roots, an invalid package, a personal query),*)
(*   "none"  a required parameter is missing.                              *)
(* What a call ends with is "ok" (ToolOutput::success), "told"             *)
(* (ToolOutput::error), the kind of a StructuredFailure, "err" (a          *)
(* SkillError) or "panic".  A command that ran and failed is "ok": only    *)
(* its data say so.                                                        *)
(***************************************************************************)
EXTENDS Naturals, Sequences

Args == {"good", "bad", "none"}
Kinds == {"denied", "notfound", "auth", "connection", "timeout", "unknown"}
Results == {"ok", "told", "err", "panic"} \union Kinds

\* The network a tool asks for: nothing, every host, or one domain.
Free(net) == [confirm |-> FALSE, net |-> net]
Asks(net) == [confirm |-> TRUE, net |-> net]

ShellTools == [run_command |-> Asks("nothing")]

InstallTools == [detect_environment   |-> Free("nothing"),
                 cooperative_install  |-> Asks("nothing"),
                 generate_host_script |-> Asks("nothing")]

ToolboxTools == [toolbox_exec    |-> Asks("orion-toolbox"),
                 toolbox_install |-> Asks("orion-toolbox"),
                 toolbox_status  |-> Free("orion-toolbox")]

FileTools == [read_file      |-> Free("nothing"),
              write_file     |-> Asks("nothing"),
              list_directory |-> Free("nothing"),
              search_files   |-> Free("nothing")]

HttpTools == [http_get  |-> Free("any"),
              http_post |-> Asks("any")]

EmailTools == [discover_email_service |-> Free("any"),
               fetch_emails           |-> Free("any"),
               send_email             |-> Asks("any"),
               search_emails          |-> Free("any"),
               list_folders           |-> Free("any")]

SearchTools == [web_search |-> Free("api.tavily.com")]

BrowseTools == [web_browse |-> Free("any")]

PerplexityTools == [perplexity_search |-> Free("api.perplexity.ai")]

\* Every tool of an MCP server is registered with the same descriptor.
McpTools == [mcp_tool |-> Asks("any")]

BuiltIns ==
    [http |-> HttpTools, shell |-> ShellTools, install |-> InstallTools,
     toolbox |-> ToolboxTools, files |-> FileTools, search |-> SearchTools,
     browse |-> BrowseTools, perplexity |-> PerplexityTools, email |-> EmailTools]

-----------------------------------------------------------------------------
\* The network permissions of the manifests; everything that is not a
\* Network or Memory table is dropped when a manifest is parsed.
ManifestGrants(skill) ==
    CASE skill \in {"http", "browse", "email"} -> {"any"}
      [] skill = "toolbox" -> {"orion-toolbox"}
      [] skill = "search" -> {"api.tavily.com"}
      [] skill = "perplexity" -> {"api.perplexity.ai"}
      [] skill \in {"shell", "install", "files"} -> {}
      [] OTHER -> {"any"}

\* All tiers keep the network permissions (AgentBuilt loses ShellExecute,
\* which no parsed manifest has).
FilterPermissions(grants, tier) == grants

\* Full covers every host, Domains the hosts it names.
CheckPermission(grants, domain) == "any" \in grants \/ domain \in grants

\* The executor audits a tool's first network permission and nothing else.
Permitted(skill, tier, tool) ==
    tool.net = "nothing" \/ CheckPermission(FilterPermissions(ManifestGrants(skill), tier), tool.net)

\* ResourceLimits::max_cpu_ms of a tier, in seconds.
TimeLimit(tier) == IF tier = "AgentBuilt" THEN 15 ELSE 30

\* A tool's own time limit can only be seen when the executor's is not shorter.
InnerTimeout(tier, seconds) == IF seconds <= TimeLimit(tier) THEN {"timeout"} ELSE {}

-----------------------------------------------------------------------------
\* The tools' own checks of what they are given.
CheckSafety(arg) == arg # "bad"         \* skill-shell: blocked and elevated commands
CheckExec(arg) == arg # "bad"           \* skill-docker-exec: the same lists
ValidateUrl(arg) == arg # "bad"         \* skill-http: private hosts
ValidatePath(arg) == arg # "bad"        \* skill-filesystem: outside the roots
CheckSearchQuery(arg) == arg # "bad"    \* the searching skills: personal queries

\* skill-shell: a missing working directory or a spawn that fails is structured;
\* timeout_secs may ask for less than 30; truncating the output may split a
\* character, which panics.
RunCommand == {"ok", "notfound", "unknown", "panic"} \union InnerTimeout("Verified", 30)
CommandOutcomes(arg) ==
    CASE arg = "none" -> {"err"}
      [] arg # "none" /\ ~ CheckSafety(arg) -> {"denied"}
      [] OTHER -> RunCommand

\* skill-http: any HTTP status is a success; cutting a long body for display may
\* split a character.
RequestOutcomes == {"ok", "connection", "panic"}

\* A refused URL is structured only when the message says "blocked".
HttpOutcomes(arg) ==
    CASE arg = "none" -> {"err"}
      [] arg # "none" /\ ~ ValidateUrl(arg) -> {"denied", "err"}
      [] OTHER -> RequestOutcomes

\* skill-docker-exec: the blocklist first, then one request to the sidecar; every
\* failure of the request is an error, a command that failed is a success.
ExecOutcomes(arg) ==
    CASE arg = "none" -> {"err"}
      [] arg # "none" /\ ~ CheckExec(arg) -> {"told"}
      [] OTHER -> {"ok", "err"}

\* Package names and manager are checked, then the command goes through exec.
ToolboxInstallOutcomes(arg) ==
    CASE arg = "none" -> {"err"}
      [] arg = "bad"  -> {"told"}
      [] arg = "good" -> ExecOutcomes("good")

\* A sidecar that does not answer is reported as a success.
ToolboxStatusOutcomes == {"ok", "err"}

\* skill-email: no account, no credentials, no connection are structured.
AccountOutcomes == {"notfound", "auth", "err"}
MailOutcomes(name, arg) ==
    IF arg = "bad" THEN {"err"}
    ELSE AccountOutcomes \union
         (IF name = "send_email" /\ arg = "none" THEN {} ELSE {"ok", "connection"})
DiscoverOutcomes(arg) == IF arg = "none" THEN {"err"} ELSE {"ok", "err", "connection"}

\* skill-web-search and skill-perplexity-search: the query check, the key, the call.
SearchOutcomes(arg) ==
    CASE arg = "none" -> {"err"}
      [] arg # "none" /\ ~ CheckSearchQuery(arg) -> {"told"}
      [] OTHER -> {"ok", "err"}
PerplexityOutcomes(arg) ==
    CASE arg = "none" -> {"err"}
      [] arg # "none" /\ ~ CheckSearchQuery(arg) -> {"told"}
      [] OTHER -> {"ok", "told", "err"}

\* skill-web-browse: what the fallback search says is always a success unless the
\* request itself fails; so is a page that could not be fetched with http_only.
FallbackOutcomes == {"ok", "err"}
Strategies == {"auto", "http_only", "browser_only", "search_only"}
BrowseWith(strategy, arg) ==
    CASE strategy = "browser_only" -> IF arg = "none" THEN {"err"} ELSE {"ok"}
      [] strategy = "search_only"  -> IF arg = "none" THEN {"err"} ELSE FallbackOutcomes
      [] strategy = "http_only"    -> IF arg = "none" THEN {"err"} ELSE {"ok"}
      [] strategy = "auto"         -> IF arg = "none" THEN {"err"} ELSE {"ok"} \union FallbackOutcomes
BrowseOutcomes(arg) == UNION {BrowseWith(strategy, arg) : strategy \in Strategies}

\* An MCP tool: the error flag and every protocol failure are errors.
McpOutcomes == {"ok", "err"}

\* skill-cooperative-install without its commands: environment detection only looks.
InstallOutcomes(arg) ==
    CASE arg = "none" -> {"err"}
      [] arg = "bad"  -> {"err", "told"}
      [] arg = "good" -> {"ok", "err", "panic"}
ScriptOutcomes(arg) ==
    CASE arg = "none" -> {"err"}
      [] arg = "bad"  -> {"err", "told"}
      [] arg = "good" -> {"ok", "err"}

\* skill-filesystem: only a path outside the roots is a denial; what is not a file or
\* directory, or too large, is told, what the file system refuses is an error.
ReadFile == {"ok", "told", "err"}
WriteFile == {"ok", "err"}
ListDirectory == {"ok", "told", "err"}
SearchFiles == {"ok", "told", "err"}
FileOutcomes(name, arg) ==
    CASE arg = "none" -> {"err"}
      [] arg # "none" /\ ~ ValidatePath(arg) -> {"denied"}
      [] OTHER -> [read_file |-> ReadFile, write_file |-> WriteFile,
                   list_directory |-> ListDirectory, search_files |-> SearchFiles][name]

ToolOutcomes(name, arg) ==
    CASE name = "run_command" -> CommandOutcomes(arg)
      [] name \in DOMAIN HttpTools -> HttpOutcomes(arg)
      [] name = "toolbox_exec" -> ExecOutcomes(arg)
      [] name = "toolbox_install" -> ToolboxInstallOutcomes(arg)
      [] name = "toolbox_status" -> ToolboxStatusOutcomes
      [] name = "discover_email_service" -> DiscoverOutcomes(arg)
      [] name \in DOMAIN EmailTools \ {"discover_email_service"} -> MailOutcomes(name, arg)
      [] name = "web_search" -> SearchOutcomes(arg)
      [] name = "perplexity_search" -> PerplexityOutcomes(arg)
      [] name = "web_browse" -> BrowseOutcomes(arg)
      [] name = "detect_environment" -> {"ok"}
      [] name = "cooperative_install" -> InstallOutcomes(arg)
      [] name = "generate_host_script" -> ScriptOutcomes(arg)
      [] name \in DOMAIN FileTools -> FileOutcomes(name, arg)
      [] name = "mcp_tool" -> McpOutcomes

\* An MCP tool checks nothing of its own.
ArgsOf(name) == IF name = "mcp_tool" THEN {"good"} ELSE Args

\* The tools whose body runs without ever yielding: the executor's timer cannot
\* interrupt them.
Synchronous == DOMAIN FileTools \union {"detect_environment", "generate_host_script"}

\* The tools that start a process of their own.
Spawning == {"run_command", "cooperative_install"}

\* check_search_query is also asked by the policy gate in front of these tools.
Searching == {"web_search", "perplexity_search", "web_browse"}
=============================================================================
