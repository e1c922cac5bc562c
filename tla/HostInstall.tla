---------------------------- MODULE HostInstall ----------------------------
(***************************************************************************)
(* The cooperative-install skill: a package is installed in the server's   *)
(* own environment, in the toolbox sidecar, or by a script the mentor runs *)
(* on the host (skill-cooperative-install/src/lib.rs).  A script is a file *)
(* named after the second it was written in and a cleaned label; the       *)
(* mentor gets its path in the report and runs it later, line by line.     *)
(* Package managers may succeed, fail, or claim success and do nothing.    *)
(*                                                                         *)
(* A script is a sequence of lines: "admin" (stop without privileges),     *)
(* "update", "ensure" k (check k, install, check k again), "run" k (a      *)
(* plain step that would install k's package), "preflight" k (only         *)
(* reports), "verify" k.  A check k asks for a package in one of five ways *)
(* (Answers): most of them can be satisfied by something else.             *)
(***************************************************************************)
EXTENDS Naturals, Sequences, FiniteSets, SequencesExt

CONSTANTS Installs,      \* calls of the skill's two installing tools
          Packages,      \* names validate_package_name accepts
          Clean,         \* what sanitize_name leaves of each package's name
          Alike,         \* packages that show up in a search for another one's name
          Managers,      \* package managers that may be found on PATH
          Requests,      \* managers a call may ask for, or "any"
          MaxOwn,        \* steps, and checks, of a caller's own script (bound)
          MaxSeconds     \* seconds the clock runs (bound)

ASSUME HostInstallAssumption ==
    /\ MaxSeconds \in Nat /\ MaxOwn \in Nat
    /\ Clean \in [Packages -> STRING]
    /\ Alike \in [Packages -> SUBSET Packages]

VARIABLES
    env,       \* where the server runs: container, toolbox, managers on PATH
    now,       \* the clock, in seconds
    install,   \* the call of each slot, with its report
    files,     \* mentor-scripts: path -> the script in the file
    written,   \* history: path -> the calls that wrote it
    host,      \* packages the managers of the host machine have a record of
    run        \* the script the mentor is running

installVars == <<env, now, install, files, written, host, run>>

\* What a call may list is finite.
Lists(S) == {list \in SUBSET S : IsFiniteSet(list)}

\* A check asks the manager for its record of a package, looks for a name in the text
\* of a listing, looks for a command of that name, or is one of the caller's own: a
\* command whose exit code tells, or in PowerShell an expression whose value does.
Checks == [by : {"record", "text", "command", "exit", "value"}, package : Packages]

Platforms == {"bash", "powershell"}
NoRun == [of |-> "nobody", platform |-> "bash", lines |-> <<>>]
Waiting == [pc |-> "new", wanted |-> {}, manager |-> "any", platform |-> "bash",
            path |-> <<>>, promised |-> {}, delivered |-> FALSE]

InstallInit ==
    /\ env \in [containerized : BOOLEAN, toolbox : BOOLEAN, managers : SUBSET Managers]
    /\ now = 0
    /\ install = [c \in Installs |-> Waiting]
    /\ files = <<>> /\ written = <<>>
    /\ host \in SUBSET Packages
    /\ run = NoRun

-----------------------------------------------------------------------------
\* Which manager installs where.
PackageManagers == {"apt-get", "apt", "dnf", "yum", "apk", "pacman", "zypper", "brew",
                    "winget", "choco", "scoop", "pip", "pip3", "npm", "cargo"}

NormalizePackageManager(requested) == requested = "any" \/ requested \in PackageManagers

Preference == <<"apt-get", "apt", "dnf", "yum", "apk", "pacman", "zypper", "brew",
                "pip3", "pip", "npm", "cargo">>

\* A requested manager is used or nothing is; without a request the first in the
\* order of preference that is on PATH.
SelectRuntimeManager(requested) ==
    IF requested # "any" THEN {requested} \intersect env.managers
    ELSE LET there == SelectSeq(Preference, LAMBDA m : m \in env.managers)
         IN  IF there = <<>> THEN {} ELSE {Head(there)}

DefaultHostManager(platform) == IF platform = "bash" THEN "apt-get" ELSE "winget"

\* The sidecar knows apt, pip and npm; every other request is quietly apt-get.
ToolboxCommand(requested) ==
    IF requested \in {"apt-get", "apt", "pip", "pip3", "npm"} THEN requested ELSE "apt-get"

ManagerRequiresAdmin(manager, platform) ==
    IF platform = "bash"
    THEN manager \in {"apt-get", "apt", "dnf", "yum", "apk", "pacman", "zypper"}
    ELSE manager \in {"winget", "choco"}

-----------------------------------------------------------------------------
\* The scripts.
Line(do, check) == [do |-> do, check |-> check]
Each(do, checks) == [i \in 1 .. Cardinality(checks) |-> Line(do, SetToSeq(checks)[i])]
When(condition, lines) == IF condition THEN lines ELSE <<>>

\* Privileges, preflight, the steps, verification: the same order in both dialects.
BuildBashScript(steps, admin, checks) ==
    When(admin, <<Line("admin", {})>>) \o Each("preflight", checks) \o steps \o Each("verify", checks)

BuildPowershellScript(steps, admin, checks) ==
    When(admin, <<Line("admin", {})>>) \o Each("preflight", checks) \o steps \o Each("verify", checks)

\* grep -F over "cargo install --list"; `_` is any manager without a line of its own.
BashInstallStep(manager, package) ==
    [package |-> package,
     by |-> IF manager = "cargo" THEN "text"
            ELSE IF manager \in {"winget", "choco", "scoop"} THEN "command" ELSE "record"]

\* Select-String over what the manager prints, except where nothing is printed for a
\* package that is not there.
PowershellInstallStep(manager, package) ==
    [package |-> package,
     by |-> IF manager \in {"winget", "choco", "scoop", "npm", "cargo"} THEN "text"
            ELSE IF manager \in {"pip", "pip3", "brew"} THEN "record" ELSE "command"]

InstallChecks(platform, manager, packages) ==
    {IF platform = "bash" THEN BashInstallStep(manager, p) ELSE PowershellInstallStep(manager, p) :
        p \in packages}

\* apt's package lists are refreshed first; no checks of the caller's.
InstallSteps(platform, manager, packages) ==
    When(platform = "bash" /\ manager \in {"apt-get", "apt"}, <<Line("update", {})>>)
    \o Each("ensure", InstallChecks(platform, manager, packages))

BuildScript(platform, steps, admin, checks) ==
    IF platform = "bash" THEN BuildBashScript(steps, admin, checks)
    ELSE BuildPowershellScript(steps, admin, checks)

BuildInstallScript(platform, manager, packages) ==
    BuildScript(platform, InstallSteps(platform, manager, packages),
                ManagerRequiresAdmin(manager, platform), {})

\* sanitize_name: names that differ only in what is cleaned away share a label.
SanitizeName(packages) == {Clean[p] : p \in packages}

\* persist_script: the second, the label and the extension are all there is to a path.
Path(what, packages, platform) == <<now, what, SanitizeName(packages), platform>>

PersistScript(c, path, lines, promised) ==
    /\ files' = [p \in DOMAIN files \union {path} |-> IF p = path THEN lines ELSE files[p]]
    /\ written' = [p \in DOMAIN files \union {path} |->
                      IF p # path THEN written[p]
                      ELSE IF p \in DOMAIN files THEN written[p] \union {c} ELSE {c}]
    /\ install' = [install EXCEPT ![c] = [Waiting EXCEPT !.pc = "script", !.path = path, !.promised = promised]]

\* A call that leaves no script behind leaves its report: how it ended, with which
\* manager's command.
End(c, pc, used) == install' = [install EXCEPT ![c] = [Waiting EXCEPT !.pc = pc, !.manager = used]]

-----------------------------------------------------------------------------
\* cooperative_install up to its first await: validation, the look at the
\* environment and the way that is tried.
Ways(requested) ==
    IF env.containerized THEN IF env.toolbox THEN "toolbox" ELSE "fallback"
    ELSE IF SelectRuntimeManager(requested) = {} THEN "fallback" ELSE "direct"

CooperativeInstall(c) ==
    /\ install[c].pc = "new"
    /\ \E wanted \in Lists(Packages), requested \in Requests, platform \in Platforms :
         IF wanted = {} \/ ~ NormalizePackageManager(requested) THEN End(c, "refused", "any")
         ELSE install' = [install EXCEPT ![c] =
                [@ EXCEPT !.pc = Ways(requested), !.wanted = wanted,
                          !.manager = requested, !.platform = platform]]
    /\ UNCHANGED <<env, now, files, written, host, run>>

\* The command ends with its exit code, or could not be started; the executor's
\* limit of 30 s is over before the skill's own 120 s.
DirectInstall(c) ==
    /\ install[c].pc = "direct"
    /\ \/ \E end \in {"installed", "cut"}, used \in SelectRuntimeManager(install[c].manager) :
             End(c, end, used)
       \/ install' = [install EXCEPT ![c].pc = "fallback"]
    /\ UNCHANGED <<env, now, files, written, host, run>>

\* One request to the sidecar; an unreachable one and a failing command are the same.
ToolboxInstall(c) ==
    /\ install[c].pc = "toolbox"
    /\ \/ \E end \in {"installed", "cut"} : End(c, end, ToolboxCommand(install[c].manager))
       \/ install' = [install EXCEPT ![c].pc = "fallback"]
    /\ UNCHANGED <<env, now, files, written, host, run>>

\* What could not be done directly is written down for the mentor.
ScriptManager(c) ==
    IF install[c].manager = "any" THEN DefaultHostManager(install[c].platform) ELSE install[c].manager

Fallback(c) ==
    /\ install[c].pc = "fallback"
    /\ \/ PersistScript(c, Path("install", install[c].wanted, install[c].platform),
                        BuildInstallScript(install[c].platform, ScriptManager(c), install[c].wanted),
                        InstallChecks(install[c].platform, ScriptManager(c), install[c].wanted))
       \/ End(c, "refused", "any") /\ UNCHANGED <<files, written>>
    /\ UNCHANGED <<env, now, host, run>>

\* generate_host_script: the agent's own steps and checks, refused as a whole when
\* one of them is empty or blocked.
OwnChecks(platform) ==
    {k \in Checks : k.by = "exit" \/ (k.by = "value" /\ platform = "powershell")}

GenerateHostScript(c) ==
    /\ install[c].pc = "new"
    /\ \E platform \in Platforms, admin \in BOOLEAN :
         \E steps \in Lists(OwnChecks("bash")), checks \in Lists(OwnChecks(platform)) :
         \/ /\ steps # {} /\ Cardinality(steps) <= MaxOwn /\ Cardinality(checks) <= MaxOwn
            /\ PersistScript(c, Path("host", {}, platform),
                             BuildScript(platform, Each("run", steps), admin, checks), checks)
         \/ End(c, "refused", "any") /\ UNCHANGED <<files, written>>
    /\ UNCHANGED <<env, now, host, run>>

Tick ==
    /\ now < MaxSeconds
    /\ now' = now + 1
    /\ UNCHANGED <<env, install, files, written, host, run>>

-----------------------------------------------------------------------------
\* The mentor follows the instructions of a report and runs the file at its path.
StartScript(c) ==
    /\ run = NoRun /\ install[c].pc = "script"
    /\ run' = [of |-> c, platform |-> install[c].path[4], lines |-> files[install[c].path]]
    /\ install' = [install EXCEPT ![c].pc = "ran"]
    /\ UNCHANGED <<env, now, files, written, host>>

\* What is on the host when a check holds: the package, or something that looks like
\* it; nothing at all for an expression, whose value goes to Out-Null.
Evidence(check) ==
    IF check.by \in {"record", "exit"} THEN {check.package}
    ELSE {check.package} \union Alike[check.package]
Backed(check, there) == check.by = "value" \/ Evidence(check) \intersect there # {}

\* What a check may say of a host.  A package need not bring a command of its name;
\* Test-OrionCommand looks at the exit code of whatever ran last, or throws without one.
Answers(check, there) ==
    {yes \in BOOLEAN :
        IF yes THEN Backed(check, there)
        ELSE check.by \in {"command", "value"} \/ ~ Backed(check, there)}

\* "set -e" stops bash at a failing command; in PowerShell the exit code of a native
\* command stops nothing, but a command that is not there does.
Attempts(package) == {[end |-> "done", host |-> host \union {package}],
                      [end |-> "done", host |-> host],
                      [end |-> "failed", host |-> host], [end |-> "missing", host |-> host]}
GoesOn(end) == end = "done" \/ (end = "failed" /\ run.platform = "powershell")

\* Mutant: the install command is believed.
EnsureTrusting(check) ==
    {[ok |-> TRUE, host |-> host] : yes \in Answers(check, host) \intersect {TRUE}}
    \union {[ok |-> GoesOn(a.end), host |-> a.host] : a \in Attempts(check.package)}

\* check_cmd, install_cmd unless it holds, check_cmd again.
Installed(check) ==
    {t \in [attempt : Attempts(check.package), yes : BOOLEAN] :
        t.yes \in Answers(check, t.attempt.host)}
Ensure(check) ==
    (IF TRUE \in Answers(check, host) THEN {[ok |-> TRUE, host |-> host]} ELSE {})
    \union (IF FALSE \in Answers(check, host)
            THEN {[ok |-> GoesOn(t.attempt.end) /\ t.yes, host |-> t.attempt.host] : t \in Installed(check)}
            ELSE {})

Execute(line) ==
    CASE line.do = "admin"     -> {[ok |-> ok, host |-> host] : ok \in BOOLEAN}
      [] line.do = "update"    -> {[ok |-> ok, host |-> host] : ok \in BOOLEAN}
      [] line.do = "preflight" -> {[ok |-> TRUE, host |-> host]}
      [] line.do = "ensure"    -> Ensure(line.check)
      [] line.do = "run"       -> {[ok |-> GoesOn(a.end), host |-> a.host] : a \in Attempts(line.check.package)}
      [] line.do = "verify"    -> {[ok |-> yes, host |-> host] : yes \in Answers(line.check, host)}

RunLine ==
    /\ run # NoRun /\ run.lines # <<>>
    /\ \E result \in Execute(Head(run.lines)) :
         /\ host' = result.host
         /\ run' = IF result.ok THEN [run EXCEPT !.lines = Tail(@)] ELSE NoRun
    /\ UNCHANGED <<env, now, install, files, written>>

\* "[orion] Script completed successfully."
ScriptCompletes ==
    /\ run # NoRun /\ run.lines = <<>>
    /\ install' = [install EXCEPT ![run.of].delivered = TRUE]
    /\ run' = NoRun
    /\ UNCHANGED <<env, now, files, written, host>>

InstallNext ==
    \/ \E c \in Installs : \/ CooperativeInstall(c) \/ DirectInstall(c) \/ ToolboxInstall(c)
                        \/ Fallback(c) \/ GenerateHostScript(c) \/ StartScript(c)
    \/ RunLine \/ ScriptCompletes \/ Tick

InstallSpec == InstallInit /\ [][InstallNext]_installVars

-----------------------------------------------------------------------------
\* When the script a report points to has completed, every check it promised has
\* something on the host to rest on, whatever the package manager claimed: the package
\* itself where the manager's record or an exit code was asked, a package that shows up
\* under its name where a listing or a command was looked for; an expression of
\* PowerShell promises nothing.  The exception is a report whose file another call
\* wrote over, in the same second under the same cleaned label (bash_install_step,
\* powershell_install_step, build_bash_script, build_powershell_script, persist_script).
Overwritten(c) == written[install[c].path] # {c}
MentorRunDelivers ==
    \A c \in Installs : install[c].delivered /\ ~ Overwritten(c) =>
        \A check \in install[c].promised : Backed(check, host)
=============================================================================
