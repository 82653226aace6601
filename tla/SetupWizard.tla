----------------------------- MODULE SetupWizard -----------------------------
(* The setup wizard (setup/auto.ts, setup/lib/runner.ts): a row of steps, any *)
(* of which may fail, be cancelled, or start the wizard again with the names  *)
(* of the steps that are done.  What a process knows is lost with it; what it *)
(* hands on is in the environment of the next one or in .env.  One template,  *)
(* and next to Claude the one provider that is installed on demand.  The      *)
(* payload of that provider, the vault and docker are external.               *)
EXTENDS Naturals, FiniteSets

CONSTANTS MaxWzRuns, MaxWzFaults   \* bounds: runs that start anew, failures

ASSUME WizardAssumption == {MaxWzRuns, MaxWzFaults} \subseteq Nat

VARIABLES
  wzStep,    \* the step that is next, "idle" when no wizard runs
  skip,      \* NANOCLAW_SKIP
  done,      \* completedInRun
  env,       \* NANOCLAW_REEXEC_SG, _PICKED_PROVIDER, _TEMPLATE_PATH, _TEMPLATE_AGENT_ID
  agentProvider, \* of this process, "" while undefined
  file,      \* of .env: the image source, the default provider, the template, the vault's url
  sandbox,   \* where the image is from, and the providers it can run
  payload,   \* the code of the other provider is installed
  vault,     \* the providers whose credentials are in the vault
  host,      \* the service runs, and the default it read at its start
  groups,    \* the agents: their provider ("" for none there), and whether they are wired
  ending,    \* what the last run said at its end
  due,       \* history: a template was picked, not declined since and not wired
  unbuilt,   \* history: the rebuild for the other provider did not take place
  warned,    \* history: this run said that the template could not be installed
  bypassed,  \* history: a fresh agent was wired in the place of the template's
  wzRuns, wzFaults

wizVars == <<wzStep, skip, done, env, agentProvider, file, sandbox, payload, vault, host, groups,
             ending, due, unbuilt, warned, bypassed, wzRuns, wzFaults>>
worldVars == <<sandbox, payload, vault, host, groups>>
wzHistory == <<due, unbuilt, warned, bypassed>>

Sequence == <<"environment", "template", "source", "container", "onecli", "provider", "install",
              "rebuild", "signin", "default", "mounts", "service", "cli-agent", "ping", "chat",
              "timezone", "stamp", "channel", "verify">>
WizSteps == {Sequence[i] : i \in DOMAIN Sequence}
Agents == {"ping", "terminal", "fresh", "stamped"}
Names == {"environment", "container", "onecli", "auth", "mounts", "service", "cli-agent", "timezone"}

WzTypeOK ==
  /\ wzStep \in WizSteps \cup {"idle"} /\ skip \subseteq Names /\ done \subseteq Names
  /\ env \in [sg : BOOLEAN, picked : {"", "codex"}, template : BOOLEAN, agent : BOOLEAN]
  /\ agentProvider \in {"", "claude", "codex"}
  /\ file \in [source : {"undecided", "local", "hardened"}, default : {"", "claude", "codex"},
               template : BOOLEAN, gateway : BOOLEAN]
  /\ sandbox \in [from : {"none", "local", "hardened"}, runs : SUBSET {"claude", "codex"}]
  /\ payload \in BOOLEAN /\ vault \subseteq {"claude", "codex"}
  /\ host \in [up : BOOLEAN, default : {"claude", "codex"}]
  /\ groups \in [Agents -> [provider : {"", "claude", "codex"}, wired : BOOLEAN]]
  /\ ending \in {"", "ready", "almost"}
  /\ {due, unbuilt, warned, bypassed} \subseteq BOOLEAN
  /\ wzRuns \in 0 .. MaxWzRuns /\ wzFaults \in 0 .. MaxWzFaults

NoEnv == [sg |-> FALSE, picked |-> "", template |-> FALSE, agent |-> FALSE]
InitWizard ==
  /\ wzStep = "idle" /\ skip = {} /\ done = {} /\ env = NoEnv /\ agentProvider = ""
  /\ file = [source |-> "undecided", default |-> "", template |-> FALSE, gateway |-> FALSE]
  /\ sandbox = [from |-> "none", runs |-> {}] /\ payload = FALSE /\ vault = {}
  /\ host = [up |-> FALSE, default |-> "claude"]
  /\ groups = [a \in Agents |-> [provider |-> "", wired |-> FALSE]]
  /\ ending = "" /\ due = FALSE /\ unbuilt = FALSE /\ warned = FALSE /\ bypassed = FALSE
  /\ wzRuns = MaxWzRuns /\ wzFaults = MaxWzFaults

Default == IF file.default = "" THEN "claude" ELSE file.default   \* config.ts
Registered == \E a \in Agents : groups[a].wired                    \* detectRegisteredGroups
Resumed == env.sg \/ skip # {}

-----------------------------------------------------------------------------
(* The sequencer                                                             *)

Goto(s) == wzStep' = s /\ UNCHANGED <<skip, agentProvider>>
After(s) == Sequence[1 + CHOOSE i \in DOMAIN Sequence : Sequence[i] = s]
On(s) == wzStep = s
Logged(n) == done' = done \cup {n}

\* Processes start again with what this one completed, and with its environment.
Restarts(names) ==
  /\ wzStep' = "environment" /\ skip' = skip \cup names /\ done' = {} /\ agentProvider' = ""

\* fail: the run ends, or Claude's fix was run and the wizard tries again.
StepFails(names) ==
  /\ wzFaults > 0 /\ wzFaults' = wzFaults - 1 /\ UNCHANGED ending
  /\ \/ wzStep' = "idle" /\ done' = names /\ UNCHANGED <<skip, agentProvider>>
     \/ Restarts(names)
Works == UNCHANGED <<wzFaults, ending>>

\* A run starts anew; the template that was saved is taken over by and by.
StartWizard ==
  /\ On("idle") /\ wzRuns > 0 /\ wzRuns' = wzRuns - 1
  /\ wzStep' = "environment" /\ skip' = {} /\ done' = {} /\ agentProvider' = ""
  /\ env' = NoEnv /\ ending' = "" /\ warned' = FALSE
  /\ UNCHANGED <<file, worldVars, due, unbuilt, bypassed, wzFaults>>

\* A prompt is cancelled, or the terminal goes away.
Cancelled ==
  /\ wzStep # "idle" /\ wzStep' = "idle" /\ wzRuns > 0
  /\ UNCHANGED <<skip, done, env, agentProvider, file, worldVars, ending, wzHistory, wzRuns, wzFaults>>

\* A step that only leaves its mark in the log: runQuietStep.
Quiet(s, effect) ==
  /\ On(s)
  /\ \/ s \in skip /\ Goto(After(s)) /\ UNCHANGED done /\ Works
     \/ s \notin skip /\ effect /\ Goto(After(s)) /\ Logged(s) /\ Works
     \/ s \notin skip /\ StepFails(done)
  /\ UNCHANGED <<env, file, worldVars, wzHistory, wzRuns>>

CheckEnvironment == Quiet("environment", TRUE)
SetMounts == Quiet("mounts", TRUE)
\* Its first half is the step of that name already when the answer cannot be saved.
SetTimezone ==
  \/ Quiet("timezone", TRUE)
  \/ /\ On("timezone") /\ "timezone" \notin skip /\ StepFails(done \cup {"timezone"})
     /\ UNCHANGED <<env, file, worldVars, wzHistory, wzRuns>>

-----------------------------------------------------------------------------
(* The template of the first agent                                           *)

\* NANOCLAW_TEMPLATE_PATH of the environment, or else of .env.
Bridged == env.template \/ file.template

ApplyPick == 
  /\ env' = [env EXCEPT !.template = TRUE] /\ file' = [file EXCEPT !.template = TRUE] /\ due' = TRUE
ClearPick == 
  /\ env' = [env EXCEPT !.template = FALSE] /\ file' = [file EXCEPT !.template = FALSE] /\ due' = FALSE

\* A saved pick is confirmed or declined; the picker may end without one.
TemplateSetup ==
  /\ On("template") /\ Goto("source")
  /\ IF ~Resumed /\ (Bridged \/ ~Registered) THEN (ApplyPick \/ ClearPick)
     ELSE env' = [env EXCEPT !.template = Bridged] /\ UNCHANGED <<file, due>>
  /\ UNCHANGED <<done, worldVars, ending, unbuilt, warned, bypassed, wzRuns, wzFaults>>

\* ncl groups create --template: by the running host, with its default, or the
\* agent that carries the plugin is updated, or kept as it is.
StampedWith ==
  IF groups["stamped"].provider = "" THEN
    IF agentProvider = "" THEN {host.default} ELSE {agentProvider}
  ELSE {groups["stamped"].provider} \cup ({agentProvider} \ {""})

StampFirst ==
  /\ On("stamp") /\ Goto("channel")
  /\ \/ /\ (~env.template \/ env.agent)
        /\ UNCHANGED <<env, groups, warned, wzFaults>>
     \/ /\ env.template /\ ~env.agent /\ host.up
        /\ \E p \in StampedWith : groups' = [groups EXCEPT !["stamped"].provider = p]
        /\ env' = [env EXCEPT !.agent = TRUE] /\ UNCHANGED <<warned, wzFaults>>
     \/ /\ env.template /\ ~env.agent   \* a warning; the agent may be there already
        /\ (host.up => wzFaults > 0) /\ wzFaults' = IF host.up THEN wzFaults - 1 ELSE wzFaults
        /\ groups' \in {groups} \cup
             {[groups EXCEPT !["stamped"].provider = host.default] :
                x \in {y \in {host} : y.up /\ groups["stamped"].provider = ""}}
        /\ warned' = TRUE /\ UNCHANGED env
  /\ UNCHANGED <<done, file, sandbox, payload, vault, host, ending, due, unbuilt, bypassed, wzRuns>>

-----------------------------------------------------------------------------
(* The image, the vault and the provider                                     *)

\* Asked once, and written before the sign-in runs, which may fall back.
ChooseSource ==
  /\ On("source") /\ Goto("container")
  /\ \/ /\ "container" \notin skip /\ file.source = "undecided" /\ Default = "claude"
        /\ \E s \in {"local", "hardened"} : file' = [file EXCEPT !.source = s]
     \/ UNCHANGED file       \* settled, or there is no image to fetch
  /\ UNCHANGED <<env, done, worldVars, ending, wzHistory, wzRuns, wzFaults>>

\* What ./container/build.sh, or a pull, leaves.
Acquired == IF file.source = "hardened" THEN [from |-> "hardened", runs |-> {"claude"}]
            ELSE [from |-> "local", runs |-> {"claude"} \cup (IF payload THEN {"codex"} ELSE {})]

AcquireSandbox ==
  /\ On("container")
  /\ \/ "container" \in skip /\ Goto("onecli") /\ UNCHANGED <<done, env, sandbox>> /\ Works
     \/ /\ "container" \notin skip /\ sandbox' = Acquired /\ Works
        /\ \/ Goto("onecli") /\ Logged("container") /\ UNCHANGED env
           \/ /\ ~env.sg /\ env' = [env EXCEPT !.sg = TRUE]     \* maybeReexecUnderSg
              /\ Restarts(done \cup {"container"})
     \/ "container" \notin skip /\ StepFails(done) /\ UNCHANGED <<env, sandbox>>
  /\ UNCHANGED <<file, payload, vault, host, groups, wzHistory, wzRuns>>

ConnectVault ==
  /\ On("onecli")
  /\ \/ "onecli" \in skip /\ Goto("provider") /\ UNCHANGED <<done, file>> /\ Works
     \/ /\ "onecli" \notin skip /\ Goto("provider") /\ Logged("onecli") /\ Works
        /\ file' = [file EXCEPT !.gateway = TRUE]
     \/ "onecli" \notin skip /\ StepFails(done) /\ UNCHANGED file
  /\ UNCHANGED <<env, worldVars, wzHistory, wzRuns>>

\* The pick; a fetched image has to be given up for the other provider.
PickProvider ==
  /\ On("provider") /\ UNCHANGED <<worldVars, due, warned, bypassed, wzRuns>>
  /\ \/ /\ "auth" \in skip /\ Goto("mounts") /\ Works /\ UNCHANGED <<env, file, done, unbuilt>>
     \/ /\ "auth" \notin skip /\ Works /\ wzStep' = "signin" /\ agentProvider' = "claude"
        /\ env' = [env EXCEPT !.picked = ""] /\ UNCHANGED <<skip, file, done, unbuilt>>
     \/ /\ "auth" \notin skip /\ Works /\ agentProvider' = "codex"
        /\ wzStep' = IF payload THEN "signin" ELSE "install"
        /\ env' = [env EXCEPT !.picked = "codex"]
        /\ file' = IF file.source = "hardened" THEN [file EXCEPT !.source = "local"] ELSE file
        /\ unbuilt' = (unbuilt \/ (payload /\ "codex" \notin sandbox.runs))
        /\ UNCHANGED <<skip, done>>
     \/ /\ "auth" \notin skip /\ file.source = "hardened"     \* the image is not given up
        /\ env' = [env EXCEPT !.picked = "codex"] /\ StepFails(done) /\ UNCHANGED <<file, unbuilt>>

\* applyProviderSkill; the next process finds the payload in its barrel.
InstallProvider ==
  /\ On("install")
  /\ \/ payload' = TRUE /\ Goto("rebuild") /\ UNCHANGED done /\ Works
     \/ payload' = payload /\ StepFails(done)
  /\ UNCHANGED <<env, file, sandbox, vault, host, groups, wzHistory, wzRuns>>

Rebuild ==
  /\ On("rebuild")
  /\ \/ sandbox' = Acquired /\ Goto("signin") /\ UNCHANGED done /\ Works
     \/ UNCHANGED sandbox /\ StepFails(done)
  /\ UNCHANGED <<env, file, payload, vault, host, groups, wzHistory, wzRuns>>

\* Claude's is skipped when the vault has its secret, or by the operator; only
\* these and a pasted token are logged as done.  The other's is external.
Authenticate ==
  /\ On("signin")
  /\ \/ /\ Goto("default") /\ Works /\ vault' = vault \cup {agentProvider}
        /\ done' \in {done, done \cup {"auth"}}
     \/ agentProvider = "claude" /\ Goto("default") /\ Works /\ Logged("auth") /\ UNCHANGED vault
     \/ (agentProvider = "claude" => "claude" \notin vault) /\ StepFails(done) /\ UNCHANGED vault
  /\ UNCHANGED <<env, file, sandbox, payload, host, groups, wzHistory, wzRuns>>

PersistDefault ==
  /\ On("default") /\ Goto("mounts") /\ file' = [file EXCEPT !.default = agentProvider]
  /\ UNCHANGED <<env, done, worldVars, ending, wzHistory, wzRuns, wzFaults>>

-----------------------------------------------------------------------------
(* The service and its agents                                                *)

\* The host is started again, and reads .env; a build that fails fails the
\* step, and a restart that fails does not.
Serves == host' = [up |-> TRUE, default |-> Default]
StartService ==
  /\ On("service")
  /\ \/ "service" \in skip /\ Goto("cli-agent") /\ UNCHANGED <<done, host>> /\ Works
     \/ /\ "service" \notin skip /\ Goto("cli-agent") /\ Logged("service") /\ UNCHANGED ending
        /\ \/ Serves /\ UNCHANGED wzFaults
           \/ host' = host /\ wzFaults > 0 /\ wzFaults' = wzFaults - 1
     \/ "service" \notin skip /\ StepFails(done) /\ UNCHANGED host
  /\ UNCHANGED <<env, file, sandbox, payload, vault, groups, wzHistory, wzRuns>>

\* The provider of an agent a script makes: the pick, or else the default.
Made(a) == IF groups[a].provider # "" THEN groups[a].provider
           ELSE IF env.picked # "" THEN env.picked ELSE Default
Wired(a) == [groups EXCEPT ![a] = [provider |-> Made(a), wired |-> TRUE]]

\* init-cli-agent.ts; it may stop between the agent and its wiring.
MakeTestAgent ==
  /\ On("cli-agent")
  /\ \/ /\ ("cli-agent" \in skip \/ Registered)
        /\ Goto("timezone") /\ UNCHANGED <<done, groups>> /\ Works
     \/ /\ "cli-agent" \notin skip /\ ~Registered
        /\ \/ groups' = Wired("ping") /\ Goto("ping") /\ Logged("cli-agent") /\ Works
           \/ /\ groups' \in {groups, [groups EXCEPT !["ping"].provider = Made("ping")]} /\ StepFails(done)
  /\ UNCHANGED <<env, file, sandbox, payload, vault, host, wzHistory, wzRuns>>

CanAnswer(a) == host.up /\ groups[a].wired /\ groups[a].provider \in sandbox.runs \cap vault

\* An answer, and the agent is deleted unless that fails; no answer, and all
\* the run does is to say so.
Ping ==
  /\ On("ping")
  /\ \/ /\ CanAnswer("ping") /\ Goto("chat") /\ UNCHANGED wzFaults
        /\ groups' = [groups EXCEPT !["ping"] = [provider |-> "", wired |-> FALSE]]
     \/ /\ CanAnswer("ping") /\ Goto("chat") /\ wzFaults > 0 /\ wzFaults' = wzFaults - 1
        /\ UNCHANGED groups
     \/ /\ Goto("timezone") /\ UNCHANGED groups
        /\ (CanAnswer("ping") => wzFaults > 0)
        /\ wzFaults' = IF CanAnswer("ping") THEN wzFaults - 1 ELSE wzFaults
  /\ UNCHANGED <<env, file, done, sandbox, payload, vault, host, ending, wzHistory, wzRuns>>

\* The agent for the terminal, when the operator would like to chat.
Chat ==
  /\ On("chat")
  /\ \/ Goto("timezone") /\ UNCHANGED done /\ Works /\ groups' \in {groups, Wired("terminal")}
     \/ StepFails(done) /\ UNCHANGED groups
  /\ UNCHANGED <<env, file, sandbox, payload, vault, host, wzHistory, wzRuns>>

\* The skill of the channel, and init-first-agent.ts, which may fail when all
\* is wired and the welcome does not get through; the pick has done its job.
ConnectChannel ==
  /\ On("channel") /\ UNCHANGED <<sandbox, payload, vault, host, unbuilt, warned, wzRuns>>
  /\ LET a == IF env.agent THEN "stamped" ELSE "fresh" IN
     \/ Goto("verify") /\ UNCHANGED <<env, file, done, groups, due, bypassed>> /\ Works
     \/ /\ Goto("verify") /\ UNCHANGED done /\ Works /\ host.up
        /\ groups' = Wired(a) /\ bypassed' = (bypassed \/ (due /\ a = "fresh" /\ ~warned))
        /\ IF env.agent THEN ClearPick ELSE UNCHANGED <<env, file, due>>
     \/ /\ groups' \in {groups, Wired(a)} /\ StepFails(done) /\ UNCHANGED <<env, file, due>>
        /\ bypassed' = (bypassed \/ (groups' # groups /\ due /\ a = "fresh" /\ ~warned))

\* determineVerifyStatus: the url of the vault is credentials enough.
Verdict == IF host.up /\ file.gateway /\ Registered THEN "ready" ELSE "almost"
Verify ==
  /\ On("verify") /\ wzStep' = "idle"
  /\ ending' = Verdict
  /\ UNCHANGED <<skip, done, env, agentProvider, file, worldVars, wzHistory, wzRuns, wzFaults>>

NextWizard ==
  \/ StartWizard \/ Cancelled \/ CheckEnvironment \/ TemplateSetup \/ ChooseSource
  \/ AcquireSandbox \/ ConnectVault \/ PickProvider \/ InstallProvider \/ Rebuild \/ Authenticate
  \/ PersistDefault \/ SetMounts \/ StartService \/ MakeTestAgent \/ Ping \/ Chat \/ SetTimezone
  \/ StampFirst \/ ConnectChannel \/ Verify
WizardSpec == InitWizard /\ [][NextWizard]_wizVars

-----------------------------------------------------------------------------
(* What an operator can rely on                                              *)

\* A template that was picked is in .env until it is declined or its agent is
\* wired, through failures, cancellations and both ways to start again.
PickKept == due => file.template

\* No fresh agent is wired in its place without a word.
NotBypassed == ~bypassed

\* A provider becomes the default when it is installed, signed in and, unless
\* the build it needed was passed over, in the image.
DefaultCanRun ==
  file.default = "codex" => payload /\ "codex" \in vault /\ ("codex" \in sandbox.runs \/ unbuilt)

WizardSafety == PickKept /\ NotBypassed /\ DefaultCanRun

\* The rebuild "is not optional here" (main): the default provider is one that
\* the image on this machine can start.
DefaultIsInTheImage == file.default = "codex" => "codex" \in sandbox.runs
=============================================================================
