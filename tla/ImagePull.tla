------------------------------ MODULE ImagePull ------------------------------
(* A pull of the pinned agent image (container/pull.sh) and the credential    *)
(* that docker gets for it: the pull's nonce, the helper docker runs          *)
(* (setup/registry/credential-helper.mjs), its installation into docker's     *)
(* config (setup/install-cred-helper.ts), which other tools edit too, and     *)
(* what the registry step reports (setup/registry.ts).  Several scripts pull  *)
(* at a time, for the nonce and the account are the user's, not a copy's; one *)
(* setup process at a time signs in or out.  Docker, the registry and the     *)
(* broker are external; a registry does not serve strangers.                  *)
EXTENDS Naturals, FiniteSets

CONSTANTS
  PullScripts, ByHand,              \* runs of pull.sh, and a docker pull in a terminal
  MaxIpCommands, MaxIpFaults    \* bounds: what people start, and what fails

ASSUME ImagePullAssumption == ByHand \notin PullScripts /\ {MaxIpCommands, MaxIpFaults} \subseteq Nat

VARIABLES
  checkout,    \* the version of the copy: the second has another pin and lockfile
  intent,      \* the image source in .env: "local" or "hardened"
  signed,      \* account.json is there
  regAuth,     \* registry-auth.json: its token, 0 for none, and its registry
  issued, honoured,\* the broker: how many tokens it made, and those it honours
  helperIn,    \* what each directory has under the helper's name
  dockerConfig,      \* docker's config.json: whether it parses, the hosts that are
               \* wired to the helper, and those with a login of their own
  editor,      \* the setup process: its step, its host, and the config it read
  nonce,       \* who wrote it, and whether it is older than five minutes
  pulls,        \* of each client its step, reference, environment and token
  store, localTag,  \* docker's images, and what the copy's tag names
  handed,      \* history: who was handed a credential
  wanted,      \* history: the logins people made and did not end
  raced,       \* history: the logins that changed while the installer was at work
  ipCommands, ipFaults

ipVars == <<checkout, intent, signed, regAuth, issued, honoured, helperIn, dockerConfig, editor,
            nonce, pulls, store, localTag, handed, wanted, raced, ipCommands, ipFaults>>
accountVars == <<intent, signed, regAuth, issued, honoured>>
wiring == <<helperIn, dockerConfig, editor, wanted, raced>>
imageVars == <<store, localTag>>

Clients == PullScripts \cup {ByHand}
Hosts == {"h1", "h2"}
Refs == {"r1", "r2"}
Dirs == {"usr", "home"}
HostOf(r) == IF r = "r1" THEN "h1" ELSE "h2"
LockOf(r) == IF r = "r1" THEN 1 ELSE 2
NoPull == [at |-> "idle", ref |-> "none", env |-> FALSE, token |-> 0, script |-> FALSE, sound |-> FALSE]
NoNonce == [owner |-> "none", old |-> FALSE]
Unread == [parses |-> FALSE, wired |-> {}, logins |-> {}]
AtRest == [at |-> "idle", host |-> "none", seen |-> Unread]
PullSteps == {"idle", "nonce", "docker", "asked", "check", "tag", "done", "refused", "failed"}

IpTypeOK ==
  /\ checkout \in 1 .. 2 /\ intent \in {"local", "hardened"} /\ signed \in BOOLEAN
  /\ regAuth.token \in 0 .. issued /\ honoured \subseteq 1 .. issued
  /\ helperIn \in [Dirs -> {"none", "ours", "foreign"}]
  /\ dockerConfig.parses \in BOOLEAN
  /\ UNION {dockerConfig.wired, dockerConfig.logins, wanted, raced} \subseteq Hosts
  /\ editor.at \in {"idle", "read", "binary", "wire", "remove", "unwire"}
  /\ nonce.owner \in PullScripts \cup {"none"} /\ nonce.old \in BOOLEAN
  /\ \A c \in Clients : pulls[c].at \in PullSteps /\ pulls[c].token \in 0 .. issued
  /\ store \subseteq Refs /\ localTag.ref \in Refs \cup {"none", "built", "layered"} /\ handed \subseteq Clients
  /\ ipCommands \in 0 .. MaxIpCommands /\ ipFaults \in 0 .. MaxIpFaults

InitImagePull ==
  /\ checkout = 1 /\ intent = "local" /\ signed = FALSE /\ regAuth = [token |-> 0, host |-> "none"]
  /\ issued = 0 /\ honoured = {} /\ store = {} /\ localTag = [ref |-> "none", lock |-> 0]
  /\ helperIn \in {[d \in Dirs |-> "none"], [d \in Dirs |-> IF d = "usr" THEN "foreign" ELSE "none"]}
  /\ dockerConfig = [parses |-> TRUE, wired |-> {}, logins |-> {}]
  /\ editor = AtRest /\ nonce = NoNonce /\ pulls = [c \in Clients |-> NoPull]
  /\ handed = {} /\ wanted = {} /\ raced = {}
  /\ ipCommands = MaxIpCommands /\ ipFaults = MaxIpFaults

IpCommand == ipCommands > 0 /\ ipCommands' = ipCommands - 1 /\ UNCHANGED ipFaults
IpFault == ipFaults > 0 /\ ipFaults' = ipFaults - 1 /\ UNCHANGED ipCommands
IpCalm == UNCHANGED <<ipCommands, ipFaults>>

\* readAgentImagePin and readRegistryHost, of the checkout as it is.
Pin == IF checkout = 1 THEN "r1" ELSE "r2"
PinnedHost == HostOf(Pin)

Pulling(c) == pulls[c].at \in {"nonce", "docker", "asked"}
\* What others do meanwhile is no fault of the pull.
Disturbed == pulls' = [c \in Clients |-> [pulls[c] EXCEPT !.sound = @ /\ ~Pulling(c)]]

-----------------------------------------------------------------------------
(* Signing in and out                                                        *)

IsOurs(d) == helperIn[d] = "ours"
\* PATH is searched in this order.
FoundOnPath == IF helperIn["usr"] # "none" THEN helperIn["usr"] ELSE helperIn["home"]

\* persistCredential, with the registry the broker names or that of the pin.
SignsIn ==
  /\ editor.at = "idle" /\ IpCommand
  /\ \E h \in {"h1", PinnedHost} :
       /\ regAuth' = [token |-> issued + 1, host |-> h]
       /\ editor' = [at |-> "read", host |-> h, seen |-> Unread]
  /\ issued' = issued + 1 /\ honoured' = honoured \cup {issued + 1} /\ signed' = TRUE /\ intent' = "hardened"
  /\ Disturbed /\ UNCHANGED <<checkout, helperIn, dockerConfig, wanted, raced, nonce, imageVars, handed>>

\* The config is read before anything is written, and one that does not parse
\* ends the installation.
ReadsConfig ==
  /\ editor.at = "read" /\ IpCalm
  /\ editor' = IF dockerConfig.parses THEN [editor EXCEPT !.at = "binary", !.seen = dockerConfig] ELSE AtRest
  /\ UNCHANGED <<checkout, accountVars, helperIn, dockerConfig, wanted, raced, nonce, pulls, imageVars, handed>>

\* Whatever has the helper's name in the first directory that can be written
\* to is replaced.
WritesHelper ==
  /\ editor.at = "binary" /\ editor' = [editor EXCEPT !.at = "wire"] /\ IpCalm
  /\ \E d \in Dirs : helperIn' = [helperIn EXCEPT ![d] = "ours"]
  /\ Disturbed /\ UNCHANGED <<checkout, accountVars, dockerConfig, wanted, raced, nonce, imageVars, handed>>

\* The config that was read is written back with the host in it.
WiresHost ==
  /\ editor.at = "wire" /\ editor' = AtRest /\ IpCalm
  /\ dockerConfig' = IF editor.host \in editor.seen.wired THEN dockerConfig
               ELSE [editor.seen EXCEPT !.wired = @ \cup {editor.host}]
  /\ Disturbed /\ UNCHANGED <<checkout, accountVars, helperIn, wanted, raced, nonce, imageVars, handed>>

\* logout: the session, both files, the helper's binaries, and its hosts.
SignsOut ==
  /\ editor.at = "idle" /\ signed /\ IpCommand
  /\ honoured' = honoured \ {regAuth.token} /\ signed' = FALSE /\ regAuth' = [token |-> 0, host |-> "none"]
  /\ editor' = [AtRest EXCEPT !.at = "remove"]
  /\ Disturbed
  /\ UNCHANGED <<checkout, intent, issued, helperIn, dockerConfig, wanted, raced, nonce, imageVars, handed>>
RemovesHelper ==
  /\ editor.at = "remove" /\ editor' = [editor EXCEPT !.at = "unwire"]
  /\ \/ helperIn' = [d \in Dirs |-> IF IsOurs(d) THEN "none" ELSE helperIn[d]] /\ IpCalm
     \/ UNCHANGED helperIn /\ IpFault
  /\ Disturbed /\ UNCHANGED <<checkout, accountVars, dockerConfig, wanted, raced, nonce, imageVars, handed>>
UnwiresHosts ==
  /\ editor.at = "unwire" /\ editor' = AtRest /\ IpCalm
  /\ dockerConfig' = IF dockerConfig.parses THEN [dockerConfig EXCEPT !.wired = {}] ELSE dockerConfig
  /\ Disturbed /\ UNCHANGED <<checkout, accountVars, helperIn, wanted, raced, nonce, imageVars, handed>>

\* A write that fails, a helper that does not run, a kill.
EditorStops ==
  /\ editor.at # "idle" /\ editor' = AtRest /\ IpFault
  /\ UNCHANGED <<checkout, accountVars, helperIn, dockerConfig, wanted, raced, nonce, pulls, imageVars, handed>>

-----------------------------------------------------------------------------
(* Others                                                                    *)

\* docker login and logout; for a host that is wired they go to the helper,
\* which keeps nothing and gives nothing up.
Touches(h) == raced' = IF editor.at \in {"binary", "wire"} THEN raced \cup {h} ELSE raced
DockerLogin ==
  /\ IpCommand /\ dockerConfig.parses
  /\ \E h \in Hosts \ dockerConfig.wired :
       /\ dockerConfig' = [dockerConfig EXCEPT !.logins = @ \cup {h}] /\ wanted' = wanted \cup {h} /\ Touches(h)
  /\ Disturbed /\ UNCHANGED <<checkout, accountVars, helperIn, editor, nonce, imageVars, handed>>
DockerLogout ==
  /\ IpCommand /\ dockerConfig.parses
  /\ \E h \in dockerConfig.logins \ dockerConfig.wired :
       /\ dockerConfig' = [dockerConfig EXCEPT !.logins = @ \ {h}] /\ wanted' = wanted \ {h} /\ Touches(h)
  /\ Disturbed /\ UNCHANGED <<checkout, accountVars, helperIn, editor, nonce, imageVars, handed>>
EditConfig ==
  /\ IF dockerConfig.parses THEN IpFault ELSE IpCommand
  /\ dockerConfig' = [dockerConfig EXCEPT !.parses = ~@]
  /\ Disturbed /\ UNCHANGED <<checkout, accountVars, helperIn, editor, wanted, raced, nonce, imageVars, handed>>
UpdateCheckout ==
  /\ checkout = 1 /\ checkout' = 2 /\ IpCommand
  /\ UNCHANGED <<accountVars, wiring, nonce, pulls, imageVars, handed>>

\* build.sh: on an install that pulls, a layer on the image that is here, if it
\* was built with the lockfile of the checkout; or a build that is asked for,
\* which is an opt-out too.
BuildImage ==
  /\ IpCommand
  /\ \/ intent' = "local" /\ localTag' = [ref |-> "built", lock |-> checkout]
     \/ /\ intent = "hardened" /\ localTag.lock = checkout
        /\ intent' = intent /\ localTag' = [localTag EXCEPT !.ref = "layered"]
  /\ UNCHANGED <<checkout, signed, regAuth, issued, honoured, wiring, nonce, pulls, store, handed>>
\* --opt-out
OptsOut ==
  /\ intent = "hardened" /\ intent' = "local" /\ IpCommand
  /\ UNCHANGED <<checkout, signed, regAuth, issued, honoured, wiring, nonce, pulls, imageVars, handed>>

-----------------------------------------------------------------------------
(* The pull                                                                  *)

\* What docker needs to be let in: the helper's answer, if the host is wired
\* to it, or a login.
HelperAnswers(r) ==
  FoundOnPath = "ours" /\ regAuth.token \in honoured /\ regAuth.host = HostOf(r)
Ready(c, r) ==
  /\ dockerConfig.parses
  /\ IF HostOf(r) \in dockerConfig.wired THEN c # ByHand /\ HelperAnswers(r)
     ELSE HostOf(r) \in dockerConfig.logins

\* The reference is read once; what docker has is not asked for.
StartsPull(c) ==
  /\ pulls[c].at \in {"idle", "done", "refused", "failed"} /\ IpCommand
  /\ c \in PullScripts => intent = "hardened"
  /\ pulls' = [o \in Clients |->
       IF o = c THEN [NoPull EXCEPT !.at = IF Pin \notin store THEN IF c = ByHand THEN "docker" ELSE "nonce"
                                           ELSE IF c = ByHand THEN "done" ELSE "check",
                                    !.ref = Pin, !.script = c \in PullScripts,
                                    !.sound = Ready(c, Pin) /\ ~ \E s \in PullScripts \ {c} : pulls[s].script]
       ELSE [pulls[o] EXCEPT !.sound = @ /\ c = ByHand]]
  /\ UNCHANGED <<checkout, accountVars, wiring, nonce, imageVars, handed>>

\* The file is overwritten, whoever wrote it; without it the helper will refuse.
WritesNonce(c) ==
  /\ pulls[c].at = "nonce"
  /\ \/ /\ nonce' = [owner |-> c, old |-> FALSE] /\ IpCalm
        /\ pulls' = [pulls EXCEPT ![c].at = "docker", ![c].env = TRUE]
     \/ UNCHANGED nonce /\ IpFault /\ pulls' = [pulls EXCEPT ![c].at = "docker", ![c].sound = FALSE]
  /\ UNCHANGED <<checkout, accountVars, wiring, imageVars, handed>>

\* Docker asks at once; a nonce that gets old is one that was left behind.
NonceAges ==
  /\ nonce.owner # "none" /\ ~nonce.old /\ nonce' = [nonce EXCEPT !.old = TRUE] /\ IpCalm
  /\ ~(pulls[nonce.owner].at = "docker" /\ pulls[nonce.owner].script)
  /\ UNCHANGED <<checkout, accountVars, wiring, pulls, imageVars, handed>>

\* The end of the script takes the nonce away, whoever wrote it.
EndsScript(c, outcome, calm) ==
  /\ nonce' = IF pulls[c].env /\ pulls[c].script THEN NoNonce ELSE nonce
  /\ pulls' = [pulls EXCEPT ![c] = [pulls[c] EXCEPT !.at = IF pulls[c].script \/ c = ByHand THEN outcome ELSE "idle",
                                           !.token = 0, !.env = FALSE, !.script = FALSE,
                                           !.sound = @ /\ calm]]

\* get: the account's file, its registry, the nonce.
RequirePullNonce(c) == pulls[c].env /\ nonce.owner = c /\ ~nonce.old
ServesRegistry(c) == regAuth.token # 0 /\ regAuth.host = HostOf(pulls[c].ref)
Helped(c) == dockerConfig.parses /\ HostOf(pulls[c].ref) \in dockerConfig.wired
DockerAsks(c) ==
  /\ pulls[c].at = "docker" /\ IpCalm
  /\ IF Helped(c)
     THEN /\ IF FoundOnPath = "ours" /\ ServesRegistry(c) /\ RequirePullNonce(c)
             THEN pulls' = [pulls EXCEPT ![c].at = "asked", ![c].token = regAuth.token] /\ UNCHANGED nonce
             ELSE EndsScript(c, "failed", TRUE)
          /\ UNCHANGED store
     ELSE IF dockerConfig.parses /\ HostOf(pulls[c].ref) \in dockerConfig.logins
     THEN /\ store' = store \cup {pulls[c].ref}
          /\ IF pulls[c].script THEN pulls' = [pulls EXCEPT ![c].at = "check"] /\ UNCHANGED nonce
             ELSE EndsScript(c, "done", TRUE)
     ELSE EndsScript(c, "failed", TRUE) /\ UNCHANGED store
  /\ UNCHANGED <<checkout, accountVars, wiring, localTag, handed>>

\* mint: the broker answers, with a password that docker pulls with, or refuses.
BrokerAnswers(c) ==
  /\ pulls[c].at = "asked"
  /\ IF pulls[c].token \in honoured
     THEN /\ store' = store \cup {pulls[c].ref} /\ handed' = handed \cup {c} /\ IpCalm
          /\ IF pulls[c].script THEN pulls' = [pulls EXCEPT ![c].at = "check"] /\ UNCHANGED nonce
             ELSE EndsScript(c, "done", TRUE)
     ELSE EndsScript(c, "failed", TRUE) /\ UNCHANGED <<store, handed>> /\ IpCalm
  /\ UNCHANGED <<checkout, accountVars, wiring, localTag>>
PullFails(c) ==
  /\ pulls[c].at \in {"docker", "asked"} /\ IpFault /\ EndsScript(c, "failed", FALSE)
  /\ UNCHANGED <<checkout, accountVars, wiring, imageVars, handed>>

\* The lockfile the image was built with is that of the checkout now.
ChecksLock(c) ==
  /\ pulls[c].at = "check" /\ IpCalm /\ UNCHANGED <<checkout, accountVars, wiring, imageVars, handed>>
  /\ IF LockOf(pulls[c].ref) = checkout
     THEN pulls' = [pulls EXCEPT ![c].at = "tag"] /\ UNCHANGED nonce
     ELSE EndsScript(c, "refused", TRUE)
TagsImage(c) ==
  /\ pulls[c].at = "tag" /\ localTag' = [ref |-> pulls[c].ref, lock |-> LockOf(pulls[c].ref)]
  /\ EndsScript(c, "done", TRUE) /\ IpCalm
  /\ UNCHANGED <<checkout, accountVars, wiring, store, handed>>

\* A script that is killed leaves its nonce, and a docker that goes on.
ScriptKilled(c) ==
  /\ pulls[c].script /\ IpFault
  /\ pulls' = IF pulls[c].at \in {"docker", "asked"}
             THEN [pulls EXCEPT ![c].script = FALSE, ![c].sound = FALSE]
             ELSE [pulls EXCEPT ![c] = NoPull]
  /\ UNCHANGED <<checkout, accountVars, wiring, nonce, imageVars, handed>>

NextImagePull ==
  \/ SignsIn \/ ReadsConfig \/ WritesHelper \/ WiresHost
  \/ SignsOut \/ RemovesHelper \/ UnwiresHosts \/ EditorStops
  \/ DockerLogin \/ DockerLogout \/ EditConfig \/ UpdateCheckout \/ BuildImage \/ OptsOut
  \/ NonceAges
  \/ \E c \in Clients :
       \/ StartsPull(c) \/ WritesNonce(c) \/ DockerAsks(c) \/ BrokerAnswers(c) \/ PullFails(c)
       \/ ChecksLock(c) \/ TagsImage(c) \/ ScriptKilled(c)
ImagePullSpec == InitImagePull /\ [][NextImagePull]_ipVars

-----------------------------------------------------------------------------
(* Properties                                                                *)

IpSpent == MaxIpFaults - ipFaults

\* A pull that could be let in when it began, with no other script at work, and
\* with nothing that failed or changed under it, does not fail.
SoundPullsSucceed == \A c \in Clients : pulls[c].at = "failed" => ~pulls[c].sound

\* What --status has to say; it does not look at the helper's copy of the token.
PinMatch == localTag.ref \in Refs => localTag.ref = Pin
StatusIsSilent ==
  /\ signed /\ intent = "hardened" /\ PinMatch
  /\ dockerConfig.parses /\ PinnedHost \in dockerConfig.wired /\ \E d \in Dirs : IsOurs(d)

\* When it has nothing to say a pull will be let in, where the account is of
\* the registry that is pinned and the helper's name was nobody else's.
StatusTells ==
  editor.at = "idle" /\ StatusIsSilent /\ IpSpent = 0 /\ regAuth.host = PinnedHost
  /\ (\A d \in Dirs : helperIn[d] # "foreign")
    => \A s \in PullScripts : Ready(s, Pin)

\* A login somebody made in docker's config is there until somebody ends it,
\* but for one that was made while the helper was being installed.
LoginsKept == dockerConfig.logins \ raced = wanted \ raced

\* Docker is not sent to a helper that is gone, while nothing fails.
HostsHaveHelper ==
  dockerConfig.wired # {} /\ IpSpent = 0 => FoundOnPath # "none" \/ editor.at = "unwire"

\* Nobody is handed a credential but a script.
NothingByHand == ByHand \notin handed

PullSafety == SoundPullsSucceed /\ StatusTells /\ LoginsKept /\ HostsHaveHelper /\ NothingByHand
=============================================================================
