---------------------------- MODULE RegistryAccount ----------------------------
(* The pulled agent image and the account it needs.  One setup process at a   *)
(* time (the wizard, a sign-in by hand, a refresh, a logout), killed at any   *)
(* point, edits what lies on the disk: the image source in .env, the token in *)
(* account.json and again in registry-auth.json for docker's credential       *)
(* helper, the helper itself, and the id this machine enrols with.  The host  *)
(* builds derived images meanwhile, which the setup process takes away.  The  *)
(* broker, the identity provider and docker are external: a request is        *)
(* carried out and answered, carried out with its answer lost, or not made.   *)
EXTENDS Naturals, FiniteSets

CONSTANTS
  Tokens, Ids, None,
  Preset,            \* the token an operator brings along, live from the start
  MaxRaRuns,         \* bound: times a setup process is started
  MaxRaFaults        \* bound: crashes, failed writes and lost or missing answers

ASSUME RegistryAssumption ==
  /\ Preset \in Tokens /\ None \notin Tokens \cup Ids
  /\ MaxRaRuns \in Nat /\ MaxRaFaults \in Nat

VARIABLES
  source,            \* NANOCLAW_HARDENED_IMAGE: "unset", "local" or "hardened"
  account, auth,     \* the token of account.json and of registry-auth.json
  hostId,            \* the id of this machine, as saved
  helper,            \* which of the helper's binary and docker's pointer exist
  session,           \* the broker's view of each token
  codeUse,           \* the id that redeemed the enrolment code
  image,             \* what the local tag holds
  fetched,           \* the pinned image is in docker's store
  derived, pin,      \* the derived image of a group, and the row that names it
  rebuild,           \* "built": the host has built it and not yet set the pin
  idLost,            \* history: an id could not be saved
  overtaken,         \* history: a rebuild met the removal of the image
  proc,              \* the setup process
  raRuns, forced, raFaults

raVars == <<source, account, auth, hostId, idLost, helper, session, codeUse, image,
            fetched, derived, pin, rebuild, overtaken, proc, raRuns, forced, raFaults>>
idFile == <<hostId, idLost>>
onDisk == <<account, auth, idFile, helper>>
broker == <<session, codeUse>>
images == <<image, fetched, derived, pin, rebuild, overtaken>>
bounds == <<raRuns, forced, raFaults>>

\* How a sign-in will go: a token or a code from the environment, a code typed
\* at the prompt, the browser, or nothing.
Ways == {"token", "code", "browser", "skip"}
Resting == [at |-> "idle", wizard |-> FALSE, force |-> FALSE, way |-> "skip",
            cred |-> None, id |-> None]

Mishap == raFaults > 0 /\ raFaults' = raFaults - 1 /\ UNCHANGED <<raRuns, forced>>
Calm  == UNCHANGED bounds
Reaches(at) == proc' = [proc EXCEPT !.at = at]

RaTypeOK ==
  /\ source \in {"unset", "local", "hardened"}
  /\ account \in Tokens \cup {None} /\ auth \in Tokens \cup {None}
  /\ hostId \in Ids \cup {None} /\ codeUse \in Ids \cup {None}
  /\ helper \subseteq {"binary", "pointer"}
  /\ session \in [Tokens -> {"free", "live", "revoked"}]
  /\ image \in {"none", "local", "pulled"} /\ rebuild \in {"no", "built"}
  /\ {fetched, derived, pin, idLost, overtaken} \subseteq BOOLEAN
  /\ proc.way \in Ways /\ proc.cred \in Tokens \cup {None} /\ proc.id \in Ids \cup {None}
  /\ raRuns \in 0 .. MaxRaRuns /\ forced \in 0 .. MaxRaRuns /\ raFaults \in 0 .. MaxRaFaults

InitRegistry ==
  /\ source = "unset" /\ account = None /\ auth = None /\ hostId = None /\ idLost = FALSE
  /\ helper = {}
  /\ session = [t \in Tokens |-> IF t = Preset THEN "live" ELSE "free"]
  /\ codeUse = None
  /\ image = "none" /\ fetched = FALSE /\ derived = FALSE /\ pin = FALSE
  /\ rebuild = "no" /\ overtaken = FALSE
  /\ proc = Resting
  /\ raRuns = MaxRaRuns /\ forced = 0 /\ raFaults = MaxRaFaults

-----------------------------------------------------------------------------
(* What starts a setup process                                               *)

Started == proc.at = "idle" /\ raRuns > 0 /\ raRuns' = raRuns - 1 /\ UNCHANGED raFaults

\* chooseImageSource: nothing is asked when the answer is on file, or when the
\* planned runtime or a missing pin leaves no choice; the answer is on file
\* before the sign-in begins, and "local" replaces it if there is no sign-in
\* script to run.
ChooseImageSource ==
  /\ Started /\ UNCHANGED <<forced, onDisk, broker, images>>
  /\ \/ /\ proc' = [Resting EXCEPT !.at = "container", !.wizard = TRUE]
        /\ \/ UNCHANGED source
           \/ source = "unset" /\ source' = "local"
     \/ /\ source = "unset" /\ source' = "hardened"
        /\ \E w \in Ways : proc' = [Resting EXCEPT !.at = "login", !.wizard = TRUE, !.way = w]

SignInByHand ==
  /\ Started /\ UNCHANGED <<source, onDisk, broker, images>>
  /\ \E w \in Ways, f \in BOOLEAN :
       /\ proc' = [Resting EXCEPT !.at = "login", !.force = f, !.way = w]
       /\ forced' = IF f THEN forced + 1 ELSE forced

Refresh ==
  /\ Started /\ source = "hardened" /\ UNCHANGED <<source, forced, onDisk, broker, images>>
  /\ proc' = [Resting EXCEPT !.at = "container"]

\* --opt-out, and a runtime picked later in the wizard that needs an image of
\* its own.
OptOut ==
  /\ Started /\ source' = "local" /\ UNCHANGED <<forced, onDisk, broker, images, proc>>

Logout ==
  /\ Started /\ UNCHANGED <<source, forced, onDisk, broker, images>>
  /\ proc' = [Resting EXCEPT !.at = "revoke"]

-----------------------------------------------------------------------------
(* The sign-in                                                               *)

\* What follows the end of the sign-in: nothing, or the wizard's container
\* step, with the choice withdrawn unless the sign-in came to something.
FallsBack(code) == proc.wizard /\ code # 0
Exit(code) ==
  /\ source' = IF FallsBack(code) THEN "local" ELSE source
  /\ proc' = IF proc.wizard THEN [Resting EXCEPT !.at = "container", !.wizard = TRUE] ELSE Resting

\* A stored token that is still good is kept, and written out again.
KeepsStored == account # None /\ ~proc.force
Idempotence ==
  /\ proc.at = "login" /\ UNCHANGED <<onDisk, broker, images>>
  /\ \/ /\ KeepsStored /\ session[account] = "live" /\ Calm /\ UNCHANGED source
        /\ proc' = [proc EXCEPT !.at = "account", !.cred = account]
     \/ /\ KeepsStored /\ Mishap /\ Exit(0)                  \* unreachable: kept unverified
     \/ /\ (KeepsStored => session[account] # "live")
        /\ Calm /\ UNCHANGED source /\ Reaches("sign-in")

\* The id of this machine is saved before it is used; a sign-in goes on if it
\* cannot be.
NextId(i) == IF hostId # None THEN i = hostId ELSE i \in Ids \ {codeUse}
SavesId(i) == hostId' = i
EnsureHostId(i) ==
  /\ NextId(i)
  /\ \/ SavesId(i) /\ UNCHANGED idLost /\ Calm
     \/ hostId = None /\ UNCHANGED hostId /\ idLost' = TRUE /\ Mishap

SignIn ==
  /\ proc.at = "sign-in" /\ UNCHANGED <<account, auth, helper, broker, images>>
  /\ \/ /\ proc.way = "token" /\ UNCHANGED idFile
        /\ \/ /\ session[Preset] = "live" /\ Calm /\ UNCHANGED source
              /\ proc' = [proc EXCEPT !.at = "account", !.cred = Preset]
           \/ session[Preset] # "live" /\ Calm /\ Exit(1)
           \/ Mishap /\ Exit(1)
     \/ /\ proc.way = "code" /\ UNCHANGED source
        /\ \E i \in Ids : EnsureHostId(i) /\ proc' = [proc EXCEPT !.at = "enroll", !.id = i]
     \/ /\ proc.way = "browser" /\ UNCHANGED idFile
        /\ \/ Reaches("poll") /\ Calm /\ UNCHANGED source
           \/ Mishap /\ Exit(1)                              \* no broker, or no device code
     \/ proc.way = "skip" /\ UNCHANGED idFile /\ Calm /\ Exit(2)

\* The device flow asks until the person approves or declines, the provider
\* refuses, or the deadline passes; a pending answer and a lost request change
\* nothing.
Poll ==
  /\ proc.at = "poll" /\ UNCHANGED <<account, auth, helper, broker, images>>
  /\ \/ /\ UNCHANGED source
        /\ \E i \in Ids : EnsureHostId(i) /\ proc' = [proc EXCEPT !.at = "enroll", !.id = i]
     \/ UNCHANGED idFile /\ Calm /\ Exit(1)

\* The broker: a code is redeemed once, but again by the id that redeemed it.
Redeemable == codeUse \in {None, proc.id}
Enroll ==
  /\ proc.at = "enroll" /\ UNCHANGED <<onDisk, images>>
  /\ \/ /\ proc.way = "code" => Redeemable
        /\ \E t \in Tokens :
             /\ session[t] = "free" /\ session' = [session EXCEPT ![t] = "live"]
             /\ codeUse' = IF proc.way = "code" THEN proc.id ELSE codeUse
             /\ \/ Calm /\ UNCHANGED source /\ proc' = [proc EXCEPT !.at = "account", !.cred = t]
                \/ Mishap /\ Exit(1)                         \* the answer is lost
     \/ /\ UNCHANGED broker /\ (proc.way = "code" => ~Redeemable) /\ Calm /\ Exit(1)
     \/ UNCHANGED broker /\ Mishap /\ Exit(1)                \* unreachable, or the limit of sign-ins

\* persistCredential: the record, the id, the helper's copy, the helper, the
\* image source; a write that fails ends the sign-in, one of the helper's does not.
PersistCredential ==
  /\ UNCHANGED <<broker, images>>
  /\ \/ /\ proc.at = "account" /\ account' = proc.cred /\ UNCHANGED <<source, auth, helper>>
        /\ \E i \in Ids : EnsureHostId(i)
        /\ Reaches("auth")
     \/ /\ proc.at = "auth" /\ auth' = proc.cred /\ UNCHANGED <<source, account, idFile, helper>>
        /\ Reaches("wire") /\ Calm
     \/ /\ proc.at = "wire" /\ UNCHANGED <<source, account, auth, idFile>> /\ Reaches("source")
        /\ \/ helper' = {"binary", "pointer"} /\ Calm
           \/ helper' \in {helper, helper \cup {"binary"}} /\ Mishap
     \/ /\ proc.at = "source" /\ source' = "hardened" /\ UNCHANGED onDisk /\ Reaches("report") /\ Calm
     \/ /\ proc.at \in {"account", "auth", "source"} /\ UNCHANGED onDisk /\ Mishap /\ Exit(1)

\* The outcome is reported; the question about e-mail that may follow changes
\* nothing here.
Report == proc.at = "report" /\ Exit(0) /\ Calm /\ UNCHANGED <<onDisk, broker, images>>

-----------------------------------------------------------------------------
(* The image                                                                 *)

\* docker asks the helper, which hands out what registry-auth.json holds.
Pullable == fetched \/ (helper = {"binary", "pointer"} /\ auth # None /\ session[auth] = "live")

ContainerStep ==
  /\ proc.at = "container" /\ UNCHANGED <<source, onDisk, broker, derived, pin, rebuild, overtaken>>
  /\ \/ /\ source = "hardened" /\ Pullable
        /\ image' = "pulled" /\ fetched' = TRUE /\ Reaches("reconcile") /\ Calm
     \/ /\ source = "hardened" /\ UNCHANGED <<image, fetched>> /\ proc' = Resting
        /\ ((~Pullable /\ Calm) \/ (~fetched /\ Mishap))     \* no fallback to a build
     \/ /\ source # "hardened" /\ image' = "local" /\ UNCHANGED fetched /\ proc' = Resting /\ Calm

\* reconcileDerivedImages: the row first, then the image, which stays while a
\* container uses it.
ClearsFirst(at) == at = "reconcile"
Reconcile ==
  /\ proc.at \in {"reconcile", "remove"}
  /\ UNCHANGED <<source, onDisk, broker, image, fetched, rebuild>> /\ Calm
  /\ \/ /\ proc.at = "reconcile" /\ ~pin /\ proc' = Resting /\ UNCHANGED <<derived, pin, overtaken>>
     \/ /\ (proc.at = "reconcile" => pin)
        /\ IF ClearsFirst(proc.at)
           THEN pin' = FALSE /\ UNCHANGED <<derived, overtaken>>
           ELSE /\ derived' \in {FALSE, derived} /\ UNCHANGED pin
                /\ overtaken' = (overtaken \/ (rebuild = "built" /\ ~derived'))
        /\ IF proc.at = "reconcile" THEN Reaches("remove") ELSE proc' = Resting

\* buildAgentGroupImage, in the host: the image, then the row.
BuildAgentGroupImage ==
  /\ rebuild = "no" /\ image # "none" /\ derived' = TRUE /\ rebuild' = "built"
  /\ overtaken' = FALSE
  /\ UNCHANGED <<source, onDisk, broker, image, fetched, pin, proc, bounds>>
PinsImage ==
  /\ rebuild = "built" /\ rebuild' = "no" /\ pin' \in {TRUE, pin}   \* or the host dies
  /\ overtaken' = (overtaken \/ (pin' /\ proc.at = "remove"))
  /\ UNCHANGED <<source, onDisk, broker, image, fetched, derived, proc, bounds>>

-----------------------------------------------------------------------------
(* Signing out                                                               *)

LogoutStep ==
  /\ UNCHANGED <<source, idFile, codeUse, images>>
  /\ \/ /\ proc.at = "revoke" /\ Reaches("clear account") /\ UNCHANGED <<account, auth, helper>>
        /\ \/ /\ account # None /\ session' = [session EXCEPT ![account] = "revoked"] /\ Calm
           \/ account = None /\ UNCHANGED session /\ Calm
           \/ account # None /\ UNCHANGED session /\ Mishap
     \/ /\ proc.at = "clear account" /\ account' = None /\ Reaches("clear auth") /\ Calm
        /\ UNCHANGED <<auth, helper, session>>
     \/ /\ proc.at = "clear auth" /\ auth' = None /\ Reaches("unwire") /\ Calm
        /\ UNCHANGED <<account, helper, session>>
     \/ /\ proc.at = "unwire" /\ proc' = Resting /\ UNCHANGED <<account, auth, session>>
        /\ \/ helper' = {} /\ Calm
           \/ helper' = helper \ {"binary"} /\ Mishap        \* docker's file cannot be edited

Killed == proc.at # "idle" /\ proc' = Resting /\ Mishap /\ UNCHANGED <<source, onDisk, broker, images>>

NextRegistry ==
  \/ ChooseImageSource \/ SignInByHand \/ Refresh \/ OptOut \/ Logout
  \/ Idempotence \/ SignIn \/ Poll \/ Enroll \/ PersistCredential \/ Report
  \/ ContainerStep \/ Reconcile \/ BuildAgentGroupImage \/ PinsImage
  \/ LogoutStep \/ Killed

-----------------------------------------------------------------------------
(* Properties                                                                *)

Spent == MaxRaFaults - raFaults
Signed == account # None /\ auth = account /\ session[account] = "live"

\* A sign-in that reports success has left both files with its token, and the
\* install pulls.
SuccessIsWhole == proc.at = "report" => Signed /\ account = proc.cred /\ source = "hardened"

\* Nothing having failed, an install that is set to pull is one that can, or
\* one its operator signed out.
HardenedCanPull ==
  proc.at = "idle" /\ source = "hardened" /\ Spent = 0
    => \/ account = None /\ auth = None /\ \E t \in Tokens : session[t] = "revoked"
       \/ Signed /\ helper = {"binary", "pointer"}

\* A code this machine redeemed, it can redeem again, unless its id could not
\* be saved: a sign-in cut short does not cost the code.
CodeSurvives == codeUse \in {None, hostId} \/ idLost

\* A live token the broker minted for this machine is one this machine holds,
\* but for one per failure and one per sign-in that was asked to start over.
Strays == {t \in Tokens \ {Preset, account, auth, proc.cred} : session[t] = "live"}
NoStrayTokens == Cardinality(Strays) <= Spent + forced

\* The helper hands out the token of the account, or there was a failure.
OneToken ==
  auth # account /\ Spent = 0
    => proc.at \in {"auth", "clear auth"} \/ (proc.force /\ proc.at # "idle")

\* A group's row names an image that exists, unless the host was rebuilding it
\* while the setup process took it away.
PinHasImage == pin => derived \/ overtaken

RegistrySafety ==
  /\ SuccessIsWhole /\ HardenedCanPull /\ CodeSurvives /\ NoStrayTokens /\ OneToken /\ PinHasImage
=============================================================================
