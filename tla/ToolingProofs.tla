----------------------------- MODULE ToolingProofs -----------------------------
(* What is proved of the tooling: the move from version 1 (setup/migrate-v2),  *)
(* the account of the image (setup/lib/registry), the pull of the image, the   *)
(* setup wizard, and the removal of a copy, each for any number of commands    *)
(* and failures.  Each part is a machine of its own, and its proof stands      *)
(* alone: an inductive invariant, what each step does to the state, one lemma  *)
(* for each conjunct of the invariant, and the safety of the part from it.     *)
EXTENDS MigrateV2, RegistryAccount, ImagePull, SetupWizard, Uninstall, FiniteSetTheorems,
        WellFoundedInduction, TLAPS

-----------------------------------------------------------------------------
(* The move from version 1, for any number of runs, edits and failures.      *)

\* What a person changed stands where it was changed; a policy, as long as the
\* chat is wired.
EditsInv == EditsStand /\ ("policy" \in mine => wired)

\* The task was ported no more often than it was dropped and is there, and at
\* most once by a run.
PortInv ==
  /\ ported <= dropped + (IF task = "there" THEN 1 ELSE 0)
  /\ ported + (IF at \in 1 .. 5 THEN 1 ELSE 0) <= MaxMgRuns - mgRuns
  /\ dropped <= MaxMgEdits - mgEdits

\* Both hosts run only after a stop that was refused, not even between a stop
\* and the start that follows it; none runs but there, or after a refused start.
ServeInv ==
  /\ old /\ new => clung
  /\ at \in {15, 16} /\ old => clung
  /\ at = 17 /\ new => clung
  /\ at \notin {15, 17} /\ served => old \/ new \/ left
  /\ at = 16 => new \/ left

MgInv == MgTypeOK /\ EditsInv /\ PortInv /\ ServeInv

\* The place of each step in the script.
LEMMA ScriptIs ==
  /\ Script[1] = "env" /\ Script[2] = "db" /\ Script[3] = "groups" /\ Script[4] = "sessions"
  /\ Script[5] = "tasks" /\ Script[6] = "auth" /\ Script[7] = "install" /\ Script[8] = "docker"
  /\ Script[9] = "gateway" /\ Script[10] = "credential" /\ Script[11] = "skills"
  /\ Script[12] = "image" /\ Script[13] = "offer" /\ Script[14] = "stop" /\ Script[15] = "start"
  /\ Script[16] = "keep" /\ Script[17] = "back" /\ Script[18] = "summary"
  /\ Len(Script) = 18 /\ DOMAIN Script = 1 .. 18
BY DEF Script

LEMMA AtIs ==
  ASSUME at \in 0 .. 18
  PROVE  /\ At("env") <=> at = 1
         /\ At("db") <=> at = 2
         /\ At("groups") <=> at = 3
         /\ At("sessions") <=> at = 4
         /\ At("tasks") <=> at = 5
         /\ At("auth") <=> at = 6
         /\ At("install") <=> at = 7
         /\ At("docker") <=> at = 8
         /\ At("gateway") <=> at = 9
         /\ At("credential") <=> at = 10
         /\ At("skills") <=> at = 11
         /\ At("image") <=> at = 12
         /\ At("offer") <=> at = 13
         /\ At("stop") <=> at = 14
         /\ At("start") <=> at = 15
         /\ At("keep") <=> at = 16
         /\ At("back") <=> at = 17
         /\ At("summary") <=> at = 18
<1>1. \/ at = 0 \/ at = 1 \/ at = 2 \/ at = 3 \/ at = 4 \/ at = 5 \/ at = 6 \/ at = 7 \/ at = 8 \/ at = 9
      \/ at = 10 \/ at = 11 \/ at = 12 \/ at = 13 \/ at = 14 \/ at = 15 \/ at = 16 \/ at = 17 \/ at = 18
  OBVIOUS
<1> QED
  BY <1>1, ScriptIs DEF At

LEMMA IndexIs == IndexOf("stop") = 14 /\ IndexOf("summary") = 18
<1>1. ASSUME NEW i \in 1 .. 18
      PROVE  (Script[i] = "stop" => i = 14) /\ (Script[i] = "summary" => i = 18)
  <2>1. \/ i = 1 \/ i = 2 \/ i = 3 \/ i = 4 \/ i = 5 \/ i = 6 \/ i = 7 \/ i = 8 \/ i = 9
        \/ i = 10 \/ i = 11 \/ i = 12 \/ i = 13 \/ i = 14 \/ i = 15 \/ i = 16 \/ i = 17 \/ i = 18
    OBVIOUS
  <2> QED
    BY <2>1, ScriptIs
<1>2. 14 \in DOMAIN Script /\ Script[14] = "stop" /\ 18 \in DOMAIN Script /\ Script[18] = "summary"
      /\ DOMAIN Script = 1 .. 18
  BY ScriptIs
<1>3. (CHOOSE i \in DOMAIN Script : Script[i] = "stop") = 14
  BY <1>1, <1>2
<1>4. (CHOOSE i \in DOMAIN Script : Script[i] = "summary") = 18
  BY <1>1, <1>2
<1> QED
  BY <1>3, <1>4 DEF IndexOf

\* The steps by which a run moves on.
LEMMA StepsAre ==
  {"env", "db", "groups", "sessions", "tasks", "auth", "install", "docker", "gateway", "credential",
   "skills", "image"} \subseteq Steps
BY ScriptIs DEF Steps

\* A start is carried out or refused.
LEMMA StartNewIs ==
  ASSUME StartNew
  PROVE  /\ At("start") /\ Passes
         /\ \/ new' = TRUE /\ FaultFree /\ UNCHANGED left
            \/ (new' = new \/ new' = TRUE) /\ left' = TRUE /\ Faulty
         /\ UNCHANGED <<chosen, dataVars, have, old, served, clung, pastVars>>
BY Zenon DEF StartNew

\* What each variable is, in parts.
AtOK == at \in 0 .. 18
FlagsOK == /\ chosen \in BOOLEAN /\ wired \in BOOLEAN /\ resumed \in BOOLEAN
           /\ old \in BOOLEAN /\ new \in BOOLEAN /\ served \in BOOLEAN
           /\ clung \in BOOLEAN /\ left \in BOOLEAN
NotesOK == /\ outcome \in [Steps -> {"", "success", "skipped", "failed"}]
           /\ handoff \in {"none", "success", "partial"}
CopyOK == copy \in [{"key", "file", "skill", "login"} -> {"none", "torn", "v1", "mine"}]
RowsOK == policy \in {"none", "asks", "public", "mine"} /\ task \in {"none", "there"}
SetsOK == /\ have \subseteq {"adapter", "docker", "gateway", "credential", "image"}
          /\ mine \subseteq {"key", "file", "policy"}
CountsOK == /\ ported \in 0 .. MaxMgRuns /\ dropped \in 0 .. MaxMgEdits
            /\ mgRuns \in 0 .. MaxMgRuns /\ mgEdits \in 0 .. MaxMgEdits /\ mgFaults \in 0 .. MaxMgFaults

LEMMA MgTypeParts ==
  MgTypeOK <=> AtOK /\ FlagsOK /\ NotesOK /\ CopyOK /\ RowsOK /\ SetsOK /\ CountsOK
<1>1. Len(Script) = 18
  BY ScriptIs
<1>2. {chosen, wired, resumed, old, new, served, clung, left} \subseteq BOOLEAN <=> FlagsOK
  BY Zenon DEF FlagsOK
<1> QED
  BY <1>1, <1>2 DEF MgTypeOK, AtOK, NotesOK, CopyOK, RowsOK, SetsOK, CountsOK

LEMMA MgTypePartsNext ==
  MgTypeOK' <=> AtOK' /\ FlagsOK' /\ NotesOK' /\ CopyOK' /\ RowsOK' /\ SetsOK' /\ CountsOK'
<1>1. Len(Script) = 18
  BY ScriptIs
<1>2. ({chosen, wired, resumed, old, new, served, clung, left} \subseteq BOOLEAN)' <=> FlagsOK'
  BY Zenon DEF FlagsOK
<1> QED
  BY <1>1, <1>2 DEF MgTypeOK, AtOK, NotesOK, CopyOK, RowsOK, SetsOK, CountsOK

\* The step that is next moves forth, or back to none.
LEMMA AtStep == ASSUME AtOK, [NextMigrate]_mgVars PROVE AtOK'
<1> USE AtIs, IndexIs DEF AtOK, Goes, Passes, Jumps
<1>1. ASSUME Begin \/ Stopped \/ Summary PROVE AtOK'
  BY <1>1 DEF Begin, Stopped, Summary, Exits
<1>2. ASSUME CopyEnv \/ SeedDb \/ CopyGroups \/ CopySessions \/ PortTasks \/ CopyAuth \/ CopySkills PROVE AtOK'
  BY <1>2 DEF CopyEnv, SeedDb, CopyGroups, CopySessions, PortTasks, CopyAuth, CopySkills
<1>3. ASSUME InstallAdapter \/ InstallDocker \/ InstallGateway \/ AskCredential \/ AcquireImage PROVE AtOK'
  BY <1>3 DEF InstallAdapter, InstallDocker, InstallGateway, AskCredential, AcquireImage, Installs,
     Refused, NotNeeded
<1>4. ASSUME Offer \/ StopOld \/ StartNew \/ KeepNew \/ StopNew \/ StartOld PROVE AtOK'
  <2>1. CASE Offer
    BY <2>1 DEF Offer
  <2>2. CASE StopOld \/ KeepNew
    BY <2>2 DEF StopOld, KeepNew, StopsOld
  <2>3. CASE StartNew
    <3>1. /\ At("start") /\ Passes
          /\ \/ new' = TRUE /\ FaultFree /\ UNCHANGED left
             \/ (new' = new \/ new' = TRUE) /\ left' = TRUE /\ Faulty
          /\ UNCHANGED <<chosen, dataVars, have, old, served, clung, pastVars>>
      BY <2>3, StartNewIs, Zenon
    <3> QED
      BY <3>1
  <2>4. CASE StopNew \/ StartOld
    BY <2>4 DEF StopNew, StartOld
  <2> QED
    BY <1>4, <2>1, <2>2, <2>3, <2>4
<1>5. ASSUME EditCopy("key") \/ EditCopy("file") \/ Tighten \/ Unwire \/ DropTask
              \/ RouterCreates \/ Reset
       PROVE  AtOK'
  BY <1>5 DEF EditCopy, Tighten, Unwire, DropTask, RouterCreates, Reset, Still
<1>6. CASE UNCHANGED mgVars
  BY <1>6 DEF mgVars
<1> QED
  BY <1>1, <1>2, <1>3, <1>4, <1>5, <1>6 DEF NextMigrate

LEMMA FlagsStep == ASSUME FlagsOK, [NextMigrate]_mgVars PROVE FlagsOK'
<1> USE DEF FlagsOK, dataVars, serviceVars
<1>1. ASSUME Begin \/ Stopped \/ Summary PROVE FlagsOK'
  BY <1>1 DEF Begin, Stopped, Summary, At
<1>2. ASSUME CopyEnv \/ SeedDb \/ CopyGroups \/ CopySessions \/ PortTasks \/ CopyAuth \/ CopySkills PROVE FlagsOK'
  <2>1. CASE CopyEnv \/ SeedDb \/ CopyGroups
    BY <2>1 DEF CopyEnv, SeedDb, CopyGroups
  <2>2. CASE CopySessions \/ PortTasks
    BY <2>2 DEF CopySessions, PortTasks
  <2>3. CASE CopyAuth \/ CopySkills
    BY <2>3 DEF CopyAuth, CopySkills
  <2> QED
    BY <1>2, <2>1, <2>2, <2>3
<1>3. ASSUME InstallAdapter \/ InstallDocker \/ InstallGateway \/ AskCredential \/ AcquireImage PROVE FlagsOK'
  BY <1>3 DEF InstallAdapter, InstallDocker, InstallGateway, AskCredential, AcquireImage
<1>4. ASSUME Offer \/ StopOld \/ StartNew \/ KeepNew \/ StopNew \/ StartOld PROVE FlagsOK'
  <2>1. CASE Offer \/ StopOld \/ StartNew
    BY <2>1 DEF Offer, StopOld, StartNew, StopsOld
  <2>2. CASE KeepNew \/ StopNew \/ StartOld
    BY <2>2 DEF KeepNew, StopNew, StartOld, StopsOld
  <2> QED
    BY <1>4, <2>1, <2>2
<1>5. ASSUME EditCopy("key") \/ EditCopy("file") \/ Tighten \/ Unwire \/ DropTask
              \/ RouterCreates \/ Reset
       PROVE  FlagsOK'
  <2>1. CASE EditCopy("key") \/ EditCopy("file") \/ Tighten
    BY <2>1 DEF EditCopy, Tighten, Still
  <2>2. CASE Unwire \/ DropTask \/ RouterCreates
    BY <2>2 DEF Unwire, DropTask, RouterCreates, Still
  <2>3. CASE Reset
    BY <2>3 DEF Reset, Still
  <2> QED
    BY <1>5, <2>1, <2>2, <2>3
<1>6. CASE UNCHANGED mgVars
  BY <1>6 DEF mgVars
<1> QED
  BY <1>1, <1>2, <1>3, <1>4, <1>5, <1>6 DEF NextMigrate

LEMMA NotesStep == ASSUME NotesOK, [NextMigrate]_mgVars PROVE NotesOK'
<1> USE StepsAre DEF NotesOK, Goes, Passes, Jumps
<1>1. ASSUME Begin \/ Stopped \/ Summary PROVE NotesOK'
  BY <1>1 DEF Begin, Stopped, Summary, Exits, Overall, NoOutcome
<1>2. ASSUME CopyEnv \/ SeedDb \/ CopyGroups \/ CopySessions \/ PortTasks \/ CopyAuth \/ CopySkills PROVE NotesOK'
  BY <1>2 DEF CopyEnv, SeedDb, CopyGroups, CopySessions, PortTasks, CopyAuth, CopySkills
<1>3. ASSUME InstallAdapter \/ InstallDocker \/ InstallGateway \/ AskCredential \/ AcquireImage PROVE NotesOK'
  BY <1>3 DEF InstallAdapter, InstallDocker, InstallGateway, AskCredential, AcquireImage, Installs,
     Refused, NotNeeded
<1>4. ASSUME Offer \/ StopOld \/ StartNew \/ KeepNew \/ StopNew \/ StartOld PROVE NotesOK'
  BY <1>4 DEF Offer, StopOld, StartNew, KeepNew, StopNew, StartOld
<1>5. ASSUME EditCopy("key") \/ EditCopy("file") \/ Tighten \/ Unwire \/ DropTask
              \/ RouterCreates \/ Reset
       PROVE  NotesOK'
  BY <1>5 DEF EditCopy, Tighten, Unwire, DropTask, RouterCreates, Reset, Still
<1>6. CASE UNCHANGED mgVars
  BY <1>6 DEF mgVars
<1> QED
  BY <1>1, <1>2, <1>3, <1>4, <1>5, <1>6 DEF NextMigrate

LEMMA CopyStep == ASSUME CopyOK, [NextMigrate]_mgVars PROVE CopyOK'
<1> USE DEF CopyOK, dataVars, IfAbsent
<1>1. ASSUME Begin \/ Summary PROVE CopyOK'
  BY <1>1 DEF Begin, Summary
<1>2. ASSUME Stopped PROVE CopyOK'
  BY <1>2 DEF Stopped
<1>3. ASSUME CopyEnv \/ SeedDb \/ CopyGroups \/ CopySessions \/ PortTasks \/ CopyAuth \/ CopySkills PROVE CopyOK'
  BY <1>3 DEF CopyEnv, SeedDb, CopyGroups, CopySessions, PortTasks, CopyAuth, CopySkills
<1>4. ASSUME InstallAdapter \/ InstallDocker \/ InstallGateway \/ AskCredential \/ AcquireImage PROVE CopyOK'
  BY <1>4 DEF InstallAdapter, InstallDocker, InstallGateway, AskCredential, AcquireImage
<1>5. ASSUME Offer \/ StopOld \/ StartNew \/ KeepNew \/ StopNew \/ StartOld PROVE CopyOK'
  BY <1>5 DEF Offer, StopOld, StartNew, KeepNew, StopNew, StartOld
<1>6. ASSUME EditCopy("key") \/ EditCopy("file") \/ Tighten \/ Unwire \/ DropTask
              \/ RouterCreates \/ Reset
       PROVE  CopyOK'
  BY <1>6 DEF EditCopy, Tighten, Unwire, DropTask, RouterCreates, Reset, Still, NothingCopied
<1>7. CASE UNCHANGED mgVars
  BY <1>7 DEF mgVars
<1> QED
  BY <1>1, <1>2, <1>3, <1>4, <1>5, <1>6, <1>7 DEF NextMigrate

LEMMA RowsStep == ASSUME RowsOK, SetsOK, [NextMigrate]_mgVars PROVE RowsOK' /\ SetsOK'
<1> USE DEF RowsOK, SetsOK, dataVars, pastVars
<1>1. ASSUME Begin \/ Stopped \/ Summary PROVE RowsOK' /\ SetsOK'
  BY <1>1 DEF Begin, Stopped, Summary
<1>2. ASSUME CopyEnv \/ SeedDb \/ CopyGroups \/ CopySessions \/ PortTasks \/ CopyAuth \/ CopySkills
      PROVE  RowsOK' /\ SetsOK'
  BY <1>2 DEF CopyEnv, SeedDb, CopyGroups, CopySessions, PortTasks, CopyAuth, CopySkills, OpenPolicy
<1>3. ASSUME InstallAdapter \/ InstallDocker \/ InstallGateway \/ AskCredential \/ AcquireImage
      PROVE  RowsOK' /\ SetsOK'
  BY <1>3 DEF InstallAdapter, InstallDocker, InstallGateway, AskCredential, AcquireImage, Installs,
     Refused, NotNeeded
<1>4. ASSUME Offer \/ StopOld \/ StartNew \/ KeepNew \/ StopNew \/ StartOld PROVE RowsOK' /\ SetsOK'
  BY <1>4 DEF Offer, StopOld, StartNew, KeepNew, StopNew, StartOld
<1>5. ASSUME EditCopy("key") \/ EditCopy("file") \/ Tighten \/ Unwire \/ DropTask \/ RouterCreates \/ Reset
      PROVE  RowsOK' /\ SetsOK'
  BY <1>5 DEF EditCopy, Tighten, Unwire, DropTask, RouterCreates, Reset, Still
<1>6. CASE UNCHANGED mgVars
  BY <1>6 DEF mgVars
<1> QED
  BY <1>1, <1>2, <1>3, <1>4, <1>5, <1>6 DEF NextMigrate

\* Runs, edits and failures are counted down; a port costs a run, a drop an edit.
LEMMA CountStep == ASSUME AtOK, RowsOK, CountsOK, PortInv, [NextMigrate]_mgVars PROVE CountsOK' /\ PortInv'
<1> USE MigrateAssumption, AtIs, IndexIs DEF AtOK, RowsOK, CountsOK, PortInv, dataVars, pastVars, Goes, Passes, Jumps,
        Faulty, FaultFree, Edits, Still
<1>1. ASSUME Begin \/ Stopped \/ Summary PROVE CountsOK' /\ PortInv'
  BY <1>1 DEF Begin, Stopped, Summary, Exits
<1>2. ASSUME CopyEnv \/ SeedDb \/ CopyGroups \/ CopySessions PROVE CountsOK' /\ PortInv'
  BY <1>2 DEF CopyEnv, SeedDb, CopyGroups, CopySessions
<1>3. ASSUME PortTasks PROVE CountsOK' /\ PortInv'
  BY <1>3 DEF PortTasks
<1>4. ASSUME CopyAuth \/ CopySkills PROVE CountsOK' /\ PortInv'
  BY <1>4 DEF CopyAuth, CopySkills
<1>5. ASSUME InstallAdapter \/ InstallDocker \/ InstallGateway \/ AskCredential \/ AcquireImage
      PROVE  CountsOK' /\ PortInv'
  BY <1>5 DEF InstallAdapter, InstallDocker, InstallGateway, AskCredential, AcquireImage, Installs,
     Refused, NotNeeded
<1>6. ASSUME Offer \/ StopOld \/ StartNew \/ KeepNew \/ StopNew \/ StartOld PROVE CountsOK' /\ PortInv'
  <2>1. CASE Offer
    BY <2>1 DEF Offer
  <2>2. CASE StopOld \/ KeepNew
    BY <2>2 DEF StopOld, KeepNew, StopsOld
  <2>3. CASE StartNew
    <3>1. /\ At("start") /\ Passes
          /\ \/ new' = TRUE /\ FaultFree /\ UNCHANGED left
             \/ (new' = new \/ new' = TRUE) /\ left' = TRUE /\ Faulty
          /\ UNCHANGED <<chosen, dataVars, have, old, served, clung, pastVars>>
      BY <2>3, StartNewIs, Zenon
    <3> QED
      BY <3>1
  <2>4. CASE StopNew \/ StartOld
    BY <2>4 DEF StopNew, StartOld
  <2> QED
    BY <1>6, <2>1, <2>2, <2>3, <2>4
<1>7. ASSUME EditCopy("key") \/ EditCopy("file") \/ Tighten \/ Unwire \/ RouterCreates PROVE CountsOK' /\ PortInv'
  BY <1>7 DEF EditCopy, Tighten, Unwire, RouterCreates
<1>8. ASSUME DropTask PROVE CountsOK' /\ PortInv'
  BY <1>8 DEF DropTask
<1>9. ASSUME Reset PROVE CountsOK' /\ PortInv'
  BY <1>9 DEF Reset
<1>10. CASE UNCHANGED mgVars
  BY <1>10 DEF mgVars
<1> QED
  BY <1>1, <1>2, <1>3, <1>4, <1>5, <1>6, <1>7, <1>8, <1>9, <1>10 DEF NextMigrate

\* Nothing is copied over what is there, and nothing opened that is wired.
LEMMA EditsStep == ASSUME CopyOK, SetsOK, EditsInv, [NextMigrate]_mgVars PROVE EditsInv'
<1> USE DEF CopyOK, SetsOK, EditsInv, EditsStand, dataVars, pastVars, IfAbsent
<1>1. ASSUME Begin \/ Summary PROVE EditsInv'
  BY <1>1 DEF Begin, Summary
<1>2. ASSUME Stopped PROVE EditsInv'
  BY <1>2 DEF Stopped
<1>3. ASSUME CopyEnv PROVE EditsInv'
  BY <1>3 DEF CopyEnv
<1>4. ASSUME CopyGroups PROVE EditsInv'
  BY <1>4 DEF CopyGroups
<1>5. ASSUME CopyAuth \/ CopySkills PROVE EditsInv'
  BY <1>5 DEF CopyAuth, CopySkills
<1>6. ASSUME SeedDb \/ CopySessions \/ PortTasks PROVE EditsInv'
  BY <1>6 DEF SeedDb, CopySessions, PortTasks, OpenPolicy
<1>7. ASSUME InstallAdapter \/ InstallDocker \/ InstallGateway \/ AskCredential \/ AcquireImage PROVE EditsInv'
  BY <1>7 DEF InstallAdapter, InstallDocker, InstallGateway, AskCredential, AcquireImage
<1>8. ASSUME Offer \/ StopOld \/ StartNew \/ KeepNew \/ StopNew \/ StartOld PROVE EditsInv'
  BY <1>8 DEF Offer, StopOld, StartNew, KeepNew, StopNew, StartOld
<1>9. ASSUME NEW x \in {"key", "file"}, EditCopy(x) PROVE EditsInv'
  BY <1>9 DEF EditCopy
<1>10. ASSUME Tighten \/ Unwire \/ DropTask
              \/ RouterCreates \/ Reset
       PROVE  EditsInv'
  BY <1>10 DEF Tighten, Unwire, DropTask, RouterCreates, Reset, Still
<1>11. CASE UNCHANGED mgVars
  BY <1>11 DEF mgVars
<1> QED
  BY <1>1, <1>2, <1>3, <1>4, <1>5, <1>6, <1>7, <1>8, <1>9, <1>10, <1>11 DEF NextMigrate

\* A stop comes before each start, and a changeover ends with a start.
LEMMA ServeStep == ASSUME AtOK, FlagsOK, ServeInv, [NextMigrate]_mgVars PROVE ServeInv'
<1> USE AtIs, IndexIs DEF AtOK, FlagsOK, ServeInv, serviceVars, Goes, Passes, Jumps, StopsOld
<1>1. ASSUME Begin PROVE ServeInv'
  BY <1>1 DEF Begin
<1>2. ASSUME Stopped \/ Summary PROVE ServeInv'
  BY <1>2 DEF Stopped, Summary, Exits
<1>3. ASSUME CopyEnv \/ SeedDb \/ CopyGroups \/ CopySessions \/ PortTasks \/ CopyAuth \/ CopySkills PROVE ServeInv'
  BY <1>3 DEF CopyEnv, SeedDb, CopyGroups, CopySessions, PortTasks, CopyAuth, CopySkills
<1>4. ASSUME InstallAdapter \/ InstallDocker \/ InstallGateway \/ AskCredential \/ AcquireImage PROVE ServeInv'
  BY <1>4 DEF InstallAdapter, InstallDocker, InstallGateway, AskCredential, AcquireImage, Installs,
     Refused, NotNeeded
<1>5. ASSUME Offer PROVE ServeInv'
  BY <1>5 DEF Offer
<1>6. ASSUME StopOld PROVE ServeInv'
  BY <1>6 DEF StopOld
<1>7. ASSUME StartNew PROVE ServeInv'
  <2>1. /\ At("start") /\ Passes
        /\ \/ new' = TRUE /\ FaultFree /\ UNCHANGED left
           \/ (new' = new \/ new' = TRUE) /\ left' = TRUE /\ Faulty
        /\ UNCHANGED <<chosen, dataVars, have, old, served, clung, pastVars>>
    BY <1>7, StartNewIs, Zenon
  <2> QED
    BY <2>1
<1>8. ASSUME KeepNew PROVE ServeInv'
  BY <1>8 DEF KeepNew
<1>9. ASSUME StopNew PROVE ServeInv'
  BY <1>9 DEF StopNew
<1>10. ASSUME StartOld PROVE ServeInv'
  BY <1>10 DEF StartOld
<1>11. ASSUME EditCopy("key") \/ EditCopy("file") \/ Tighten \/ Unwire \/ DropTask \/ RouterCreates \/ Reset
       PROVE  ServeInv'
  BY <1>11 DEF EditCopy, Tighten, Unwire, DropTask, RouterCreates, Reset, Still
<1>12. CASE UNCHANGED mgVars
  BY <1>12 DEF mgVars
<1> QED
  BY <1>1, <1>2, <1>3, <1>4, <1>5, <1>6, <1>7, <1>8, <1>9, <1>10, <1>11, <1>12 DEF NextMigrate

LEMMA MgStarts == InitMigrate => MgInv
<1> SUFFICES ASSUME InitMigrate PROVE MgInv
  OBVIOUS
<1>0. old \in BOOLEAN /\ chosen = FALSE /\ wired = FALSE /\ resumed = FALSE /\ new = FALSE
      /\ served = FALSE /\ clung = FALSE /\ left = FALSE
  BY Zenon DEF InitMigrate
<1>1. AtOK /\ FlagsOK /\ NotesOK /\ CopyOK /\ RowsOK /\ SetsOK /\ CountsOK
  <2>1. FlagsOK
    BY <1>0 DEF FlagsOK
  <2>2. AtOK /\ NotesOK /\ CopyOK /\ RowsOK /\ SetsOK
    <3>1. AtOK /\ RowsOK /\ SetsOK
      BY DEF InitMigrate, AtOK, RowsOK, SetsOK
    <3>2. outcome = NoOutcome /\ handoff = "none" /\ copy = NothingCopied
      BY DEF InitMigrate
    <3> QED
      BY <3>1, <3>2 DEF NotesOK, CopyOK, NoOutcome, NothingCopied
  <2>3. CountsOK
    BY MigrateAssumption DEF InitMigrate, CountsOK
  <2> QED
    BY <2>1, <2>2, <2>3
<1>2. EditsInv /\ PortInv /\ ServeInv
  BY MigrateAssumption DEF InitMigrate, EditsInv, EditsStand, PortInv, ServeInv
<1> QED
  BY <1>1, <1>2, MgTypeParts DEF MgInv

LEMMA MgStep == MgInv /\ [NextMigrate]_mgVars => MgInv'
<1> SUFFICES ASSUME MgInv, [NextMigrate]_mgVars PROVE MgInv'
  OBVIOUS
<1>1. AtOK /\ FlagsOK /\ NotesOK /\ CopyOK /\ RowsOK /\ SetsOK /\ CountsOK /\ EditsInv /\ PortInv /\ ServeInv
  BY MgTypeParts DEF MgInv
<1>2. AtOK' /\ FlagsOK' /\ NotesOK' /\ CopyOK' /\ RowsOK' /\ SetsOK' /\ CountsOK' /\ EditsInv' /\ PortInv' /\ ServeInv'
  BY <1>1, AtStep, FlagsStep, NotesStep, CopyStep, RowsStep, CountStep, EditsStep, ServeStep
<1> QED
  BY <1>2, MgTypePartsNext DEF MgInv

LEMMA MgInvIsSafe == MgInv => MigrateSafety
BY MgTypeParts DEF MgInv, MigrateSafety, EditsInv, PortInv, ServeInv, PortedOnce, OneServes, RowsOK,
   CountsOK

\* The inductive invariant of the move from version 1.
THEOREM MigrateInvariant == MigrateSpec => []MgInv
BY MgStarts, MgStep, PTL DEF MigrateSpec

\* A run leaves alone what people changed, ports the task once, and leaves one
\* of the two hosts serving.
THEOREM MigrateIsSafe == MigrateSpec => []MigrateSafety
BY MigrateInvariant, MgInvIsSafe, PTL

-----------------------------------------------------------------------------
(* The account of the image, for any tokens, ids, runs and failures.         *)

RaSteps == {"idle", "login", "sign-in", "poll", "enroll", "account", "auth", "wire", "source", "report",
            "container", "reconcile", "remove", "revoke", "clear account", "clear auth", "unwire"}
SigningIn == {"login", "sign-in", "poll", "enroll"}

\* What each variable is, in parts.
ProcOK == proc \in [at : RaSteps, wizard : BOOLEAN, force : BOOLEAN, way : Ways,
                    cred : Tokens \cup {None}, id : Ids \cup {None}]
AccountOK ==
  /\ source \in {"unset", "local", "hardened"}
  /\ account \in Tokens \cup {None} /\ auth \in Tokens \cup {None}
  /\ helper \subseteq {"binary", "pointer"}
IdsOK == hostId \in Ids \cup {None} /\ codeUse \in Ids \cup {None}
BrokerOK == session \in [Tokens -> {"free", "live", "revoked"}]
ImagesOK == image \in {"none", "local", "pulled"} /\ rebuild \in {"no", "built"}
TruthsOK == /\ fetched \in BOOLEAN /\ derived \in BOOLEAN /\ pin \in BOOLEAN
            /\ idLost \in BOOLEAN /\ overtaken \in BOOLEAN
RaTriesOK == /\ raRuns \in 0 .. MaxRaRuns /\ forced \in 0 .. MaxRaRuns /\ raFaults \in 0 .. MaxRaFaults
           /\ forced + raRuns <= MaxRaRuns

\* The token a sign-in came to is live until it is through, and each write of
\* it comes after the one before.
CredIsLive ==
  /\ proc.cred # None => proc.at \in {"account", "auth", "wire", "source", "report"}
  /\ proc.at \in {"account", "auth", "wire", "source", "report"} =>
       proc.cred \in Tokens /\ session[proc.cred] = "live"
  /\ proc.at \in {"auth", "wire", "source", "report"} => account = proc.cred
  /\ proc.at \in {"wire", "source", "report"} => auth = proc.cred
  /\ proc.at = "report" => source = "hardened"

\* An id that is used is the one on file, or could not be saved.
IdIsSaved == CodeSurvives /\ (proc.at = "enroll" => proc.id = hostId \/ idLost)

\* While nothing fails: the two files agree but between two writes; an install
\* that pulls can, was signed out, or is just asked to sign in.
SignedOut == \E t \in Tokens : session[t] = "revoked"
CanPull == (account = None /\ auth = None /\ SignedOut) \/ (Signed /\ helper = {"binary", "pointer"})
CalmInv ==
  Spent = 0 =>
    /\ auth # account => proc.at \in {"auth", "clear auth"}
    /\ proc.at \in {"source", "report"} => helper = {"binary", "pointer"}
    /\ proc.at \in {"clear auth", "unwire"} => account = None
    /\ proc.at = "unwire" => auth = None
    /\ source = "hardened" =>
         /\ proc.at \in {"idle", "container", "reconcile", "remove", "revoke"} => CanPull
         /\ proc.at \in SigningIn \cup {"account"} => CanPull \/ proc.wizard
         /\ proc.at \in {"clear account", "clear auth", "unwire"} => SignedOut

\* What the host builds while its image is taken away.
ImageInv ==
  /\ PinHasImage
  /\ rebuild = "built" => derived \/ overtaken
  /\ proc.at = "remove" /\ pin => overtaken \/ rebuild = "built"

\* The live tokens that neither the account nor the sign-in has, and what the
\* step under way may add to them, are paid for.
Loose == {t \in Tokens \ {Preset, account, proc.cred} : session[t] = "live"}
MayLose ==
  \/ proc.force /\ proc.at \in SigningIn \cup {"account"}
  \/ proc.at = "clear account" /\ account # None /\ session[account] = "live"
Replaces ==
  proc.at \in {"sign-in", "poll", "enroll", "account"} /\ ~proc.force =>
    account = None \/ session[account] # "live" \/ account = proc.cred
Paid == Spent + forced
Losses == Cardinality(Loose) + (IF MayLose THEN 1 ELSE 0)
LooseInv == IsFiniteSet(Loose) /\ Losses <= Paid /\ Replaces

RaInv ==
  /\ ProcOK /\ AccountOK /\ IdsOK /\ BrokerOK /\ ImagesOK /\ TruthsOK /\ RaTriesOK
  /\ CredIsLive /\ IdIsSaved /\ CalmInv /\ ImageInv /\ LooseInv

\* A step forward of the process changes its place alone.
LEMMA ReachesIs ==
  ASSUME ProcOK, NEW s \in RaSteps, Reaches(s)
  PROVE  /\ ProcOK' /\ proc'.at = s /\ proc'.cred = proc.cred /\ proc'.id = proc.id
         /\ proc'.force = proc.force /\ proc'.wizard = proc.wizard /\ proc'.way = proc.way
BY DEF Reaches, ProcOK

\* A sign-in ends with the process at rest, or at the wizard's container step.
LEMMA ExitIs ==
  ASSUME ProcOK, NEW code, Exit(code)
  PROVE  /\ ProcOK' /\ proc'.cred = None /\ proc'.force = FALSE
         /\ proc.wizard => proc'.at = "container"
         /\ ~proc.wizard => proc'.at = "idle"
BY DEF Exit, ProcOK, Resting, RaSteps, Ways

\* The process at rest.
LEMMA RestIs ==
  ASSUME proc' = Resting
  PROVE  ProcOK' /\ proc'.at = "idle" /\ proc'.cred = None /\ proc'.force = FALSE /\ proc'.wizard = FALSE
BY DEF ProcOK, Resting, RaSteps, Ways

\* The process stays a process.
LEMMA ProcStep == ASSUME ProcOK, AccountOK, BrokerOK, [NextRegistry]_raVars PROVE ProcOK'
<1> USE RegistryAssumption DEF onDisk, idFile, broker, images, bounds, Mishap, Calm, Reaches, Exit, FallsBack, Resting, ProcOK, AccountOK, BrokerOK, RaSteps, Ways
<1>1. ASSUME ChooseImageSource PROVE ProcOK'
  <2> HIDE DEF Resting, ProcOK
  <2>1. \/ proc' = [Resting EXCEPT !.at = "container", !.wizard = TRUE]
        \/ \E w \in Ways : proc' = [Resting EXCEPT !.at = "login", !.wizard = TRUE, !.way = w]
    BY <1>1, Zenon DEF ChooseImageSource
  <2>2. ASSUME proc' = [Resting EXCEPT !.at = "container", !.wizard = TRUE] PROVE ProcOK'
    BY <2>2 DEF Resting, ProcOK
  <2>3. ASSUME NEW w \in Ways, proc' = [Resting EXCEPT !.at = "login", !.wizard = TRUE, !.way = w] PROVE ProcOK'
    BY <2>3 DEF Resting, ProcOK
  <2> QED
    BY <2>1, <2>2, <2>3, Zenon
<1>2. ASSUME SignInByHand PROVE ProcOK'
  <2> HIDE DEF Resting, ProcOK
  <2>1. PICK w \in Ways, f \in BOOLEAN : proc' = [Resting EXCEPT !.at = "login", !.force = f, !.way = w]
    BY <1>2, Zenon DEF SignInByHand
  <2> QED
    BY <2>1 DEF Resting, ProcOK
<1>3. ASSUME Refresh PROVE ProcOK'
  BY <1>3 DEF Refresh, Started
<1>4. ASSUME OptOut PROVE ProcOK'
  BY <1>4 DEF OptOut, Started
<1>5. ASSUME Logout PROVE ProcOK'
  BY <1>5 DEF Logout, Started
<1>6. ASSUME Idempotence PROVE ProcOK'
  <2> HIDE DEF Reaches, Exit, Resting, ProcOK
  <2>1. \/ account # None /\ proc' = [proc EXCEPT !.at = "account", !.cred = account]
        \/ Exit(0) \/ Reaches("sign-in")
    BY <1>6 DEF Idempotence, KeepsStored
  <2>2. ASSUME account # None, proc' = [proc EXCEPT !.at = "account", !.cred = account] PROVE ProcOK'
    BY <2>2 DEF ProcOK
  <2> QED
    BY <2>1, <2>2, ExitIs, ReachesIs
<1>7. ASSUME SignIn PROVE ProcOK'
  <2> HIDE DEF Reaches, Exit, Resting, ProcOK
  <2>1. \/ proc' = [proc EXCEPT !.at = "account", !.cred = Preset]
        \/ Exit(1) \/ Exit(2) \/ Reaches("poll")
        \/ \E i \in Ids : proc' = [proc EXCEPT !.at = "enroll", !.id = i]
    BY <1>7 DEF SignIn
  <2>2. ASSUME proc' = [proc EXCEPT !.at = "account", !.cred = Preset] PROVE ProcOK'
    BY <2>2 DEF ProcOK
  <2>3. ASSUME NEW i \in Ids, proc' = [proc EXCEPT !.at = "enroll", !.id = i] PROVE ProcOK'
    BY <2>3 DEF ProcOK
  <2> QED
    BY <2>1, <2>2, <2>3, ExitIs, ReachesIs
<1>8. ASSUME Poll PROVE ProcOK'
  <2> HIDE DEF Reaches, Exit, Resting, ProcOK
  <2>1. Exit(1) \/ \E i \in Ids : proc' = [proc EXCEPT !.at = "enroll", !.id = i]
    BY <1>8 DEF Poll
  <2>2. ASSUME NEW i \in Ids, proc' = [proc EXCEPT !.at = "enroll", !.id = i] PROVE ProcOK'
    BY <2>2 DEF ProcOK
  <2> QED
    BY <2>1, <2>2, ExitIs
<1>9. ASSUME Enroll PROVE ProcOK'
  <2> HIDE DEF Reaches, Exit, Resting, ProcOK
  <2>1. Exit(1) \/ \E t \in Tokens : proc' = [proc EXCEPT !.at = "account", !.cred = t]
    BY <1>9 DEF Enroll
  <2>2. ASSUME NEW t \in Tokens, proc' = [proc EXCEPT !.at = "account", !.cred = t] PROVE ProcOK'
    BY <2>2 DEF ProcOK
  <2> QED
    BY <2>1, <2>2, ExitIs
<1>10. ASSUME PersistCredential PROVE ProcOK'
  <2> HIDE DEF Reaches, Exit, Resting, ProcOK
  <2>1. Exit(1) \/ Reaches("auth") \/ Reaches("wire") \/ Reaches("source") \/ Reaches("report")
    BY <1>10 DEF PersistCredential
  <2> QED
    BY <2>1, ExitIs, ReachesIs
<1>11. ASSUME Report PROVE ProcOK'
  BY <1>11 DEF Report
<1>12. ASSUME ContainerStep PROVE ProcOK'
  <2> HIDE DEF Reaches, Exit, Resting, ProcOK
  <2>1. proc' = Resting \/ Reaches("reconcile")
    BY <1>12 DEF ContainerStep
  <2> QED
    BY <2>1, RestIs, ReachesIs
<1>13. ASSUME Reconcile PROVE ProcOK'
  <2> HIDE DEF Reaches, Exit, Resting, ProcOK
  <2>1. proc' = Resting \/ Reaches("remove")
    BY <1>13, Zenon DEF Reconcile
  <2> QED
    BY <2>1, RestIs, ReachesIs
<1>14. ASSUME BuildAgentGroupImage PROVE ProcOK'
  BY <1>14 DEF BuildAgentGroupImage
<1>15. ASSUME PinsImage PROVE ProcOK'
  BY <1>15 DEF PinsImage
<1>16. ASSUME LogoutStep PROVE ProcOK'
  <2> HIDE DEF Reaches, Exit, Resting, ProcOK
  <2>1. proc' = Resting \/ Reaches("clear account") \/ Reaches("clear auth") \/ Reaches("unwire")
    BY <1>16, Zenon DEF LogoutStep
  <2> QED
    BY <2>1, RestIs, ReachesIs
<1>17. ASSUME Killed PROVE ProcOK'
  BY <1>17 DEF Killed
<1>18. CASE UNCHANGED raVars
  BY <1>18 DEF raVars
<1> QED
  BY <1>1, <1>2, <1>3, <1>4, <1>5, <1>6, <1>7, <1>8, <1>9, <1>10, <1>11, <1>12, <1>13, <1>14, <1>15,
     <1>16, <1>17, <1>18 DEF NextRegistry

\* The files keep their kinds.
LEMMA AccountStep == ASSUME ProcOK, AccountOK, [NextRegistry]_raVars PROVE AccountOK'
<1> USE DEF onDisk, idFile, broker, images, bounds, Mishap, Calm, Reaches, Exit, FallsBack, Resting, ProcOK, AccountOK
<1>1. ASSUME ChooseImageSource PROVE AccountOK'
  BY <1>1 DEF ChooseImageSource, Started
<1>2. ASSUME SignInByHand PROVE AccountOK'
  BY <1>2 DEF SignInByHand, Started
<1>3. ASSUME Refresh PROVE AccountOK'
  BY <1>3 DEF Refresh, Started
<1>4. ASSUME OptOut PROVE AccountOK'
  BY <1>4 DEF OptOut, Started
<1>5. ASSUME Logout PROVE AccountOK'
  BY <1>5 DEF Logout, Started
<1>6. ASSUME Idempotence PROVE AccountOK'
  BY <1>6 DEF Idempotence, KeepsStored
<1>7. ASSUME SignIn PROVE AccountOK'
  BY <1>7 DEF SignIn, EnsureHostId, NextId, SavesId
<1>8. ASSUME Poll PROVE AccountOK'
  BY <1>8 DEF Poll, EnsureHostId, NextId, SavesId
<1>9. ASSUME Enroll PROVE AccountOK'
  BY <1>9 DEF Enroll, Redeemable
<1>10. ASSUME PersistCredential PROVE AccountOK'
  BY <1>10 DEF PersistCredential, EnsureHostId, NextId, SavesId
<1>11. ASSUME Report PROVE AccountOK'
  BY <1>11 DEF Report
<1>12. ASSUME ContainerStep PROVE AccountOK'
  BY <1>12 DEF ContainerStep
<1>13. ASSUME Reconcile PROVE AccountOK'
  BY <1>13 DEF Reconcile, ClearsFirst
<1>14. ASSUME BuildAgentGroupImage PROVE AccountOK'
  BY <1>14 DEF BuildAgentGroupImage
<1>15. ASSUME PinsImage PROVE AccountOK'
  BY <1>15 DEF PinsImage
<1>16. ASSUME LogoutStep PROVE AccountOK'
  BY <1>16 DEF LogoutStep
<1>17. ASSUME Killed PROVE AccountOK'
  BY <1>17 DEF Killed
<1>18. CASE UNCHANGED raVars
  BY <1>18 DEF raVars
<1> QED
  BY <1>1, <1>2, <1>3, <1>4, <1>5, <1>6, <1>7, <1>8, <1>9, <1>10, <1>11, <1>12, <1>13, <1>14, <1>15,
     <1>16, <1>17, <1>18 DEF NextRegistry

\* The ids stay ids.
LEMMA IdsStep == ASSUME ProcOK, IdsOK, [NextRegistry]_raVars PROVE IdsOK'
<1> USE DEF onDisk, idFile, broker, images, bounds, Mishap, Calm, Reaches, Exit, FallsBack, Resting, ProcOK, IdsOK
<1>1. ASSUME ChooseImageSource PROVE IdsOK'
  BY <1>1 DEF ChooseImageSource, Started
<1>2. ASSUME SignInByHand PROVE IdsOK'
  BY <1>2 DEF SignInByHand, Started
<1>3. ASSUME Refresh PROVE IdsOK'
  BY <1>3 DEF Refresh, Started
<1>4. ASSUME OptOut PROVE IdsOK'
  BY <1>4 DEF OptOut, Started
<1>5. ASSUME Logout PROVE IdsOK'
  BY <1>5 DEF Logout, Started
<1>6. ASSUME Idempotence PROVE IdsOK'
  BY <1>6 DEF Idempotence, KeepsStored
<1>7. ASSUME SignIn PROVE IdsOK'
  BY <1>7 DEF SignIn, EnsureHostId, NextId, SavesId
<1>8. ASSUME Poll PROVE IdsOK'
  BY <1>8 DEF Poll, EnsureHostId, NextId, SavesId
<1>9. ASSUME Enroll PROVE IdsOK'
  BY <1>9 DEF Enroll, Redeemable
<1>10. ASSUME PersistCredential PROVE IdsOK'
  BY <1>10 DEF PersistCredential, EnsureHostId, NextId, SavesId
<1>11. ASSUME Report PROVE IdsOK'
  BY <1>11 DEF Report
<1>12. ASSUME ContainerStep PROVE IdsOK'
  BY <1>12 DEF ContainerStep
<1>13. ASSUME Reconcile PROVE IdsOK'
  BY <1>13 DEF Reconcile, ClearsFirst
<1>14. ASSUME BuildAgentGroupImage PROVE IdsOK'
  BY <1>14 DEF BuildAgentGroupImage
<1>15. ASSUME PinsImage PROVE IdsOK'
  BY <1>15 DEF PinsImage
<1>16. ASSUME LogoutStep PROVE IdsOK'
  BY <1>16 DEF LogoutStep
<1>17. ASSUME Killed PROVE IdsOK'
  BY <1>17 DEF Killed
<1>18. CASE UNCHANGED raVars
  BY <1>18 DEF raVars
<1> QED
  BY <1>1, <1>2, <1>3, <1>4, <1>5, <1>6, <1>7, <1>8, <1>9, <1>10, <1>11, <1>12, <1>13, <1>14, <1>15,
     <1>16, <1>17, <1>18 DEF NextRegistry

\* Tokens are free, live or revoked.
LEMMA BrokerStep == ASSUME BrokerOK, [NextRegistry]_raVars PROVE BrokerOK'
<1> USE DEF onDisk, idFile, broker, images, bounds, Mishap, Calm, Reaches, Exit, FallsBack, Resting, BrokerOK
<1>1. ASSUME ChooseImageSource PROVE BrokerOK'
  BY <1>1 DEF ChooseImageSource, Started
<1>2. ASSUME SignInByHand PROVE BrokerOK'
  BY <1>2 DEF SignInByHand, Started
<1>3. ASSUME Refresh PROVE BrokerOK'
  BY <1>3 DEF Refresh, Started
<1>4. ASSUME OptOut PROVE BrokerOK'
  BY <1>4 DEF OptOut, Started
<1>5. ASSUME Logout PROVE BrokerOK'
  BY <1>5 DEF Logout, Started
<1>6. ASSUME Idempotence PROVE BrokerOK'
  BY <1>6 DEF Idempotence, KeepsStored
<1>7. ASSUME SignIn PROVE BrokerOK'
  BY <1>7 DEF SignIn, EnsureHostId, NextId, SavesId
<1>8. ASSUME Poll PROVE BrokerOK'
  BY <1>8 DEF Poll, EnsureHostId, NextId, SavesId
<1>9. ASSUME Enroll PROVE BrokerOK'
  BY <1>9 DEF Enroll, Redeemable
<1>10. ASSUME PersistCredential PROVE BrokerOK'
  BY <1>10 DEF PersistCredential, EnsureHostId, NextId, SavesId
<1>11. ASSUME Report PROVE BrokerOK'
  BY <1>11 DEF Report
<1>12. ASSUME ContainerStep PROVE BrokerOK'
  BY <1>12 DEF ContainerStep
<1>13. ASSUME Reconcile PROVE BrokerOK'
  BY <1>13 DEF Reconcile, ClearsFirst
<1>14. ASSUME BuildAgentGroupImage PROVE BrokerOK'
  BY <1>14 DEF BuildAgentGroupImage
<1>15. ASSUME PinsImage PROVE BrokerOK'
  BY <1>15 DEF PinsImage
<1>16. ASSUME LogoutStep PROVE BrokerOK'
  BY <1>16 DEF LogoutStep
<1>17. ASSUME Killed PROVE BrokerOK'
  BY <1>17 DEF Killed
<1>18. CASE UNCHANGED raVars
  BY <1>18 DEF raVars
<1> QED
  BY <1>1, <1>2, <1>3, <1>4, <1>5, <1>6, <1>7, <1>8, <1>9, <1>10, <1>11, <1>12, <1>13, <1>14, <1>15,
     <1>16, <1>17, <1>18 DEF NextRegistry

\* The images keep their kinds.
LEMMA ImagesStep == ASSUME ImagesOK, [NextRegistry]_raVars PROVE ImagesOK'
<1> USE DEF onDisk, idFile, broker, images, bounds, Mishap, Calm, Reaches, Exit, FallsBack, Resting, ImagesOK
<1>1. ASSUME ChooseImageSource PROVE ImagesOK'
  BY <1>1 DEF ChooseImageSource, Started
<1>2. ASSUME SignInByHand PROVE ImagesOK'
  BY <1>2 DEF SignInByHand, Started
<1>3. ASSUME Refresh PROVE ImagesOK'
  BY <1>3 DEF Refresh, Started
<1>4. ASSUME OptOut PROVE ImagesOK'
  BY <1>4 DEF OptOut, Started
<1>5. ASSUME Logout PROVE ImagesOK'
  BY <1>5 DEF Logout, Started
<1>6. ASSUME Idempotence PROVE ImagesOK'
  BY <1>6 DEF Idempotence, KeepsStored
<1>7. ASSUME SignIn PROVE ImagesOK'
  BY <1>7 DEF SignIn, EnsureHostId, NextId, SavesId
<1>8. ASSUME Poll PROVE ImagesOK'
  BY <1>8 DEF Poll, EnsureHostId, NextId, SavesId
<1>9. ASSUME Enroll PROVE ImagesOK'
  BY <1>9 DEF Enroll, Redeemable
<1>10. ASSUME PersistCredential PROVE ImagesOK'
  BY <1>10 DEF PersistCredential, EnsureHostId, NextId, SavesId
<1>11. ASSUME Report PROVE ImagesOK'
  BY <1>11 DEF Report
<1>12. ASSUME ContainerStep PROVE ImagesOK'
  BY <1>12 DEF ContainerStep
<1>13. ASSUME Reconcile PROVE ImagesOK'
  BY <1>13 DEF Reconcile, ClearsFirst
<1>14. ASSUME BuildAgentGroupImage PROVE ImagesOK'
  BY <1>14 DEF BuildAgentGroupImage
<1>15. ASSUME PinsImage PROVE ImagesOK'
  BY <1>15 DEF PinsImage
<1>16. ASSUME LogoutStep PROVE ImagesOK'
  BY <1>16 DEF LogoutStep
<1>17. ASSUME Killed PROVE ImagesOK'
  BY <1>17 DEF Killed
<1>18. CASE UNCHANGED raVars
  BY <1>18 DEF raVars
<1> QED
  BY <1>1, <1>2, <1>3, <1>4, <1>5, <1>6, <1>7, <1>8, <1>9, <1>10, <1>11, <1>12, <1>13, <1>14, <1>15,
     <1>16, <1>17, <1>18 DEF NextRegistry

\* Only what starts a sign-in, and what fails, is counted.
LEMMA RaTriesStep == ASSUME RaTriesOK, [NextRegistry]_raVars PROVE RaTriesOK'
<1> USE RegistryAssumption DEF RaTriesOK
<1>1. ASSUME Started, UNCHANGED forced PROVE RaTriesOK'
  BY <1>1 DEF Started
<1>2. ASSUME SignInByHand PROVE RaTriesOK'
  <2>1. Started /\ (forced' = forced + 1 \/ forced' = forced)
    BY <1>2 DEF SignInByHand
  <2> QED
    BY <2>1 DEF Started
<1>3. ASSUME Mishap PROVE RaTriesOK'
  BY <1>3 DEF Mishap
<1>4. ASSUME Calm PROVE RaTriesOK'
  BY <1>4 DEF Calm, bounds
<1>5. ASSUME ChooseImageSource \/ Refresh \/ OptOut \/ Logout PROVE Started /\ UNCHANGED forced
  BY <1>5, Zenon DEF ChooseImageSource, Refresh, OptOut, Logout
<1>6. ASSUME Idempotence \/ SignIn \/ Poll \/ Enroll \/ PersistCredential \/ Report PROVE Calm \/ Mishap
  <2>1. ASSUME NEW i, EnsureHostId(i) PROVE Calm \/ Mishap
    BY <2>1, Zenon DEF EnsureHostId
  <2> QED
    BY <1>6, <2>1, Zenon DEF Idempotence, SignIn, Poll, Enroll, PersistCredential, Report
<1>7. ASSUME ContainerStep \/ Reconcile \/ LogoutStep \/ Killed PROVE Calm \/ Mishap
  BY <1>7, Zenon DEF ContainerStep, Reconcile, LogoutStep, Killed
<1>8. ASSUME BuildAgentGroupImage \/ PinsImage PROVE Calm
  BY <1>8, Zenon DEF BuildAgentGroupImage, PinsImage, Calm, bounds
<1>9. CASE UNCHANGED raVars
  BY <1>9 DEF raVars
<1> QED
  BY <1>1, <1>2, <1>3, <1>4, <1>5, <1>6, <1>7, <1>8, <1>9 DEF NextRegistry

\* The truth values stay such.
LEMMA TruthsStep == ASSUME TruthsOK, [NextRegistry]_raVars PROVE TruthsOK'
<1> USE DEF TruthsOK, onDisk, idFile, images
<1>1. ASSUME ChooseImageSource \/ SignInByHand \/ Refresh \/ OptOut \/ Logout PROVE TruthsOK'
  BY <1>1 DEF ChooseImageSource, SignInByHand, Refresh, OptOut, Logout
<1>2. ASSUME Idempotence \/ SignIn \/ Poll \/ Enroll \/ PersistCredential \/ Report PROVE TruthsOK'
  BY <1>2 DEF Idempotence, SignIn, Poll, Enroll, PersistCredential, Report, EnsureHostId
<1>3. ASSUME ContainerStep \/ BuildAgentGroupImage \/ LogoutStep \/ Killed PROVE TruthsOK'
  BY <1>3 DEF ContainerStep, BuildAgentGroupImage, LogoutStep, Killed
<1>4. ASSUME Reconcile PROVE TruthsOK'
  <2>1. /\ fetched' = fetched /\ idLost' = idLost /\ (pin' = pin \/ pin' = FALSE)
        /\ derived' = derived \/ derived' = FALSE
        /\ overtaken' = overtaken \/ overtaken' = (overtaken \/ (rebuild = "built" /\ ~derived'))
    BY <1>4, Zenon DEF Reconcile
  <2> QED
    BY <2>1
<1>5. ASSUME PinsImage PROVE TruthsOK'
  <2>1. /\ fetched' = fetched /\ idLost' = idLost /\ derived' = derived /\ (pin' = pin \/ pin' = TRUE)
        /\ overtaken' = (overtaken \/ (pin' /\ proc.at = "remove"))
    BY <1>5, Zenon DEF PinsImage
  <2> QED
    BY <2>1
<1>6. CASE UNCHANGED raVars
  BY <1>6 DEF raVars
<1> QED
  BY <1>1, <1>2, <1>3, <1>4, <1>5, <1>6 DEF NextRegistry

\* The moves of the process, by its fields.
Moves(stage) == /\ proc'.at = stage /\ proc'.cred = proc.cred /\ proc'.id = proc.id
             /\ proc'.force = proc.force /\ proc'.wizard = proc.wizard /\ proc'.way = proc.way
RunEnds(code) ==
  /\ source' = IF FallsBack(code) THEN "local" ELSE source
  /\ proc'.cred = None /\ proc'.force = FALSE /\ proc'.at = IF proc.wizard THEN "container" ELSE "idle"
RunRests == proc'.at = "idle" /\ proc'.cred = None /\ proc'.force = FALSE
Takes(t) == proc'.at = "account" /\ proc'.cred = t /\ proc'.force = proc.force /\ proc'.wizard = proc.wizard
Enrols(i) == /\ proc'.at = "enroll" /\ proc'.id = i /\ proc'.cred = proc.cred
             /\ proc'.force = proc.force /\ proc'.wizard = proc.wizard

LEMMA MovesIs == ASSUME ProcOK, NEW s \in RaSteps, Reaches(s) PROVE Moves(s)
BY ReachesIs DEF Moves

LEMMA RunEndsIs == ASSUME ProcOK, NEW code, Exit(code) PROVE RunEnds(code)
<1>1. proc'.cred = None /\ proc'.force = FALSE /\ source' = IF FallsBack(code) THEN "local" ELSE source
  BY ExitIs DEF Exit
<1>2. CASE proc.wizard
  BY <1>1, <1>2, ExitIs DEF RunEnds
<1>3. CASE ~proc.wizard
  BY <1>1, <1>3, ExitIs DEF RunEnds
<1> QED
  BY <1>2, <1>3

LEMMA RestsIs == ASSUME proc' = Resting PROVE RunRests
BY RestIs DEF RunRests

LEMMA TakesIs ==
  ASSUME ProcOK, NEW t, proc' = [proc EXCEPT !.at = "account", !.cred = t] PROVE Takes(t)
BY DEF ProcOK, Takes

LEMMA EnrolsIs ==
  ASSUME ProcOK, NEW i, proc' = [proc EXCEPT !.at = "enroll", !.id = i] PROVE Enrols(i)
BY DEF ProcOK, Enrols

\* What the steps of a sign-in, of the image and of a sign-out do, in these words.
LEMMA IdempotenceIs ==
  ASSUME ProcOK, Idempotence
  PROVE  /\ proc.at = "login" /\ UNCHANGED <<onDisk, broker, images>>
         /\ \/ /\ account # None /\ session[account] = "live" /\ ~proc.force
               /\ Calm /\ UNCHANGED source /\ Takes(account)
            \/ Mishap /\ RunEnds(0)
            \/ /\ account # None /\ ~proc.force => session[account] # "live"
               /\ Calm /\ UNCHANGED source /\ Moves("sign-in")
<1>1. "sign-in" \in RaSteps
  BY DEF RaSteps
<1> QED
  BY <1>1, TakesIs, RunEndsIs, MovesIs, Zenon DEF Idempotence, KeepsStored

LEMMA SignInIs ==
  ASSUME ProcOK, SignIn
  PROVE  /\ proc.at = "sign-in" /\ UNCHANGED <<account, auth, helper, broker, images>>
         /\ \/ /\ session[Preset] = "live" /\ Calm /\ UNCHANGED <<source, idFile>> /\ Takes(Preset)
            \/ UNCHANGED <<source, idFile>> /\ Calm /\ Moves("poll")
            \/ UNCHANGED source /\ \E i \in Ids : EnsureHostId(i) /\ Enrols(i)
            \/ UNCHANGED idFile /\ (Calm \/ Mishap) /\ \E code \in {1, 2} : RunEnds(code)
<1>1. "poll" \in RaSteps
  BY DEF RaSteps
<1>2. 1 \in {1, 2} /\ 2 \in {1, 2}
  OBVIOUS
<1> QED
  BY <1>1, <1>2, TakesIs, RunEndsIs, MovesIs, EnrolsIs, Zenon DEF SignIn

LEMMA PollIs ==
  ASSUME ProcOK, Poll
  PROVE  /\ proc.at = "poll" /\ UNCHANGED <<account, auth, helper, broker, images>>
         /\ \/ UNCHANGED source /\ \E i \in Ids : EnsureHostId(i) /\ Enrols(i)
            \/ UNCHANGED idFile /\ Calm /\ RunEnds(1)
BY RunEndsIs, EnrolsIs, Zenon DEF Poll

LEMMA EnrollIs ==
  ASSUME ProcOK, Enroll
  PROVE  /\ proc.at = "enroll" /\ UNCHANGED <<onDisk, images>>
         /\ \/ \E t \in Tokens :
                  /\ session[t] = "free" /\ session' = [session EXCEPT ![t] = "live"]
                  /\ codeUse' = IF proc.way = "code" THEN proc.id ELSE codeUse
                  /\ (Calm /\ UNCHANGED source /\ Takes(t)) \/ (Mishap /\ RunEnds(1))
            \/ UNCHANGED broker /\ (Calm \/ Mishap) /\ RunEnds(1)
BY TakesIs, RunEndsIs, Zenon DEF Enroll

LEMMA PersistIs ==
  ASSUME ProcOK, PersistCredential
  PROVE  /\ UNCHANGED <<broker, images>>
         /\ \/ /\ proc.at = "account" /\ account' = proc.cred /\ UNCHANGED <<source, auth, helper>>
               /\ (\E i \in Ids : EnsureHostId(i)) /\ Moves("auth")
            \/ /\ proc.at = "auth" /\ auth' = proc.cred /\ UNCHANGED <<source, account, idFile, helper>>
               /\ Moves("wire") /\ Calm
            \/ /\ proc.at = "wire" /\ UNCHANGED <<source, account, auth, idFile>> /\ Moves("source")
               /\ (helper' = {"binary", "pointer"} /\ Calm) \/ Mishap
            \/ /\ proc.at = "source" /\ source' = "hardened" /\ UNCHANGED onDisk /\ Moves("report") /\ Calm
            \/ proc.at \in {"account", "auth", "source"} /\ UNCHANGED onDisk /\ Mishap /\ RunEnds(1)
<1>1. {"auth", "wire", "source", "report"} \subseteq RaSteps
  BY DEF RaSteps
<1>2. \A s \in {"auth", "wire", "source", "report"} : Reaches(s) => Moves(s)
  BY <1>1, MovesIs
<1>3. Exit(1) => RunEnds(1)
  BY RunEndsIs
<1>4. /\ Reaches("auth") => Moves("auth")
      /\ Reaches("wire") => Moves("wire")
      /\ Reaches("source") => Moves("source")
      /\ Reaches("report") => Moves("report")
  BY <1>2
<1> QED
  BY <1>3, <1>4, Zenon DEF PersistCredential

LEMMA ReportIs ==
  ASSUME ProcOK, Report
  PROVE  proc.at = "report" /\ RunEnds(0) /\ Calm /\ UNCHANGED <<onDisk, broker, images>>
BY RunEndsIs, Zenon DEF Report

LEMMA ContainerIs ==
  ASSUME ProcOK, ContainerStep
  PROVE  /\ proc.at = "container" /\ UNCHANGED <<source, onDisk, broker, derived, pin, rebuild, overtaken>>
         /\ RunRests \/ Moves("reconcile")
         /\ Calm \/ Mishap
<1>1. "reconcile" \in RaSteps
  BY DEF RaSteps
<1> QED
  BY <1>1, RestsIs, MovesIs, Zenon DEF ContainerStep

LEMMA ReconcileIs ==
  ASSUME ProcOK, Reconcile
  PROVE  /\ UNCHANGED <<source, onDisk, broker, image, fetched, rebuild>> /\ Calm
         /\ \/ proc.at = "reconcile" /\ ~pin /\ RunRests /\ UNCHANGED <<derived, pin, overtaken>>
            \/ proc.at = "reconcile" /\ pin' = FALSE /\ UNCHANGED <<derived, overtaken>> /\ Moves("remove")
            \/ /\ proc.at = "remove" /\ RunRests /\ UNCHANGED pin
               /\ derived' = FALSE \/ derived' = derived
               /\ overtaken' = (overtaken \/ (rebuild = "built" /\ ~derived'))
<1>1. "remove" \in RaSteps /\ "remove" # "reconcile"
  BY DEF RaSteps
<1> QED
  BY <1>1, RestsIs, MovesIs, Zenon DEF Reconcile, ClearsFirst

LEMMA LogoutIs ==
  ASSUME ProcOK, LogoutStep
  PROVE  /\ UNCHANGED <<source, idFile, codeUse, images>>
         /\ \/ /\ proc.at = "revoke" /\ Moves("clear account") /\ UNCHANGED <<account, auth, helper>>
               /\ \/ /\ account # None /\ session' = [session EXCEPT ![account] = "revoked"] /\ Calm
                  \/ account = None /\ UNCHANGED session /\ Calm
                  \/ UNCHANGED session /\ Mishap
            \/ /\ proc.at = "clear account" /\ account' = None /\ Moves("clear auth") /\ Calm
               /\ UNCHANGED <<auth, helper, session>>
            \/ /\ proc.at = "clear auth" /\ auth' = None /\ Moves("unwire") /\ Calm
               /\ UNCHANGED <<account, helper, session>>
            \/ /\ proc.at = "unwire" /\ RunRests /\ UNCHANGED <<account, auth, session>> /\ (Calm \/ Mishap)
<1>1. "clear account" \in RaSteps /\ "clear auth" \in RaSteps /\ "unwire" \in RaSteps
  BY DEF RaSteps
<1> QED
  BY <1>1, RestsIs, MovesIs, Zenon DEF LogoutStep

LEMMA KilledIs ==
  ASSUME ProcOK, Killed
  PROVE  RunRests /\ Mishap /\ UNCHANGED <<source, onDisk, broker, images>>
BY RestsIs, Zenon DEF Killed

\* A token that was come to is not revoked before it is written everywhere.
LEMMA CredStep == ASSUME ProcOK, ProcOK', AccountOK, BrokerOK, CredIsLive, [NextRegistry]_raVars PROVE CredIsLive'
<1> USE RegistryAssumption DEF onDisk, idFile, broker, images, AccountOK, BrokerOK, CredIsLive, SigningIn, RaSteps
<1>1. ASSUME ChooseImageSource PROVE CredIsLive'
  BY <1>1 DEF ChooseImageSource, Started, Resting
<1>2. ASSUME SignInByHand PROVE CredIsLive'
  BY <1>2 DEF SignInByHand, Started, Resting
<1>3. ASSUME Refresh PROVE CredIsLive'
  BY <1>3 DEF Refresh, Started, Resting
<1>4. ASSUME OptOut PROVE CredIsLive'
  BY <1>4 DEF OptOut, Started, Resting
<1>5. ASSUME Logout PROVE CredIsLive'
  BY <1>5 DEF Logout, Started, Resting
<1>6. ASSUME Idempotence PROVE CredIsLive'
  BY <1>6, IdempotenceIs DEF Moves, RunEnds, RunRests, Takes, Enrols, FallsBack, EnsureHostId,
     NextId, SavesId
<1>7. ASSUME SignIn PROVE CredIsLive'
  BY <1>7, SignInIs DEF Moves, RunEnds, RunRests, Takes, Enrols, FallsBack, EnsureHostId, NextId,
     SavesId
<1>8. ASSUME Poll PROVE CredIsLive'
  BY <1>8, PollIs DEF Moves, RunEnds, RunRests, Takes, Enrols, FallsBack, EnsureHostId, NextId, SavesId
<1>9. ASSUME Enroll PROVE CredIsLive'
  <2>1. ASSUME NEW t \in Tokens, session' = [session EXCEPT ![t] = "live"], Takes(t) PROVE CredIsLive'
    BY <2>1, RegistryAssumption DEF Takes
  <2>2. ASSUME RunEnds(1) PROVE CredIsLive'
    BY <2>2 DEF RunEnds
  <2> QED
    BY <1>9, <2>1, <2>2, EnrollIs
<1>10. ASSUME PersistCredential PROVE CredIsLive'
  BY <1>10, PersistIs DEF Moves, RunEnds, RunRests, Takes, Enrols, FallsBack, EnsureHostId, NextId,
     SavesId
<1>11. ASSUME Report PROVE CredIsLive'
  BY <1>11, ReportIs DEF Moves, RunEnds, RunRests, Takes, Enrols, FallsBack, EnsureHostId, NextId,
     SavesId
<1>12. ASSUME ContainerStep PROVE CredIsLive'
  BY <1>12, ContainerIs DEF Moves, RunEnds, RunRests, Takes, Enrols, FallsBack, EnsureHostId,
     NextId, SavesId
<1>13. ASSUME Reconcile PROVE CredIsLive'
  BY <1>13, ReconcileIs DEF Moves, RunEnds, RunRests, Takes, Enrols, FallsBack, EnsureHostId,
     NextId, SavesId
<1>14. ASSUME BuildAgentGroupImage PROVE CredIsLive'
  BY <1>14 DEF BuildAgentGroupImage, Resting
<1>15. ASSUME PinsImage PROVE CredIsLive'
  BY <1>15 DEF PinsImage, Resting
<1>16. ASSUME LogoutStep PROVE CredIsLive'
  BY <1>16, LogoutIs DEF Moves, RunEnds, RunRests, Takes, Enrols, FallsBack, EnsureHostId, NextId,
     SavesId
<1>17. ASSUME Killed PROVE CredIsLive'
  BY <1>17, KilledIs DEF Moves, RunEnds, RunRests, Takes, Enrols, FallsBack, EnsureHostId, NextId,
     SavesId
<1>18. CASE UNCHANGED raVars
  BY <1>18 DEF raVars
<1> QED
  BY <1>1, <1>2, <1>3, <1>4, <1>5, <1>6, <1>7, <1>8, <1>9, <1>10, <1>11, <1>12, <1>13, <1>14, <1>15,
     <1>16, <1>17, <1>18 DEF NextRegistry

\* The id is saved before it is used.
LEMMA IdStep == ASSUME ProcOK, IdsOK, IdIsSaved, [NextRegistry]_raVars PROVE IdIsSaved'
<1> USE RegistryAssumption DEF onDisk, idFile, broker, images, IdsOK, IdIsSaved, CodeSurvives
<1>1. ASSUME ChooseImageSource PROVE IdIsSaved'
  BY <1>1 DEF ChooseImageSource, Started, Resting
<1>2. ASSUME SignInByHand PROVE IdIsSaved'
  BY <1>2 DEF SignInByHand, Started, Resting
<1>3. ASSUME Refresh PROVE IdIsSaved'
  BY <1>3 DEF Refresh, Started, Resting
<1>4. ASSUME OptOut PROVE IdIsSaved'
  BY <1>4 DEF OptOut, Started, Resting
<1>5. ASSUME Logout PROVE IdIsSaved'
  BY <1>5 DEF Logout, Started, Resting
<1>6. ASSUME Idempotence PROVE IdIsSaved'
  BY <1>6, IdempotenceIs DEF Moves, RunEnds, RunRests, Takes, Enrols, FallsBack, EnsureHostId,
     NextId, SavesId
<1>7. ASSUME SignIn PROVE IdIsSaved'
  BY <1>7, SignInIs DEF Moves, RunEnds, RunRests, Takes, Enrols, FallsBack, EnsureHostId, NextId,
     SavesId
<1>8. ASSUME Poll PROVE IdIsSaved'
  BY <1>8, PollIs DEF Moves, RunEnds, RunRests, Takes, Enrols, FallsBack, EnsureHostId, NextId, SavesId
<1>9. ASSUME Enroll PROVE IdIsSaved'
  BY <1>9, EnrollIs DEF Moves, RunEnds, RunRests, Takes, Enrols, FallsBack, EnsureHostId, NextId,
     SavesId
<1>10. ASSUME PersistCredential PROVE IdIsSaved'
  BY <1>10, PersistIs DEF Moves, RunEnds, RunRests, Takes, Enrols, FallsBack, EnsureHostId, NextId,
     SavesId
<1>11. ASSUME Report PROVE IdIsSaved'
  BY <1>11, ReportIs DEF Moves, RunEnds, RunRests, Takes, Enrols, FallsBack, EnsureHostId, NextId,
     SavesId
<1>12. ASSUME ContainerStep PROVE IdIsSaved'
  BY <1>12, ContainerIs DEF Moves, RunEnds, RunRests, Takes, Enrols, FallsBack, EnsureHostId,
     NextId, SavesId
<1>13. ASSUME Reconcile PROVE IdIsSaved'
  BY <1>13, ReconcileIs DEF Moves, RunEnds, RunRests, Takes, Enrols, FallsBack, EnsureHostId,
     NextId, SavesId
<1>14. ASSUME BuildAgentGroupImage PROVE IdIsSaved'
  BY <1>14 DEF BuildAgentGroupImage, Resting
<1>15. ASSUME PinsImage PROVE IdIsSaved'
  BY <1>15 DEF PinsImage, Resting
<1>16. ASSUME LogoutStep PROVE IdIsSaved'
  BY <1>16, LogoutIs DEF Moves, RunEnds, RunRests, Takes, Enrols, FallsBack, EnsureHostId, NextId,
     SavesId
<1>17. ASSUME Killed PROVE IdIsSaved'
  BY <1>17, KilledIs DEF Moves, RunEnds, RunRests, Takes, Enrols, FallsBack, EnsureHostId, NextId,
     SavesId
<1>18. CASE UNCHANGED raVars
  BY <1>18 DEF raVars
<1> QED
  BY <1>1, <1>2, <1>3, <1>4, <1>5, <1>6, <1>7, <1>8, <1>9, <1>10, <1>11, <1>12, <1>13, <1>14, <1>15,
     <1>16, <1>17, <1>18 DEF NextRegistry

\* What the host builds is pinned, or was overtaken.
LEMMA ImageStep == ASSUME ProcOK, TruthsOK, ImageInv, [NextRegistry]_raVars PROVE ImageInv'
<1> USE DEF TruthsOK, ImageInv, PinHasImage
<1>1. ASSUME UNCHANGED <<pin, derived, overtaken, rebuild>>, proc'.at = "remove" => proc.at = "remove" PROVE ImageInv'
  BY <1>1
<1>2. ASSUME ChooseImageSource \/ SignInByHand \/ Refresh \/ OptOut \/ Logout
      PROVE  UNCHANGED <<pin, derived, overtaken, rebuild>> /\ (proc'.at = "remove" => proc.at = "remove")
  BY <1>2 DEF ChooseImageSource, SignInByHand, Refresh, OptOut, Logout, images, Resting
<1>3. ASSUME Idempotence \/ SignIn \/ Poll \/ Enroll \/ PersistCredential \/ Report
      PROVE  UNCHANGED <<pin, derived, overtaken, rebuild>> /\ (proc'.at = "remove" => proc.at = "remove")
  <2>1. UNCHANGED images
    BY <1>3, Zenon DEF Idempotence, SignIn, Poll, Enroll, PersistCredential, Report
  <2>2. proc'.at # "remove"
    <3>1. ASSUME NEW code, RunEnds(code) PROVE proc'.at # "remove"
      BY <3>1 DEF RunEnds
    <3>2. ASSUME NEW t, Takes(t) PROVE proc'.at # "remove"
      BY <3>2 DEF Takes
    <3>3. ASSUME NEW i, Enrols(i) PROVE proc'.at # "remove"
      BY <3>3 DEF Enrols
    <3>4. ASSUME NEW a \in {"sign-in", "poll", "auth", "wire", "source", "report"}, Moves(a) PROVE proc'.at # "remove"
      BY <3>4 DEF Moves
    <3> QED
      BY <1>3, <3>1, <3>2, <3>3, <3>4, IdempotenceIs, SignInIs, PollIs, EnrollIs, PersistIs, ReportIs
  <2> QED
    BY <2>1, <2>2 DEF images
<1>4. ASSUME ContainerStep PROVE UNCHANGED <<pin, derived, overtaken, rebuild>> /\ proc'.at # "remove"
  <2>1. UNCHANGED <<derived, pin, rebuild, overtaken>> /\ (RunRests \/ Moves("reconcile"))
    BY <1>4, ContainerIs
  <2> QED
    BY <2>1 DEF RunRests, Moves
<1>5. ASSUME Reconcile PROVE ImageInv'
  <2>0. UNCHANGED rebuild
    BY <1>5, ReconcileIs
  <2>1. CASE proc.at = "reconcile" /\ ~pin /\ RunRests /\ UNCHANGED <<derived, pin, overtaken>>
    BY <2>0, <2>1 DEF RunRests
  <2>2. CASE proc.at = "reconcile" /\ pin' = FALSE /\ UNCHANGED <<derived, overtaken>> /\ Moves("remove")
    BY <2>0, <2>2
  <2>3. CASE /\ proc.at = "remove" /\ RunRests /\ UNCHANGED pin
             /\ derived' = FALSE \/ derived' = derived
             /\ overtaken' = (overtaken \/ (rebuild = "built" /\ ~derived'))
    BY <2>0, <2>3 DEF RunRests
  <2> QED
    BY <1>5, <2>1, <2>2, <2>3, ReconcileIs
<1>6. ASSUME BuildAgentGroupImage PROVE ImageInv'
  BY <1>6 DEF BuildAgentGroupImage
<1>7. ASSUME PinsImage PROVE ImageInv'
  <2>1. /\ rebuild = "built" /\ rebuild' = "no" /\ derived' = derived /\ proc' = proc /\ (pin' = pin \/ pin' = TRUE)
        /\ overtaken' = (overtaken \/ (pin' /\ proc.at = "remove"))
    BY <1>7, Zenon DEF PinsImage
  <2> QED
    BY <2>1
<1>8. ASSUME LogoutStep PROVE UNCHANGED <<pin, derived, overtaken, rebuild>> /\ proc'.at # "remove"
  <2>1. UNCHANGED images /\ (RunRests \/ \E a \in {"clear account", "clear auth", "unwire"} : Moves(a))
    BY <1>8, LogoutIs
  <2> QED
    BY <2>1 DEF RunRests, Moves, images
<1>9. ASSUME Killed PROVE UNCHANGED <<pin, derived, overtaken, rebuild>> /\ proc'.at # "remove"
  BY <1>9, KilledIs DEF RunRests, images
<1>10. CASE UNCHANGED raVars
  BY <1>10 DEF raVars
<1> QED
  BY <1>1, <1>2, <1>3, <1>4, <1>5, <1>6, <1>7, <1>8, <1>9, <1>10 DEF NextRegistry

\* A failure ends what is claimed of a calm run.
LEMMA MishapEnds == ASSUME RaTriesOK, Mishap PROVE CalmInv'
<1>1. Spent' # 0
  BY RegistryAssumption DEF RaTriesOK, Mishap, Spent
<1> QED
  BY <1>1 DEF CalmInv

LEMMA CalmStays == ASSUME Calm PROVE Spent' = Spent
BY DEF Calm, bounds, Spent

LEMMA CanPullStays ==
  ASSUME UNCHANGED <<account, auth, helper, session>>
  PROVE  (CanPull' <=> CanPull) /\ (SignedOut' <=> SignedOut)
BY DEF CanPull, SignedOut, Signed

\* As long as nothing fails, an install that pulls can, or was signed out.
LEMMA CalmStep ==
  ASSUME ProcOK, AccountOK, BrokerOK, RaTriesOK, CredIsLive, CalmInv, [NextRegistry]_raVars
  PROVE  CalmInv'
<1> USE DEF onDisk, idFile, broker, CalmInv, SigningIn
<1>1. ASSUME Started, UNCHANGED <<account, auth, helper, session>>, proc.at = "idle",
             source' = "hardened" => source = "hardened" \/ (proc'.at = "login" /\ proc'.wizard),
             proc'.at \in {"idle", "container", "login", "revoke"}
      PROVE  CalmInv'
  <2>1. Spent' = Spent
    BY <1>1 DEF Started, Spent
  <2> QED
    BY <1>1, <2>1, CanPullStays
<1>2. ASSUME ChooseImageSource \/ SignInByHand \/ Refresh \/ OptOut \/ Logout PROVE CalmInv'
  <2>1. Started /\ UNCHANGED <<account, auth, helper, session>>
    BY <1>2, Zenon DEF ChooseImageSource, SignInByHand, Refresh, OptOut, Logout
  <2>2. proc.at = "idle"
    BY <2>1 DEF Started
  <2>3. /\ source' = "hardened" => source = "hardened" \/ (proc'.at = "login" /\ proc'.wizard)
        /\ proc'.at \in {"idle", "container", "login", "revoke"}
    BY <1>2, <2>2 DEF ChooseImageSource, SignInByHand, Refresh, OptOut, Logout, Resting
  <2> QED
    BY <1>1, <2>1, <2>2, <2>3
<1>3. ASSUME Mishap PROVE CalmInv'
  BY <1>3, MishapEnds
<1> HIDE DEF CalmInv
<1> DEFINE Same == UNCHANGED <<account, auth, helper, session>>
<1>4. ASSUME Calm, Same, proc.at \in SigningIn, NEW code, code # 0, RunEnds(code) PROVE CalmInv'
  BY <1>4, CalmStays, CanPullStays DEF CalmInv, RunEnds, FallsBack
<1>5. ASSUME Calm, Same, UNCHANGED source, proc.at \in SigningIn,
             proc'.at \in SigningIn \cup {"account"}, proc'.wizard = proc.wizard
      PROVE  CalmInv'
  BY <1>5, CalmStays, CanPullStays DEF CalmInv
<1>6. ASSUME Idempotence PROVE CalmInv'
  <2>1. Same /\ proc.at \in SigningIn
    BY <1>6, IdempotenceIs
  <2> QED
    BY <1>3, <1>5, <1>6, <2>1, IdempotenceIs DEF Takes, Moves
<1>7. ASSUME NEW i, EnsureHostId(i) PROVE Calm \/ Mishap
  BY <1>7, Zenon DEF EnsureHostId
<1>8. ASSUME SignIn PROVE CalmInv'
  <2>1. Same /\ proc.at \in SigningIn
    BY <1>8, SignInIs
  <2>2. CASE Calm /\ UNCHANGED source /\ (Takes(Preset) \/ Moves("poll"))
    BY <1>5, <2>1, <2>2 DEF Takes, Moves
  <2>3. CASE UNCHANGED source /\ \E i \in Ids : EnsureHostId(i) /\ Enrols(i)
    BY <1>3, <1>5, <1>7, <2>1, <2>3 DEF Enrols
  <2>4. ASSUME NEW code \in {1, 2}, RunEnds(code), Calm PROVE CalmInv'
    BY <1>4, <2>1, <2>4
  <2> QED
    BY <1>3, <1>8, <2>2, <2>3, <2>4, SignInIs
<1>9. ASSUME Poll PROVE CalmInv'
  <2>1. Same /\ proc.at \in SigningIn
    BY <1>9, PollIs
  <2>2. CASE UNCHANGED source /\ \E i \in Ids : EnsureHostId(i) /\ Enrols(i)
    BY <1>3, <1>5, <1>7, <2>1, <2>2 DEF Enrols
  <2>3. CASE Calm /\ RunEnds(1)
    BY <1>4, <2>1, <2>3
  <2> QED
    BY <1>9, <2>2, <2>3, PollIs
<1>10. ASSUME Enroll PROVE CalmInv'
  <2>1. proc.at = "enroll" /\ UNCHANGED <<account, auth, helper>>
    BY <1>10, EnrollIs
  <2>2. ASSUME NEW t \in Tokens, session[t] = "free", session' = [session EXCEPT ![t] = "live"],
               Calm, UNCHANGED source, Takes(t)
        PROVE  CalmInv'
    <3>1. CanPull => CanPull'
      BY <2>1, <2>2 DEF CanPull, Signed, SignedOut, AccountOK, BrokerOK
    <3> QED
      BY <2>1, <2>2, <3>1, CalmStays DEF CalmInv, Takes
  <2>3. ASSUME UNCHANGED session, Calm, RunEnds(1) PROVE CalmInv'
    BY <1>4, <2>1, <2>3
  <2> QED
    BY <1>3, <1>10, <2>2, <2>3, EnrollIs
<1>11. ASSUME PersistCredential PROVE CalmInv'
  <2>0. UNCHANGED session
    BY <1>11, PersistIs
  <2>1. ASSUME proc.at = "account", account' = proc.cred, UNCHANGED <<source, auth, helper>>, Calm, Moves("auth")
        PROVE  CalmInv'
    BY <2>1 DEF CalmInv, Moves
  <2>2. ASSUME proc.at = "auth", auth' = proc.cred, UNCHANGED <<source, account, helper>>, Calm, Moves("wire")
        PROVE  CalmInv'
    BY <2>2 DEF CalmInv, Moves, CredIsLive
  <2>3. ASSUME proc.at = "wire", UNCHANGED <<source, account, auth>>, helper' = {"binary", "pointer"}, Calm,
               Moves("source")
        PROVE  CalmInv'
    BY <2>3 DEF CalmInv, Moves, CredIsLive
  <2>4. ASSUME proc.at = "source", source' = "hardened", Same, Calm, Moves("report") PROVE CalmInv'
    BY <2>4, CalmStays DEF CalmInv, Moves
  <2>5. CASE proc.at = "account"
    BY <1>3, <1>7, <1>11, <2>1, <2>5, PersistIs
  <2>6. CASE proc.at = "auth"
    BY <1>3, <1>11, <2>2, <2>6, PersistIs
  <2>7. CASE proc.at = "wire"
    BY <1>3, <1>11, <2>3, <2>7, PersistIs
  <2>8. CASE proc.at = "source"
    BY <1>3, <1>11, <2>0, <2>4, <2>8, PersistIs
  <2> QED
    BY <1>11, <2>5, <2>6, <2>7, <2>8, PersistIs
<1>12. ASSUME Report PROVE CalmInv'
  <2>1. proc.at = "report" /\ RunEnds(0) /\ Calm /\ Same
    BY <1>12, ReportIs
  <2>2. Spent = 0 => CanPull
    BY <2>1, RegistryAssumption DEF CalmInv, CanPull, Signed, CredIsLive
  <2>3. proc'.at \in {"container", "idle"}
    BY <2>1 DEF RunEnds
  <2> QED
    BY <2>1, <2>2, <2>3, CalmStays, CanPullStays DEF CalmInv
<1>13. ASSUME ContainerStep PROVE CalmInv'
  <2>1. Same /\ UNCHANGED source /\ proc.at = "container" /\ proc'.at \in {"idle", "reconcile"}
    BY <1>13, ContainerIs DEF RunRests, Moves
  <2> QED
    BY <1>3, <1>13, <2>1, CalmStays, CanPullStays, ContainerIs DEF CalmInv
<1>14. ASSUME Reconcile PROVE CalmInv'
  <2>1. Same /\ UNCHANGED source /\ proc.at \in {"reconcile", "remove"} /\ proc'.at \in {"idle", "remove"} /\ Calm
    BY <1>14, ReconcileIs DEF RunRests, Moves
  <2> QED
    BY <2>1, CalmStays, CanPullStays DEF CalmInv
<1>15. ASSUME BuildAgentGroupImage \/ PinsImage PROVE CalmInv'
  <2>1. Same /\ UNCHANGED <<source, proc, bounds>>
    BY <1>15, Zenon DEF BuildAgentGroupImage, PinsImage
  <2> QED
    BY <2>1, CalmStays, CanPullStays DEF CalmInv, Calm
<1>16. ASSUME LogoutStep PROVE CalmInv'
  <2>0. UNCHANGED source
    BY <1>16, LogoutIs
  <2>1. ASSUME proc.at = "revoke", Moves("clear account"), UNCHANGED <<account, auth, helper>>, Calm,
               account # None, session' = [session EXCEPT ![account] = "revoked"]
        PROVE  CalmInv'
    <3>1. SignedOut'
      BY <2>1 DEF SignedOut, AccountOK, BrokerOK
    <3> QED
      BY <2>1, <3>1, CalmStays DEF CalmInv, Moves
  <2>2. ASSUME proc.at = "revoke", Moves("clear account"), UNCHANGED <<account, auth, helper>>, Calm,
               account = None, UNCHANGED session
        PROVE  CalmInv'
    <3>1. CanPull => SignedOut
      BY <2>2, RegistryAssumption DEF CanPull, Signed, BrokerOK
    <3> QED
      BY <2>0, <2>2, <3>1, CalmStays, CanPullStays DEF CalmInv, Moves
  <2>3. ASSUME proc.at = "clear account", account' = None, Moves("clear auth"), Calm,
               UNCHANGED <<auth, helper, session>>
        PROVE  CalmInv'
    BY <2>0, <2>3, CalmStays DEF CalmInv, Moves, SignedOut
  <2>4. ASSUME proc.at = "clear auth", auth' = None, Moves("unwire"), Calm, UNCHANGED <<account, helper, session>>
        PROVE  CalmInv'
    BY <2>0, <2>4, CalmStays DEF CalmInv, Moves, SignedOut
  <2>5. ASSUME proc.at = "unwire", RunRests, UNCHANGED <<account, auth, session>>, Calm PROVE CalmInv'
    BY <2>0, <2>5, CalmStays DEF CalmInv, RunRests, SignedOut, CanPull
  <2> QED
    BY <1>3, <1>16, <2>1, <2>2, <2>3, <2>4, <2>5, LogoutIs
<1>17. ASSUME Killed PROVE CalmInv'
  BY <1>3, <1>17, KilledIs
<1>18. CASE UNCHANGED raVars
  BY <1>18, CanPullStays DEF raVars, CalmInv, Spent
<1> QED
  BY <1>2, <1>6, <1>8, <1>9, <1>10, <1>11, <1>12, <1>13, <1>14, <1>15, <1>16, <1>17, <1>18
     DEF NextRegistry

\* What a step makes of the tokens at large.
LEMMA LooseStays ==
  ASSUME RaTriesOK, RaTriesOK', LooseInv, Loose' \subseteq Loose, MayLose' => MayLose,
         Paid' >= Paid, Replaces'
  PROVE  LooseInv'
<1>1. IsFiniteSet(Loose) /\ Cardinality(Loose) \in Nat
  BY FS_CardinalityType DEF LooseInv
<1>2. IsFiniteSet(Loose') /\ Cardinality(Loose') <= Cardinality(Loose) /\ Cardinality(Loose') \in Nat
  BY <1>1, FS_Subset, FS_CardinalityType
<1>3. Paid \in Int /\ Paid' \in Int
  BY RegistryAssumption DEF RaTriesOK, Spent, Paid
<1>4. Losses' <= Losses
  BY <1>1, <1>2 DEF Losses
<1>5. Losses \in Int /\ Losses' \in Int
  BY <1>1, <1>2 DEF Losses
<1>6. Losses <= Paid
  BY DEF LooseInv
<1>7. Losses' <= Paid'
  BY <1>3, <1>4, <1>5, <1>6
<1> QED
  BY <1>2, <1>7 DEF LooseInv

\* One token more is paid for, or was owed.
LEMMA LooseGrows ==
  ASSUME RaTriesOK, RaTriesOK', LooseInv, NEW x, Loose' \subseteq Loose \cup {x}, ~MayLose',
         \/ MayLose /\ Paid' >= Paid
         \/ Paid' >= Paid + 1,
         Replaces'
  PROVE  LooseInv'
<1>1. IsFiniteSet(Loose) /\ Cardinality(Loose) \in Nat
  BY FS_CardinalityType DEF LooseInv
<1>2. IsFiniteSet(Loose \cup {x}) /\ Cardinality(Loose \cup {x}) <= Cardinality(Loose) + 1
      /\ Cardinality(Loose \cup {x}) \in Nat
  BY <1>1, FS_AddElement, FS_CardinalityType
<1>3. IsFiniteSet(Loose') /\ Cardinality(Loose') <= Cardinality(Loose) + 1 /\ Cardinality(Loose') \in Nat
  <2>1. IsFiniteSet(Loose') /\ Cardinality(Loose') <= Cardinality(Loose \cup {x}) /\ Cardinality(Loose') \in Nat
    BY <1>2, FS_Subset, FS_CardinalityType
  <2> QED
    BY <1>1, <1>2, <2>1
<1>4. Paid \in Int /\ Paid' \in Int
  BY RegistryAssumption DEF RaTriesOK, Spent, Paid
<1>5. Losses' = Cardinality(Loose') /\ (MayLose => Losses = Cardinality(Loose) + 1) /\ Losses >= Cardinality(Loose)
  BY <1>1, <1>3 DEF Losses
<1>6. Losses \in Int
  BY <1>1 DEF Losses
<1>8. Losses <= Paid
  BY DEF LooseInv
<1>7. Losses' <= Paid'
  BY <1>1, <1>3, <1>4, <1>5, <1>6, <1>8
<1> QED
  BY <1>3, <1>7 DEF LooseInv

\* A step that may lose one from now on is paid for.
LEMMA LooseOwes ==
  ASSUME RaTriesOK, RaTriesOK', LooseInv, Loose' \subseteq Loose, Paid' >= Paid + 1, Replaces'
  PROVE  LooseInv'
<1>1. IsFiniteSet(Loose) /\ Cardinality(Loose) \in Nat
  BY FS_CardinalityType DEF LooseInv
<1>2. IsFiniteSet(Loose') /\ Cardinality(Loose') <= Cardinality(Loose) /\ Cardinality(Loose') \in Nat
  BY <1>1, FS_Subset, FS_CardinalityType
<1>3. Paid \in Int /\ Paid' \in Int
  BY RegistryAssumption DEF RaTriesOK, Spent, Paid
<1>4. Losses' <= Losses + 1
  BY <1>1, <1>2 DEF Losses
<1>5. Losses \in Int /\ Losses' \in Int
  BY <1>1, <1>2 DEF Losses
<1>6. Losses <= Paid
  BY DEF LooseInv
<1>7. Losses' <= Paid'
  BY <1>3, <1>4, <1>5, <1>6
<1> QED
  BY <1>2, <1>7 DEF LooseInv

LEMMA CalmPays == ASSUME RaTriesOK, Calm PROVE Paid' >= Paid
BY RegistryAssumption DEF RaTriesOK, Calm, bounds, Spent, Paid

LEMMA MishapPays ==
  ASSUME RaTriesOK, Mishap
  PROVE  Paid' >= Paid + 1 /\ Paid' >= Paid
BY RegistryAssumption DEF RaTriesOK, Mishap, Spent, Paid

\* Every token that gets loose is paid for by a failure or by a forced sign-in.
LEMMA LooseStep ==
  ASSUME ProcOK, AccountOK, BrokerOK, RaTriesOK, RaTriesOK', CredIsLive, LooseInv, [NextRegistry]_raVars
  PROVE  LooseInv'
<1> USE DEF onDisk, idFile, broker
<1>0. Spent \in Int /\ forced \in Int /\ Spent' \in Int /\ forced' \in Int
  BY RegistryAssumption DEF RaTriesOK, Spent
<1>c. ASSUME Calm PROVE Paid' >= Paid
  BY <1>c, CalmPays
<1>m. ASSUME Mishap PROVE Paid' >= Paid + 1 /\ Paid' >= Paid
  BY <1>m, MishapPays
<1>a. ASSUME NEW i, EnsureHostId(i) PROVE Paid' >= Paid
  <2>1. Calm \/ Mishap
    BY <1>a, Zenon DEF EnsureHostId
  <2> QED
    BY <2>1, <1>c, <1>m
<1> DEFINE Kept == UNCHANGED <<account, session>>
\* Steps that change neither the account nor the sessions, nor bring a token.
<1>k. ASSUME Kept, proc'.cred = proc.cred \/ proc.cred = None \/ proc.cred = account
      PROVE  Loose' \subseteq Loose
  <2>1. CASE proc'.cred = proc.cred
    BY <1>k, <2>1 DEF Loose
  <2>2. CASE proc.cred = None
    BY <1>k, <2>2, RegistryAssumption DEF Loose
  <2>3. CASE proc.cred = account
    BY <1>k, <2>3 DEF Loose
  <2> QED
    BY <1>k, <2>1, <2>2, <2>3
<1>e. ASSUME Kept, proc'.cred = None PROVE Loose' \subseteq Loose \cup {proc.cred}
  BY <1>e DEF Loose
<1>1. ASSUME ChooseImageSource \/ SignInByHand \/ Refresh \/ OptOut \/ Logout PROVE LooseInv'
  <2>1. Started /\ Kept
    BY <1>1, Zenon DEF ChooseImageSource, SignInByHand, Refresh, OptOut, Logout
  <2>2. proc.at = "idle" /\ Spent' = Spent
    BY <2>1 DEF Started, Spent
  <2>3. /\ proc.cred = None
        /\ proc'.at \in {"idle", "container", "login", "revoke"}
    BY <1>1, <2>2 DEF ChooseImageSource, SignInByHand, Refresh, OptOut, Logout, Resting, CredIsLive
  <2>4. Replaces' /\ Loose' \subseteq Loose
    BY <1>k, <2>1, <2>3 DEF Replaces
  <2>5. CASE forced' = forced /\ ~(proc'.force /\ proc'.at = "login")
    <3>1. ~MayLose'
      BY <2>3, <2>5 DEF MayLose, SigningIn
    <3>2. Paid' >= Paid
      BY <1>0, <2>2, <2>5 DEF Paid
    <3> QED
      BY <2>4, <3>1, <3>2, LooseStays
  <2>6. CASE forced' = forced + 1
    <3>1. Paid' >= Paid + 1
      BY <1>0, <2>2, <2>6 DEF Paid
    <3> QED
      BY <2>4, <3>1, LooseOwes
  <2>7. \/ forced' = forced /\ ~(proc'.force /\ proc'.at = "login")
        \/ forced' = forced + 1
    BY <1>1, <2>2 DEF ChooseImageSource, SignInByHand, Refresh, OptOut, Logout, Resting
  <2> QED
    BY <2>5, <2>6, <2>7
<1>2. ASSUME Kept, RunRests \/ \E code : RunEnds(code), Calm \/ Mishap, proc.cred = None \/ proc.cred = account
      PROVE  LooseInv'
  <2>1. ~MayLose' /\ Replaces'
    BY <1>2 DEF RunRests, RunEnds, MayLose, Replaces, SigningIn
  <2> QED
    BY <1>2, <1>c, <1>k, <1>m, <2>1, LooseStays
<1>3. ASSUME Kept, RunRests \/ \E code : RunEnds(code), Mishap PROVE LooseInv'
  <2>1. ~MayLose' /\ Replaces' /\ proc'.cred = None
    BY <1>3 DEF RunRests, RunEnds, MayLose, Replaces, SigningIn
  <2> QED
    BY <1>3, <1>e, <1>m, <2>1, LooseGrows
<1>4. ASSUME proc.at \in SigningIn PROVE proc.cred = None
  BY <1>4 DEF SigningIn, CredIsLive
\* A sign-in goes on.
<1>5. ASSUME Kept, proc.at \in SigningIn, proc'.at \in SigningIn \cup {"account"}, proc'.force = proc.force,
             Paid' >= Paid, Replaces'
      PROVE  LooseInv'
  <2>1. MayLose' => MayLose
    BY <1>5 DEF MayLose, SigningIn
  <2> QED
    BY <1>4, <1>5, <1>k, <2>1, LooseStays
<1>6. ASSUME Idempotence PROVE LooseInv'
  <2>1. Kept /\ proc.at \in SigningIn
    BY <1>6, IdempotenceIs DEF SigningIn
  <2>2. CASE Calm /\ Takes(account)
    BY <1>5, <1>c, <2>1, <2>2 DEF Takes, Replaces
  <2>3. CASE Mishap /\ RunEnds(0)
    BY <1>2, <1>4, <2>1, <2>3
  <2>4. CASE /\ account # None /\ ~proc.force => session[account] # "live"
             /\ Calm /\ Moves("sign-in")
    BY <1>5, <1>c, <2>1, <2>4 DEF Moves, Replaces, SigningIn
  <2> QED
    BY <1>6, <2>2, <2>3, <2>4, IdempotenceIs
<1>7. ASSUME SignIn PROVE LooseInv'
  <2>1. Kept /\ proc.at \in SigningIn /\ proc.at = "sign-in"
    BY <1>7, SignInIs DEF SigningIn
  <2>2. CASE Calm /\ (Takes(Preset) \/ Moves("poll"))
    <3>1. Replaces'
      BY <1>4, <2>1, <2>2, RegistryAssumption DEF Takes, Moves, Replaces, LooseInv
    <3> QED
      BY <1>5, <1>c, <2>1, <2>2, <3>1 DEF Takes, Moves, SigningIn
  <2>3. ASSUME NEW i \in Ids, EnsureHostId(i), Enrols(i) PROVE LooseInv'
    BY <1>5, <1>a, <2>1, <2>3 DEF Enrols, Replaces, SigningIn, LooseInv
  <2>4. CASE (Calm \/ Mishap) /\ \E code \in {1, 2} : RunEnds(code)
    BY <1>2, <1>4, <2>1, <2>4
  <2> QED
    BY <1>7, <2>2, <2>3, <2>4, SignInIs
<1>8. ASSUME Poll PROVE LooseInv'
  <2>1. Kept /\ proc.at \in SigningIn /\ proc.at = "poll"
    BY <1>8, PollIs DEF SigningIn
  <2>2. ASSUME NEW i \in Ids, EnsureHostId(i), Enrols(i) PROVE LooseInv'
    BY <1>5, <1>a, <2>1, <2>2 DEF Enrols, Replaces, SigningIn, LooseInv
  <2>3. CASE Calm /\ RunEnds(1)
    BY <1>2, <1>4, <2>1, <2>3
  <2> QED
    BY <1>8, <2>2, <2>3, PollIs
<1>9. ASSUME Enroll PROVE LooseInv'
  <2>1. proc.at = "enroll" /\ proc.at \in SigningIn /\ UNCHANGED account
    BY <1>9, EnrollIs DEF SigningIn
  <2>2. ASSUME NEW t \in Tokens, session' = [session EXCEPT ![t] = "live"], Calm, Takes(t) PROVE LooseInv'
    <3>1. Loose' \subseteq Loose
      BY <1>4, <2>1, <2>2, RegistryAssumption DEF Loose, Takes, BrokerOK
    <3>2. Replaces'
      BY <1>4, <2>1, <2>2, RegistryAssumption DEF Takes, Replaces, LooseInv, BrokerOK, AccountOK
    <3>3. MayLose' => MayLose
      BY <2>1, <2>2 DEF MayLose, Takes, SigningIn
    <3> QED
      BY <1>c, <2>2, <3>1, <3>2, <3>3, LooseStays
  <2>3. ASSUME NEW t \in Tokens, session' = [session EXCEPT ![t] = "live"], Mishap, RunEnds(1) PROVE LooseInv'
    <3>1. Loose' \subseteq Loose \cup {t}
      BY <1>4, <2>1, <2>3, RegistryAssumption DEF Loose, RunEnds, BrokerOK
    <3>2. ~MayLose' /\ Replaces'
      BY <2>3 DEF RunEnds, MayLose, Replaces, SigningIn
    <3> QED
      BY <1>m, <2>3, <3>1, <3>2, LooseGrows
  <2>4. ASSUME UNCHANGED session, Calm \/ Mishap, RunEnds(1) PROVE LooseInv'
    BY <1>2, <1>4, <2>1, <2>4
  <2> QED
    BY <1>9, <2>2, <2>3, <2>4, EnrollIs
<1>10. ASSUME PersistCredential PROVE LooseInv'
  <2>0. UNCHANGED session
    BY <1>10, PersistIs
  <2>1. ASSUME proc.at = "account", account' = proc.cred, Moves("auth"), NEW i, EnsureHostId(i) PROVE LooseInv'
    <3>1. ~MayLose' /\ Replaces'
      BY <2>1 DEF Moves, MayLose, Replaces, SigningIn
    <3>2. CASE proc.force
      <4>1. MayLose /\ Loose' \subseteq Loose \cup {account}
        BY <2>0, <2>1, <3>2 DEF MayLose, Loose, Moves
      <4> QED
        BY <1>a, <2>1, <3>1, <4>1, LooseGrows
    <3>3. CASE ~proc.force
      <4>1. account = None \/ session[account] # "live" \/ account = proc.cred
        BY <2>1, <3>3 DEF LooseInv, Replaces
      <4>2. Loose' \subseteq Loose
        BY <2>0, <2>1, <4>1, RegistryAssumption DEF Loose, Moves
      <4> QED
        BY <1>a, <2>1, <3>1, <4>2, LooseStays
    <3> QED
      BY <3>2, <3>3
  <2>2. ASSUME Kept, proc.at \in {"auth", "wire", "source"}, NEW a \in {"wire", "source", "report"}, Moves(a),
               Calm \/ Mishap
        PROVE  LooseInv'
    <3>1. ~MayLose' /\ Replaces'
      BY <2>2 DEF Moves, MayLose, Replaces, SigningIn
    <3> QED
      BY <1>k, <1>c, <1>m, <2>2, <3>1, LooseStays DEF Moves
  <2>3. CASE proc.at = "account"
    BY <1>3, <1>10, <2>0, <2>1, <2>3, PersistIs
  <2>4. CASE proc.at \in {"auth", "wire", "source"}
    <3>1. \/ Kept /\ (Calm \/ Mishap) /\ \E a \in {"wire", "source", "report"} : Moves(a)
          \/ Kept /\ Mishap /\ RunEnds(1)
      BY <1>10, <2>0, <2>4, PersistIs
    <3> QED
      BY <1>3, <2>2, <2>4, <3>1
  <2> QED
    BY <1>10, <2>3, <2>4, PersistIs
<1>11. ASSUME Report PROVE LooseInv'
  BY <1>2, <1>11, ReportIs DEF CredIsLive
<1>12. ASSUME UNCHANGED account, proc.cred = None, proc'.cred = None, Kept, Calm \/ Mishap,
              proc'.at \in {"idle", "reconcile", "remove", "clear auth", "unwire"}
       PROVE  LooseInv'
  <2>1. ~MayLose' /\ Replaces'
    BY <1>12 DEF MayLose, Replaces, SigningIn
  <2> QED
    BY <1>12, <1>c, <1>k, <1>m, <2>1, LooseStays
<1>13. ASSUME ContainerStep PROVE LooseInv'
  BY <1>12, <1>13, ContainerIs DEF RunRests, Moves, CredIsLive
<1>14. ASSUME Reconcile PROVE LooseInv'
  BY <1>12, <1>14, ReconcileIs DEF RunRests, Moves, CredIsLive
<1>15. ASSUME BuildAgentGroupImage \/ PinsImage PROVE LooseInv'
  <2>1. UNCHANGED <<account, session, proc, bounds>>
    BY <1>15, Zenon DEF BuildAgentGroupImage, PinsImage
  <2>2. Replaces' /\ (MayLose' => MayLose) /\ Calm
    BY <2>1 DEF Replaces, LooseInv, MayLose, Calm
  <2> QED
    BY <1>c, <1>k, <2>1, <2>2, LooseStays
<1>16. ASSUME LogoutStep PROVE LooseInv'
  <2>1. ASSUME proc.at = "revoke", Moves("clear account"), UNCHANGED account, Calm,
               account # None, session' = [session EXCEPT ![account] = "revoked"]
        PROVE  LooseInv'
    <3>1. Loose' \subseteq Loose
      BY <2>1 DEF Loose, Moves, BrokerOK
    <3>2. ~MayLose' /\ Replaces'
      BY <2>1 DEF MayLose, Replaces, Moves, SigningIn, BrokerOK, AccountOK
    <3> QED
      BY <1>c, <2>1, <3>1, <3>2, LooseStays
  <2>2. ASSUME proc.at = "revoke", Moves("clear account"), Kept, Calm, account = None PROVE LooseInv'
    <3>1. ~MayLose' /\ Replaces'
      BY <2>2 DEF MayLose, Replaces, Moves, SigningIn
    <3> QED
      BY <1>c, <1>k, <2>2, <3>1, LooseStays DEF Moves
  <2>3. ASSUME proc.at = "revoke", Moves("clear account"), Kept, Mishap PROVE LooseInv'
    <3>1. Replaces'
      BY <2>3 DEF Replaces, Moves
    <3> QED
      BY <1>k, <1>m, <2>3, <3>1, LooseOwes DEF Moves
  <2>4. ASSUME proc.at = "clear account", account' = None, Moves("clear auth"), Calm, UNCHANGED session
        PROVE  LooseInv'
    <3>1. ~MayLose' /\ Replaces'
      BY <2>4 DEF MayLose, Replaces, Moves, SigningIn
    <3>2. CASE MayLose
      <4>1. Loose' \subseteq Loose \cup {account}
        BY <2>4 DEF Loose, Moves
      <4> QED
        BY <1>c, <2>4, <3>1, <3>2, <4>1, LooseGrows
    <3>3. CASE ~MayLose
      <4>1. Loose' \subseteq Loose
        BY <2>4, <3>3, RegistryAssumption DEF Loose, Moves, MayLose
      <4> QED
        BY <1>c, <2>4, <3>1, <4>1, LooseStays
    <3> QED
      BY <3>2, <3>3
  <2>5. ASSUME proc.at = "clear auth", Moves("unwire"), Calm, Kept PROVE LooseInv'
    BY <1>12, <2>5 DEF Moves, CredIsLive
  <2>6. ASSUME proc.at = "unwire", RunRests, Kept, Calm \/ Mishap PROVE LooseInv'
    BY <1>12, <2>6 DEF RunRests, CredIsLive
  <2> QED
    BY <1>16, <2>1, <2>2, <2>3, <2>4, <2>5, <2>6, LogoutIs
<1>17. ASSUME Killed PROVE LooseInv'
  BY <1>3, <1>17, KilledIs
<1>18. CASE UNCHANGED raVars
  <2>1. UNCHANGED <<account, session, proc, bounds>>
    BY <1>18, Zenon DEF raVars, bounds
  <2>2. Replaces' /\ (MayLose' => MayLose) /\ Calm
    BY <2>1 DEF Replaces, LooseInv, MayLose, Calm
  <2> QED
    BY <1>c, <1>k, <2>1, <2>2, LooseStays
<1> QED
  BY <1>1, <1>6, <1>7, <1>8, <1>9, <1>10, <1>11, <1>13, <1>14, <1>15, <1>16, <1>17, <1>18
     DEF NextRegistry

LEMMA RaStarts == InitRegistry => RaInv
<1> SUFFICES ASSUME InitRegistry PROVE RaInv
  OBVIOUS
<1>1. ProcOK /\ AccountOK /\ IdsOK /\ BrokerOK /\ ImagesOK
  BY RegistryAssumption DEF InitRegistry, ProcOK, AccountOK, IdsOK, BrokerOK, ImagesOK, Resting,
     RaSteps, Ways
<1>2. TruthsOK
  BY DEF InitRegistry, TruthsOK
<1>3. RaTriesOK
  BY RegistryAssumption DEF InitRegistry, RaTriesOK
<1>4. CredIsLive /\ IdIsSaved
  BY DEF InitRegistry, CredIsLive, IdIsSaved, CodeSurvives, Resting
<1>5. CalmInv
  BY DEF InitRegistry, CalmInv, Resting, SigningIn
<1>6. ImageInv
  BY DEF InitRegistry, ImageInv, PinHasImage
<1>7. LooseInv
  <2>1. Loose = {} /\ ~MayLose /\ Replaces
    BY DEF InitRegistry, Loose, MayLose, Replaces, Resting, SigningIn
  <2>2. Spent = 0 /\ forced = 0
    BY RegistryAssumption DEF InitRegistry, Spent
  <2> QED
    BY <2>1, <2>2, FS_EmptySet DEF LooseInv, Losses, Paid
<1> QED
  BY <1>1, <1>2, <1>3, <1>4, <1>5, <1>6, <1>7 DEF RaInv

LEMMA RaStep == RaInv /\ [NextRegistry]_raVars => RaInv'
<1> SUFFICES ASSUME RaInv, [NextRegistry]_raVars PROVE RaInv'
  OBVIOUS
<1>1. /\ ProcOK /\ AccountOK /\ IdsOK /\ BrokerOK /\ ImagesOK /\ TruthsOK /\ RaTriesOK
      /\ CredIsLive /\ IdIsSaved /\ CalmInv /\ ImageInv /\ LooseInv
  BY DEF RaInv
<1>2. ProcOK' /\ AccountOK' /\ IdsOK' /\ BrokerOK' /\ ImagesOK' /\ TruthsOK' /\ RaTriesOK'
  BY <1>1, ProcStep, AccountStep, IdsStep, BrokerStep, ImagesStep, TruthsStep, RaTriesStep
<1>3. CredIsLive' /\ IdIsSaved' /\ CalmInv' /\ ImageInv' /\ LooseInv'
  BY <1>1, <1>2, CredStep, IdStep, CalmStep, ImageStep, LooseStep
<1> QED
  BY <1>2, <1>3 DEF RaInv

\* What the invariant says of the properties.
LEMMA RaInvTypes == RaInv => RaTypeOK
<1> SUFFICES ASSUME RaInv PROVE RaTypeOK
  OBVIOUS
<1>1. {fetched, derived, pin, idLost, overtaken} \subseteq BOOLEAN
  BY Zenon DEF RaInv, TruthsOK
<1> QED
  BY <1>1 DEF RaInv, RaTypeOK, ProcOK, AccountOK, IdsOK, BrokerOK, ImagesOK, RaTriesOK

LEMMA RaInvIsSafe == RaInv => RegistrySafety
<1> SUFFICES ASSUME RaInv PROVE RegistrySafety
  OBVIOUS
<1>1. SuccessIsWhole
  BY RegistryAssumption DEF RaInv, SuccessIsWhole, Signed, CredIsLive
<1>2. HardenedCanPull
  BY DEF RaInv, HardenedCanPull, CalmInv, CanPull, SignedOut
<1>3. CodeSurvives
  BY DEF RaInv, IdIsSaved
<1>4. NoStrayTokens
  <2>1. IsFiniteSet(Loose) /\ Cardinality(Loose) \in Nat /\ Strays \subseteq Loose
    BY FS_CardinalityType DEF RaInv, LooseInv, Loose, Strays
  <2>2. Cardinality(Strays) <= Cardinality(Loose) /\ Cardinality(Strays) \in Nat
    BY <2>1, FS_Subset, FS_CardinalityType
  <2>3. Cardinality(Loose) <= Losses /\ Losses <= Paid /\ Losses \in Int
    BY <2>1 DEF RaInv, LooseInv, Losses
  <2>4. Spent \in Int /\ forced \in Int
    BY RegistryAssumption DEF RaInv, RaTriesOK, Spent
  <2> QED
    BY <2>1, <2>2, <2>3, <2>4 DEF NoStrayTokens, Paid
<1>5. OneToken
  BY DEF RaInv, OneToken, CalmInv
<1>6. PinHasImage
  BY DEF RaInv, ImageInv
<1> QED
  BY <1>1, <1>2, <1>3, <1>4, <1>5, <1>6 DEF RegistrySafety

\* The inductive invariant of the account and the pulled image.
THEOREM RegistryInvariant == InitRegistry /\ [][NextRegistry]_raVars => []RaInv
BY RaStarts, RaStep, PTL

\* A sign-in that reports success has left a whole account behind; an install
\* set to pull can, unless something failed or it was signed out; the code of
\* an enrolment and the tokens minted are not lost but to failures; a group's
\* row names an image there is.
THEOREM RegistryIsSafe == InitRegistry /\ [][NextRegistry]_raVars => []RegistrySafety
BY RegistryInvariant, RaInvIsSafe, PTL

-----------------------------------------------------------------------------
(* The pull of the image, for any scripts, commands and failures.            *)

EditorSteps == {"idle", "read", "binary", "wire", "remove", "unwire"}
Configs == [parses : BOOLEAN, wired : SUBSET Hosts, logins : SUBSET Hosts]
PullRecords == [at : PullSteps, ref : Refs \cup {"none"}, env : BOOLEAN, token : Nat,
                script : BOOLEAN, sound : BOOLEAN]

\* What each variable is, in parts.
IpAccountOK ==
  /\ checkout \in 1 .. 2 /\ intent \in {"local", "hardened"} /\ signed \in BOOLEAN
  /\ issued \in Nat /\ honoured \subseteq 1 .. issued
  /\ regAuth \in [token : 0 .. issued, host : Hosts \cup {"none"}]
IpDockerOK ==
  /\ helperIn \in [Dirs -> {"none", "ours", "foreign"}]
  /\ dockerConfig \in Configs
  /\ wanted \subseteq Hosts /\ raced \subseteq Hosts
IpEditorOK ==
  /\ editor \in [at : EditorSteps, host : Hosts \cup {"none"}, seen : Configs]
  /\ editor.at \in {"read", "binary", "wire"} => editor.host \in Hosts
  /\ editor.at \in {"binary", "wire"} => editor.seen.parses
IpNonceOK == nonce \in [owner : PullScripts \cup {"none"}, old : BOOLEAN]
IpPullsOK == pulls \in [Clients -> PullRecords]
IpTokensOK == \A c \in Clients : pulls[c].token \in 0 .. issued
IpImagesOK ==
  /\ store \subseteq Refs /\ localTag \in [ref : Refs \cup {"none", "built", "layered"}, lock : 0 .. 2] /\ handed \subseteq Clients
IpTriesOK == ipCommands \in 0 .. MaxIpCommands /\ ipFaults \in 0 .. MaxIpFaults

\* A pull under way is one of a reference that was read.
RefsRead == \A c \in Clients : pulls[c].at \in {"nonce", "docker", "asked", "check", "tag"} => pulls[c].ref \in Refs

\* A pull by hand writes no nonce, and only a script does.
HandsOff ==
  /\ ~pulls[ByHand].env /\ ~pulls[ByHand].script /\ pulls[ByHand].at \notin {"nonce", "asked"}
  /\ \A c \in Clients : pulls[c].at = "nonce" => pulls[c].script
  /\ NothingByHand

\* A pull that could be let in still can be while it is under way: its host
\* lets it in, its nonce is its own, and it is the only script.
LetIn(c) ==
  /\ Ready(c, pulls[c].ref)
  /\ c \in PullScripts => pulls[c].script
  /\ c \in PullScripts /\ pulls[c].at = "docker" => pulls[c].env /\ nonce.owner = c /\ ~nonce.old
  /\ pulls[c].at = "asked" => pulls[c].token \in honoured
  /\ \A s \in PullScripts \ {c} : ~pulls[s].script
SoundInv == \A c \in Clients : pulls[c].sound /\ Pulling(c) => LetIn(c)

\* The account that is on file is one the broker honours.
SignedIsHonoured == signed => regAuth.token \in honoured

\* The installer's copy of the config lacks no login but those made since.
SeenLogins == editor.at \in {"binary", "wire"} => editor.seen.logins \ raced = wanted \ raced
LoginsInv == LoginsKept /\ SeenLogins

\* While nothing fails, docker's config parses, and the helper is there before
\* a host is sent to it.
HelperFirst ==
  IpSpent = 0 =>
    /\ dockerConfig.parses
    /\ (dockerConfig.wired # {} /\ editor.at # "unwire") \/ editor.at = "wire" => FoundOnPath # "none"

IpInv ==
  /\ IpAccountOK /\ IpDockerOK /\ IpEditorOK /\ IpNonceOK /\ IpPullsOK /\ IpTokensOK /\ IpImagesOK /\ IpTriesOK
  /\ RefsRead /\ HandsOff /\ SoundInv /\ SoundPullsSucceed /\ SignedIsHonoured /\ LoginsInv /\ HelperFirst


LEMMA HostsAre == PinnedHost \in Hosts /\ Pin \in Refs /\ \A r \in Refs : HostOf(r) \in Hosts
BY DEF PinnedHost, Pin, Hosts, Refs, HostOf

\* What a step makes of the pulls of others.
Others(c) == \A o \in Clients \ {c} : pulls'[o] = pulls[o]

LEMMA DisturbedIs ==
  ASSUME IpPullsOK, Disturbed
  PROVE  /\ IpPullsOK'
         /\ \A c \in Clients :
              /\ pulls'[c].at = pulls[c].at /\ pulls'[c].ref = pulls[c].ref /\ pulls'[c].env = pulls[c].env
              /\ pulls'[c].token = pulls[c].token /\ pulls'[c].script = pulls[c].script
              /\ pulls'[c].sound => pulls[c].sound /\ ~Pulling(c)
<1>1. ASSUME NEW c \in Clients
      PROVE  /\ pulls'[c] \in PullRecords
             /\ pulls'[c].at = pulls[c].at /\ pulls'[c].ref = pulls[c].ref /\ pulls'[c].env = pulls[c].env
             /\ pulls'[c].token = pulls[c].token /\ pulls'[c].script = pulls[c].script
             /\ pulls'[c].sound => pulls[c].sound /\ ~Pulling(c)
  <2> DEFINE q == pulls'[c]
             r == pulls[c]
             still == ~Pulling(c)
  <2>1. r \in PullRecords
    BY DEF IpPullsOK
  <2>2. q = [r EXCEPT !.sound = r.sound /\ still]
    BY DEF Disturbed
  <2> HIDE DEF q, r, still
  <2>3. /\ q \in PullRecords
        /\ q.at = r.at /\ q.ref = r.ref /\ q.env = r.env /\ q.token = r.token /\ q.script = r.script
        /\ q.sound => r.sound /\ still
    BY <2>1, <2>2 DEF PullRecords
  <2> QED
    BY <2>3, Zenon DEF q, r, still
<1>2. IpPullsOK'
  <2>1. pulls' = [c \in Clients |-> pulls'[c]]
    BY DEF Disturbed
  <2> QED
    BY <1>1, <2>1 DEF IpPullsOK
<1> QED
  BY <1>1, <1>2, Zenon

LEMMA ScriptEndsIs ==
  ASSUME IpPullsOK, NEW c \in Clients, NEW upshot \in {"done", "failed", "refused"}, NEW calm \in BOOLEAN,
         EndsScript(c, upshot, calm)
  PROVE  /\ IpPullsOK' /\ Others(c)
         /\ pulls'[c].at \in {upshot, "idle"} /\ ~pulls'[c].env /\ pulls'[c].token = 0 /\ ~pulls'[c].script
         /\ pulls'[c].sound => pulls[c].sound /\ calm
         /\ nonce' = nonce \/ (nonce' = NoNonce /\ pulls[c].script)
<1>1. pulls[c] \in PullRecords
  BY DEF IpPullsOK
<1> DEFINE p == [pulls[c] EXCEPT !.at = IF pulls[c].script \/ c = ByHand THEN upshot ELSE "idle",
                                 !.token = 0, !.env = FALSE, !.script = FALSE, !.sound = @ /\ calm]
<1>2. pulls' = [pulls EXCEPT ![c] = p]
  BY Zenon DEF EndsScript
<1>3. /\ p.at \in {upshot, "idle"} /\ p.env = FALSE /\ p.token = 0 /\ p.script = FALSE
      /\ p.sound => pulls[c].sound /\ calm
  BY <1>1 DEF PullRecords
<1>4. p \in PullRecords
  BY <1>1 DEF PullRecords, PullSteps
<1> HIDE DEF p
<1>5. pulls'[c] = p /\ Others(c) /\ IpPullsOK'
  BY <1>2, <1>4 DEF IpPullsOK, Others
<1>6. nonce' = nonce \/ (nonce' = NoNonce /\ pulls[c].script)
  <2>1. nonce' = IF pulls[c].env /\ pulls[c].script THEN NoNonce ELSE nonce
    BY Zenon DEF EndsScript
  <2> QED
    BY <2>1, Zenon
<1> QED
  BY <1>3, <1>5, <1>6

\* A pull that starts, and what becomes of the others'.
PullStarted(c) ==
  /\ pulls'[c].at \in {"nonce", "docker", "check", "done"} /\ pulls'[c].ref = Pin /\ pulls'[c].env = FALSE
  /\ pulls'[c].token = 0 /\ pulls'[c].script = (c \in PullScripts)
  /\ c = ByHand => pulls'[c].at \in {"docker", "done"}
  /\ c # ByHand => pulls'[c].at \in {"nonce", "check"}
  /\ pulls'[c].sound => Ready(c, Pin) /\ \A s \in PullScripts \ {c} : ~pulls[s].script
Beside(c, o) ==
  /\ pulls'[o].at = pulls[o].at /\ pulls'[o].ref = pulls[o].ref /\ pulls'[o].env = pulls[o].env
  /\ pulls'[o].token = pulls[o].token /\ pulls'[o].script = pulls[o].script
  /\ pulls'[o].sound => pulls[o].sound /\ c = ByHand

LEMMA StartsIs ==
  ASSUME IpPullsOK, NEW c \in Clients, StartsPull(c)
  PROVE  IpPullsOK' /\ PullStarted(c) /\ \A o \in Clients \ {c} : Beside(c, o)
<1> DEFINE good == Ready(c, Pin) /\ ~ \E s \in PullScripts \ {c} : pulls[s].script
           stage == IF Pin \notin store THEN IF c = ByHand THEN "docker" ELSE "nonce"
                 ELSE IF c = ByHand THEN "done" ELSE "check"
           ours == c \in PullScripts
           p == [NoPull EXCEPT !.at = stage, !.ref = Pin, !.script = ours, !.sound = good]
<1>1. pulls' = [o \in Clients |-> IF o = c THEN p ELSE [pulls[o] EXCEPT !.sound = @ /\ c = ByHand]]
  BY Zenon DEF StartsPull
<1>3. ours \in BOOLEAN /\ good \in BOOLEAN
  OBVIOUS
<1>4. stage \in {"nonce", "docker", "check", "done"} /\ (c = ByHand => stage \in {"docker", "done"})
      /\ (c # ByHand => stage \in {"nonce", "check"})
  OBVIOUS
<1>5. good => Ready(c, Pin) /\ \A s \in PullScripts \ {c} : ~pulls[s].script
  OBVIOUS
<1>9. ours = (c \in PullScripts)
  OBVIOUS
<1> HIDE DEF good, stage, ours
<1>2. /\ p.at = stage /\ p.ref = Pin /\ p.env = FALSE /\ p.token = 0 /\ p.script = ours /\ p.sound = good
      /\ p \in PullRecords
  <2>1. stage \in PullSteps
    BY <1>4 DEF PullSteps
  <2>3. Pin \in Refs
    BY HostsAre
  <2>4. /\ p.at = stage /\ p.ref = Pin /\ p.env = FALSE /\ p.token = 0 /\ p.script = ours /\ p.sound = good
    BY <1>3 DEF NoPull
  <2>5. CASE ours = TRUE /\ good = TRUE
    BY <2>1, <2>3, <2>5 DEF NoPull, PullRecords
  <2>6. CASE ours = TRUE /\ good = FALSE
    BY <2>1, <2>3, <2>6 DEF NoPull, PullRecords
  <2>7. CASE ours = FALSE /\ good = TRUE
    BY <2>1, <2>3, <2>7 DEF NoPull, PullRecords
  <2>8. CASE ours = FALSE /\ good = FALSE
    BY <2>1, <2>3, <2>8 DEF NoPull, PullRecords
  <2> HIDE DEF p
  <2>9. p \in PullRecords
    BY <1>3, <2>5, <2>6, <2>7, <2>8, Zenon
  <2> QED
    BY <2>4, <2>9, Zenon
<1> HIDE DEF p
<1>6. pulls'[c] = p /\ \A o \in Clients \ {c} : pulls'[o] = [pulls[o] EXCEPT !.sound = @ /\ c = ByHand]
  BY <1>1
<1>7. p \in PullRecords
  BY <1>2
<1>8. ASSUME NEW o \in Clients \ {c} PROVE pulls'[o] \in PullRecords /\ Beside(c, o)
  <2> DEFINE q == pulls'[o]
             r == pulls[o]
  <2>1. r \in PullRecords
    BY DEF IpPullsOK
  <2>2. q = [r EXCEPT !.sound = r.sound /\ c = ByHand]
    BY <1>6
  <2> HIDE DEF q, r
  <2>3. /\ q \in PullRecords
        /\ q.at = r.at /\ q.ref = r.ref /\ q.env = r.env /\ q.token = r.token /\ q.script = r.script
        /\ q.sound => r.sound /\ c = ByHand
    BY <2>1, <2>2 DEF PullRecords
  <2> QED
    BY <2>3, Zenon DEF q, r, Beside
<1>10. IpPullsOK'
  <2>1. DOMAIN pulls' = Clients /\ pulls' = [o \in Clients |-> pulls'[o]]
    BY <1>1
  <2>2. \A o \in Clients : pulls'[o] \in PullRecords
    BY <1>6, <1>7, <1>8, Zenon
  <2> QED
    BY <2>1, <2>2 DEF IpPullsOK
<1>11. PullStarted(c)
  BY <1>2, <1>4, <1>5, <1>6, <1>9 DEF PullStarted
<1> QED
  BY <1>8, <1>10, <1>11, Zenon

\* A pull that goes on, and what becomes of it.
GoesOn(c, stage) ==
  /\ IpPullsOK' /\ Others(c) /\ pulls'[c].at = stage /\ pulls'[c].ref = pulls[c].ref
  /\ pulls'[c].script => pulls[c].script
  /\ pulls'[c].sound => pulls[c].sound
Ended(c, upshot, calm) ==
  /\ IpPullsOK' /\ Others(c)
  /\ pulls'[c].at \in {upshot, "idle"} /\ ~pulls'[c].env /\ pulls'[c].token = 0 /\ ~pulls'[c].script
  /\ pulls'[c].sound => pulls[c].sound /\ calm
  /\ nonce' = nonce \/ (nonce' = NoNonce /\ pulls[c].script)

LEMMA Finishes ==
  ASSUME IpPullsOK, NEW c \in Clients, NEW upshot \in {"done", "failed", "refused"}, NEW calm \in BOOLEAN,
         EndsScript(c, upshot, calm)
  PROVE  Ended(c, upshot, calm)
BY ScriptEndsIs DEF Ended

LEMMA NonceIs ==
  ASSUME IpPullsOK, NEW c \in Clients, WritesNonce(c)
  PROVE  /\ pulls[c].at = "nonce" /\ GoesOn(c, "docker")
         /\ pulls'[c].token = pulls[c].token /\ pulls'[c].script = pulls[c].script
         /\ \/ nonce' = [owner |-> c, old |-> FALSE] /\ pulls'[c].env /\ IpCalm
            \/ nonce' = nonce /\ ~pulls'[c].sound /\ pulls'[c].env = pulls[c].env /\ IpFault
BY DEF WritesNonce, GoesOn, Others, IpPullsOK, PullRecords, PullSteps

LEMMA AsksIs ==
  ASSUME IpPullsOK, IpAccountOK, NEW c \in Clients, DockerAsks(c)
  PROVE  /\ pulls[c].at = "docker" /\ IpCalm
         /\ \/ /\ GoesOn(c, "asked") /\ nonce' = nonce /\ store' = store
               /\ pulls'[c].token = regAuth.token /\ pulls'[c].script = pulls[c].script
               /\ pulls'[c].env = pulls[c].env
               /\ Helped(c) /\ FoundOnPath = "ours" /\ ServesRegistry(c) /\ RequirePullNonce(c)
            \/ Helped(c) /\ ~(FoundOnPath = "ours" /\ ServesRegistry(c) /\ RequirePullNonce(c))
               /\ Ended(c, "failed", TRUE) /\ store' = store
            \/ /\ GoesOn(c, "check") /\ nonce' = nonce /\ store' = store \cup {pulls[c].ref}
               /\ pulls'[c].token = pulls[c].token /\ pulls'[c].env = pulls[c].env
            \/ Ended(c, "done", TRUE) /\ store' = store \cup {pulls[c].ref}
            \/ /\ ~Helped(c) /\ ~(dockerConfig.parses /\ HostOf(pulls[c].ref) \in dockerConfig.logins)
               /\ Ended(c, "failed", TRUE) /\ store' = store
<1>1. CASE Helped(c) /\ FoundOnPath = "ours" /\ ServesRegistry(c) /\ RequirePullNonce(c)
  <2>1. pulls' = [pulls EXCEPT ![c].at = "asked", ![c].token = regAuth.token] /\ nonce' = nonce /\ store' = store
        /\ pulls[c].at = "docker" /\ IpCalm
    BY <1>1, Zenon DEF DockerAsks
  <2>2. regAuth.token \in Nat
    BY DEF IpAccountOK
  <2>3. GoesOn(c, "asked") /\ pulls'[c].token = regAuth.token /\ pulls'[c].script = pulls[c].script
        /\ pulls'[c].env = pulls[c].env
    BY <2>1, <2>2 DEF GoesOn, Others, IpPullsOK, PullRecords, PullSteps
  <2> QED
    BY <1>1, <2>1, <2>3, Zenon
<1>2. CASE Helped(c) /\ ~(FoundOnPath = "ours" /\ ServesRegistry(c) /\ RequirePullNonce(c))
  <2>1. EndsScript(c, "failed", TRUE) /\ store' = store /\ pulls[c].at = "docker" /\ IpCalm
    BY <1>2, Zenon DEF DockerAsks
  <2> QED
    BY <1>2, <2>1, Finishes, Zenon
<1>3. CASE ~Helped(c) /\ dockerConfig.parses /\ HostOf(pulls[c].ref) \in dockerConfig.logins
  <2>1. store' = store \cup {pulls[c].ref} /\ pulls[c].at = "docker" /\ IpCalm
    BY <1>3, Zenon DEF DockerAsks
  <2>2. CASE pulls[c].script
    <3>1. pulls' = [pulls EXCEPT ![c].at = "check"] /\ nonce' = nonce
      BY <1>3, <2>2, Zenon DEF DockerAsks
    <3>2. GoesOn(c, "check") /\ pulls'[c].token = pulls[c].token /\ pulls'[c].env = pulls[c].env
      BY <3>1 DEF GoesOn, Others, IpPullsOK, PullRecords, PullSteps
    <3> QED
      BY <2>1, <3>1, <3>2, Zenon
  <2>3. CASE ~pulls[c].script
    <3>1. EndsScript(c, "done", TRUE)
      BY <1>3, <2>3, Zenon DEF DockerAsks
    <3> QED
      BY <2>1, <3>1, Finishes, Zenon
  <2> QED
    BY <2>2, <2>3
<1>4. CASE ~Helped(c) /\ ~(dockerConfig.parses /\ HostOf(pulls[c].ref) \in dockerConfig.logins)
  <2>1. EndsScript(c, "failed", TRUE) /\ store' = store /\ pulls[c].at = "docker" /\ IpCalm
    BY <1>4, Zenon DEF DockerAsks
  <2> QED
    BY <1>4, <2>1, Finishes, Zenon
<1> QED
  BY <1>1, <1>2, <1>3, <1>4

LEMMA AnswersIs ==
  ASSUME IpPullsOK, NEW c \in Clients, BrokerAnswers(c)
  PROVE  /\ pulls[c].at = "asked" /\ IpCalm
         /\ \/ /\ GoesOn(c, "check") /\ nonce' = nonce
               /\ pulls'[c].token = pulls[c].token /\ pulls'[c].env = pulls[c].env
               /\ store' = store \cup {pulls[c].ref} /\ handed' = handed \cup {c}
            \/ Ended(c, "done", TRUE) /\ store' = store \cup {pulls[c].ref} /\ handed' = handed \cup {c}
            \/ pulls[c].token \notin honoured /\ Ended(c, "failed", TRUE) /\ UNCHANGED <<store, handed>>
<1>1. CASE pulls[c].token \in honoured /\ pulls[c].script
  <2>1. /\ pulls' = [pulls EXCEPT ![c].at = "check"] /\ nonce' = nonce /\ pulls[c].at = "asked" /\ IpCalm
        /\ store' = store \cup {pulls[c].ref} /\ handed' = handed \cup {c}
    BY <1>1, Zenon DEF BrokerAnswers
  <2>2. GoesOn(c, "check") /\ pulls'[c].token = pulls[c].token /\ pulls'[c].env = pulls[c].env
    BY <2>1 DEF GoesOn, Others, IpPullsOK, PullRecords, PullSteps
  <2> QED
    BY <2>1, <2>2, Zenon
<1>2. CASE pulls[c].token \in honoured /\ ~pulls[c].script
  <2>1. /\ EndsScript(c, "done", TRUE) /\ pulls[c].at = "asked" /\ IpCalm
        /\ store' = store \cup {pulls[c].ref} /\ handed' = handed \cup {c}
    BY <1>2, Zenon DEF BrokerAnswers
  <2> QED
    BY <2>1, Finishes, Zenon
<1>3. CASE pulls[c].token \notin honoured
  <2>1. EndsScript(c, "failed", TRUE) /\ UNCHANGED <<store, handed>> /\ pulls[c].at = "asked" /\ IpCalm
    BY <1>3, Zenon DEF BrokerAnswers
  <2> QED
    BY <1>3, <2>1, Finishes, Zenon
<1> QED
  BY <1>1, <1>2, <1>3

LEMMA FailsIs ==
  ASSUME IpPullsOK, NEW c \in Clients, PullFails(c)
  PROVE  Ended(c, "failed", FALSE)
BY Finishes DEF PullFails

LEMMA ChecksIs ==
  ASSUME IpPullsOK, NEW c \in Clients, ChecksLock(c)
  PROVE  /\ pulls[c].at = "check"
         /\ \/ /\ GoesOn(c, "tag") /\ nonce' = nonce
               /\ pulls'[c].token = pulls[c].token /\ pulls'[c].env = pulls[c].env
            \/ Ended(c, "refused", TRUE)
<1>3. pulls[c].at = "check"
  BY DEF ChecksLock
<1>1. CASE LockOf(pulls[c].ref) = checkout
  <2>1. pulls' = [pulls EXCEPT ![c].at = "tag"] /\ nonce' = nonce
    BY <1>1, Zenon DEF ChecksLock
  <2> QED
    BY <1>3, <2>1 DEF GoesOn, Others, IpPullsOK, PullRecords, PullSteps
<1>2. CASE LockOf(pulls[c].ref) # checkout
  <2>1. EndsScript(c, "refused", TRUE)
    BY <1>2, Zenon DEF ChecksLock
  <2> QED
    BY <1>3, <2>1, Finishes
<1> QED
  BY <1>1, <1>2, <1>3

LEMMA TagsIs ==
  ASSUME IpPullsOK, NEW c \in Clients, TagsImage(c)
  PROVE  Ended(c, "done", TRUE) /\ pulls[c].at = "tag"
BY Finishes DEF TagsImage

LEMMA KillIs ==
  ASSUME IpPullsOK, NEW c \in Clients, ScriptKilled(c)
  PROVE  /\ pulls[c].script /\ IpPullsOK' /\ Others(c) /\ ~pulls'[c].script /\ nonce' = nonce
         /\ ~pulls'[c].sound
         /\ \/ /\ pulls[c].at \in {"docker", "asked"} /\ pulls'[c].at = pulls[c].at
               /\ pulls'[c].ref = pulls[c].ref
               /\ pulls'[c].token = pulls[c].token /\ pulls'[c].env = pulls[c].env
            \/ pulls'[c].at = "idle" /\ pulls'[c].token = 0 /\ ~pulls'[c].env
<1>1. CASE pulls[c].at \in {"docker", "asked"}
  <2>1. pulls' = [pulls EXCEPT ![c].script = FALSE, ![c].sound = FALSE] /\ pulls[c].script /\ nonce' = nonce
    BY <1>1, Zenon DEF ScriptKilled
  <2> QED
    BY <1>1, <2>1 DEF Others, IpPullsOK, PullRecords
<1>2. CASE pulls[c].at \notin {"docker", "asked"}
  <2>1. pulls' = [pulls EXCEPT ![c] = NoPull] /\ pulls[c].script /\ nonce' = nonce
    BY <1>2, Zenon DEF ScriptKilled
  <2>2. NoPull \in PullRecords /\ NoPull.script = FALSE /\ NoPull.sound = FALSE /\ NoPull.at = "idle"
        /\ NoPull.token = 0 /\ NoPull.env = FALSE
    BY DEF NoPull, PullRecords, PullSteps
  <2> QED
    BY <2>1, <2>2 DEF Others, IpPullsOK
<1> QED
  BY <1>1, <1>2

LEMMA IpAccountStep ==
  ASSUME IpAccountOK, [NextImagePull]_ipVars
  PROVE  IpAccountOK'
<1> USE DEF accountVars, wiring, imageVars, IpCommand, IpFault, IpCalm, IpAccountOK
<1>1. ASSUME SignsIn PROVE IpAccountOK'
  <2>1. PICK h \in {"h1", PinnedHost} : regAuth' = [token |-> issued + 1, host |-> h]
    BY <1>1 DEF SignsIn
  <2>2. regAuth' \in [token : 0 .. issued + 1, host : Hosts \cup {"none"}]
    BY <2>1, HostsAre DEF Hosts
  <2> QED
    BY <1>1, <2>2 DEF SignsIn
<1>2. ASSUME ReadsConfig PROVE IpAccountOK'
  BY <1>2 DEF ReadsConfig
<1>3. ASSUME WritesHelper PROVE IpAccountOK'
  BY <1>3 DEF WritesHelper
<1>4. ASSUME WiresHost PROVE IpAccountOK'
  BY <1>4 DEF WiresHost
<1>5. ASSUME SignsOut PROVE IpAccountOK'
  <2>1. regAuth' = [token |-> 0, host |-> "none"] /\ UNCHANGED <<checkout, intent, issued>>
        /\ signed' = FALSE /\ honoured' \subseteq honoured
    BY <1>5, Zenon DEF SignsOut
  <2>2. regAuth' \in [token : 0 .. issued, host : Hosts \cup {"none"}]
    BY <2>1
  <2> QED
    BY <2>1, <2>2
<1>6. ASSUME RemovesHelper PROVE IpAccountOK'
  BY <1>6 DEF RemovesHelper
<1>7. ASSUME UnwiresHosts PROVE IpAccountOK'
  BY <1>7 DEF UnwiresHosts
<1>8. ASSUME EditorStops PROVE IpAccountOK'
  BY <1>8 DEF EditorStops
<1>9. ASSUME DockerLogin PROVE IpAccountOK'
  BY <1>9 DEF DockerLogin
<1>10. ASSUME DockerLogout PROVE IpAccountOK'
  BY <1>10 DEF DockerLogout
<1>11. ASSUME EditConfig PROVE IpAccountOK'
  BY <1>11 DEF EditConfig
<1>12. ASSUME UpdateCheckout PROVE IpAccountOK'
  BY <1>12 DEF UpdateCheckout
<1>13. ASSUME BuildImage PROVE IpAccountOK'
  BY <1>13 DEF BuildImage
<1>14. ASSUME OptsOut PROVE IpAccountOK'
  BY <1>14 DEF OptsOut
<1>15. ASSUME NonceAges PROVE IpAccountOK'
  BY <1>15 DEF NonceAges
<1>16. ASSUME NEW c \in Clients, StartsPull(c) PROVE IpAccountOK'
  BY <1>16 DEF StartsPull
<1>17. ASSUME NEW c \in Clients, WritesNonce(c) PROVE IpAccountOK'
  BY <1>17 DEF WritesNonce
<1>18. ASSUME NEW c \in Clients, DockerAsks(c) PROVE IpAccountOK'
  BY <1>18 DEF DockerAsks
<1>19. ASSUME NEW c \in Clients, BrokerAnswers(c) PROVE IpAccountOK'
  BY <1>19 DEF BrokerAnswers
<1>20. ASSUME NEW c \in Clients, PullFails(c) PROVE IpAccountOK'
  BY <1>20 DEF PullFails
<1>21. ASSUME NEW c \in Clients, ChecksLock(c) PROVE IpAccountOK'
  BY <1>21 DEF ChecksLock
<1>22. ASSUME NEW c \in Clients, TagsImage(c) PROVE IpAccountOK'
  BY <1>22 DEF TagsImage
<1>23. ASSUME NEW c \in Clients, ScriptKilled(c) PROVE IpAccountOK'
  BY <1>23 DEF ScriptKilled
<1>24. CASE UNCHANGED ipVars
  BY <1>24 DEF ipVars, IpAccountOK
<1> QED
  BY <1>1, <1>2, <1>3, <1>4, <1>5, <1>6, <1>7, <1>8, <1>9, <1>10, <1>11, <1>12, <1>13, <1>14, <1>15,
     <1>16, <1>17, <1>18, <1>19, <1>20, <1>21, <1>22, <1>23, <1>24 DEF NextImagePull

LEMMA IpDockerStep ==
  ASSUME IpDockerOK, IpEditorOK, [NextImagePull]_ipVars
  PROVE  IpDockerOK'
<1> USE DEF accountVars, wiring, imageVars, IpCommand, IpFault, IpCalm, IpDockerOK, Configs, Touches
<1>1. ASSUME SignsIn PROVE IpDockerOK'
  BY <1>1 DEF SignsIn
<1>2. ASSUME ReadsConfig PROVE IpDockerOK'
  BY <1>2 DEF ReadsConfig
<1>3. ASSUME WritesHelper PROVE IpDockerOK'
  BY <1>3 DEF WritesHelper
<1>4. ASSUME WiresHost PROVE IpDockerOK'
  <2>1. dockerConfig' \in Configs
    BY <1>4 DEF WiresHost, IpEditorOK
  <2> QED
    BY <1>4, <2>1 DEF WiresHost
<1>5. ASSUME SignsOut PROVE IpDockerOK'
  BY <1>5 DEF SignsOut
<1>6. ASSUME RemovesHelper PROVE IpDockerOK'
  BY <1>6 DEF RemovesHelper
<1>7. ASSUME UnwiresHosts PROVE IpDockerOK'
  BY <1>7 DEF UnwiresHosts
<1>8. ASSUME EditorStops PROVE IpDockerOK'
  BY <1>8 DEF EditorStops
<1>9. ASSUME DockerLogin PROVE IpDockerOK'
  BY <1>9 DEF DockerLogin
<1>10. ASSUME DockerLogout PROVE IpDockerOK'
  BY <1>10 DEF DockerLogout
<1>11. ASSUME EditConfig PROVE IpDockerOK'
  BY <1>11 DEF EditConfig
<1>12. ASSUME UpdateCheckout PROVE IpDockerOK'
  BY <1>12 DEF UpdateCheckout
<1>13. ASSUME BuildImage PROVE IpDockerOK'
  BY <1>13 DEF BuildImage
<1>14. ASSUME OptsOut PROVE IpDockerOK'
  BY <1>14 DEF OptsOut
<1>15. ASSUME NonceAges PROVE IpDockerOK'
  BY <1>15 DEF NonceAges
<1>16. ASSUME NEW c \in Clients, StartsPull(c) PROVE IpDockerOK'
  BY <1>16 DEF StartsPull
<1>17. ASSUME NEW c \in Clients, WritesNonce(c) PROVE IpDockerOK'
  BY <1>17 DEF WritesNonce
<1>18. ASSUME NEW c \in Clients, DockerAsks(c) PROVE IpDockerOK'
  BY <1>18 DEF DockerAsks
<1>19. ASSUME NEW c \in Clients, BrokerAnswers(c) PROVE IpDockerOK'
  BY <1>19 DEF BrokerAnswers
<1>20. ASSUME NEW c \in Clients, PullFails(c) PROVE IpDockerOK'
  BY <1>20 DEF PullFails
<1>21. ASSUME NEW c \in Clients, ChecksLock(c) PROVE IpDockerOK'
  BY <1>21 DEF ChecksLock
<1>22. ASSUME NEW c \in Clients, TagsImage(c) PROVE IpDockerOK'
  BY <1>22 DEF TagsImage
<1>23. ASSUME NEW c \in Clients, ScriptKilled(c) PROVE IpDockerOK'
  BY <1>23 DEF ScriptKilled
<1>24. CASE UNCHANGED ipVars
  BY <1>24 DEF ipVars, IpDockerOK
<1> QED
  BY <1>1, <1>2, <1>3, <1>4, <1>5, <1>6, <1>7, <1>8, <1>9, <1>10, <1>11, <1>12, <1>13, <1>14, <1>15,
     <1>16, <1>17, <1>18, <1>19, <1>20, <1>21, <1>22, <1>23, <1>24 DEF NextImagePull

LEMMA IpEditorStep ==
  ASSUME IpDockerOK, IpEditorOK, [NextImagePull]_ipVars
  PROVE  IpEditorOK'
<1> USE DEF accountVars, wiring, imageVars, IpCommand, IpFault, IpCalm, IpEditorOK, EditorSteps, AtRest, Unread
<1>1. ASSUME SignsIn PROVE IpEditorOK'
  <2>1. PICK h \in {"h1", PinnedHost} : editor' = [at |-> "read", host |-> h, seen |-> Unread]
    BY <1>1 DEF SignsIn
  <2>2. h \in Hosts
    BY HostsAre DEF Hosts
  <2> QED
    BY <2>1, <2>2 DEF Configs
<1>2. ASSUME ReadsConfig PROVE IpEditorOK'
  BY <1>2 DEF ReadsConfig, IpDockerOK, Configs
<1>3. ASSUME WritesHelper PROVE IpEditorOK'
  BY <1>3 DEF WritesHelper
<1>4. ASSUME WiresHost PROVE IpEditorOK'
  BY <1>4 DEF WiresHost, Configs
<1>5. ASSUME SignsOut PROVE IpEditorOK'
  BY <1>5 DEF SignsOut, Configs
<1>6. ASSUME RemovesHelper PROVE IpEditorOK'
  BY <1>6 DEF RemovesHelper
<1>7. ASSUME UnwiresHosts PROVE IpEditorOK'
  BY <1>7 DEF UnwiresHosts, Configs
<1>8. ASSUME EditorStops PROVE IpEditorOK'
  BY <1>8 DEF EditorStops, Configs
<1>9. ASSUME DockerLogin PROVE IpEditorOK'
  BY <1>9 DEF DockerLogin
<1>10. ASSUME DockerLogout PROVE IpEditorOK'
  BY <1>10 DEF DockerLogout
<1>11. ASSUME EditConfig PROVE IpEditorOK'
  BY <1>11 DEF EditConfig
<1>12. ASSUME UpdateCheckout PROVE IpEditorOK'
  BY <1>12 DEF UpdateCheckout
<1>13. ASSUME BuildImage PROVE IpEditorOK'
  BY <1>13 DEF BuildImage
<1>14. ASSUME OptsOut PROVE IpEditorOK'
  BY <1>14 DEF OptsOut
<1>15. ASSUME NonceAges PROVE IpEditorOK'
  BY <1>15 DEF NonceAges
<1>16. ASSUME NEW c \in Clients, StartsPull(c) PROVE IpEditorOK'
  BY <1>16 DEF StartsPull
<1>17. ASSUME NEW c \in Clients, WritesNonce(c) PROVE IpEditorOK'
  BY <1>17 DEF WritesNonce
<1>18. ASSUME NEW c \in Clients, DockerAsks(c) PROVE IpEditorOK'
  BY <1>18 DEF DockerAsks
<1>19. ASSUME NEW c \in Clients, BrokerAnswers(c) PROVE IpEditorOK'
  BY <1>19 DEF BrokerAnswers
<1>20. ASSUME NEW c \in Clients, PullFails(c) PROVE IpEditorOK'
  BY <1>20 DEF PullFails
<1>21. ASSUME NEW c \in Clients, ChecksLock(c) PROVE IpEditorOK'
  BY <1>21 DEF ChecksLock
<1>22. ASSUME NEW c \in Clients, TagsImage(c) PROVE IpEditorOK'
  BY <1>22 DEF TagsImage
<1>23. ASSUME NEW c \in Clients, ScriptKilled(c) PROVE IpEditorOK'
  BY <1>23 DEF ScriptKilled
<1>24. CASE UNCHANGED ipVars
  BY <1>24 DEF ipVars, IpEditorOK
<1> QED
  BY <1>1, <1>2, <1>3, <1>4, <1>5, <1>6, <1>7, <1>8, <1>9, <1>10, <1>11, <1>12, <1>13, <1>14, <1>15,
     <1>16, <1>17, <1>18, <1>19, <1>20, <1>21, <1>22, <1>23, <1>24 DEF NextImagePull

LEMMA IpTriesStep ==
  ASSUME IpTriesOK, [NextImagePull]_ipVars
  PROVE  IpTriesOK'
<1> USE ImagePullAssumption DEF IpTriesOK, IpCommand, IpFault, IpCalm
<1>1. ASSUME SignsIn PROVE IpTriesOK'
  BY <1>1 DEF SignsIn
<1>2. ASSUME ReadsConfig PROVE IpTriesOK'
  BY <1>2 DEF ReadsConfig
<1>3. ASSUME WritesHelper PROVE IpTriesOK'
  BY <1>3 DEF WritesHelper
<1>4. ASSUME WiresHost PROVE IpTriesOK'
  BY <1>4 DEF WiresHost
<1>5. ASSUME SignsOut PROVE IpTriesOK'
  BY <1>5 DEF SignsOut
<1>6. ASSUME RemovesHelper PROVE IpTriesOK'
  BY <1>6 DEF RemovesHelper
<1>7. ASSUME UnwiresHosts PROVE IpTriesOK'
  BY <1>7 DEF UnwiresHosts
<1>8. ASSUME EditorStops PROVE IpTriesOK'
  BY <1>8 DEF EditorStops
<1>9. ASSUME DockerLogin PROVE IpTriesOK'
  BY <1>9 DEF DockerLogin
<1>10. ASSUME DockerLogout PROVE IpTriesOK'
  BY <1>10 DEF DockerLogout
<1>11. ASSUME EditConfig PROVE IpTriesOK'
  BY <1>11 DEF EditConfig
<1>12. ASSUME UpdateCheckout PROVE IpTriesOK'
  BY <1>12 DEF UpdateCheckout
<1>13. ASSUME BuildImage PROVE IpTriesOK'
  BY <1>13 DEF BuildImage
<1>14. ASSUME OptsOut PROVE IpTriesOK'
  BY <1>14 DEF OptsOut
<1>15. ASSUME NonceAges PROVE IpTriesOK'
  BY <1>15 DEF NonceAges
<1>16. ASSUME NEW c \in Clients, StartsPull(c) PROVE IpTriesOK'
  <2>1. IpCommand
    BY <1>16, Zenon DEF StartsPull
  <2> QED
    BY <2>1
<1>17. ASSUME NEW c \in Clients, WritesNonce(c) PROVE IpTriesOK'
  BY <1>17 DEF WritesNonce
<1>18. ASSUME NEW c \in Clients, DockerAsks(c) PROVE IpTriesOK'
  BY <1>18 DEF DockerAsks
<1>19. ASSUME NEW c \in Clients, BrokerAnswers(c) PROVE IpTriesOK'
  BY <1>19 DEF BrokerAnswers
<1>20. ASSUME NEW c \in Clients, PullFails(c) PROVE IpTriesOK'
  BY <1>20 DEF PullFails
<1>21. ASSUME NEW c \in Clients, ChecksLock(c) PROVE IpTriesOK'
  BY <1>21 DEF ChecksLock
<1>22. ASSUME NEW c \in Clients, TagsImage(c) PROVE IpTriesOK'
  BY <1>22 DEF TagsImage
<1>23. ASSUME NEW c \in Clients, ScriptKilled(c) PROVE IpTriesOK'
  BY <1>23 DEF ScriptKilled
<1>24. CASE UNCHANGED ipVars
  BY <1>24 DEF ipVars, IpTriesOK
<1> QED
  BY <1>1, <1>2, <1>3, <1>4, <1>5, <1>6, <1>7, <1>8, <1>9, <1>10, <1>11, <1>12, <1>13, <1>14, <1>15,
     <1>16, <1>17, <1>18, <1>19, <1>20, <1>21, <1>22, <1>23, <1>24 DEF NextImagePull

LEMMA IpPullsStep ==
  ASSUME IpPullsOK, IpAccountOK, [NextImagePull]_ipVars
  PROVE  IpPullsOK'
<1>1. ASSUME SignsIn PROVE IpPullsOK'
  BY <1>1, DisturbedIs DEF SignsIn
<1>2. ASSUME ReadsConfig PROVE IpPullsOK'
  BY <1>2 DEF ReadsConfig, IpPullsOK
<1>3. ASSUME WritesHelper PROVE IpPullsOK'
  BY <1>3, DisturbedIs DEF WritesHelper
<1>4. ASSUME WiresHost PROVE IpPullsOK'
  BY <1>4, DisturbedIs DEF WiresHost
<1>5. ASSUME SignsOut PROVE IpPullsOK'
  BY <1>5, DisturbedIs DEF SignsOut
<1>6. ASSUME RemovesHelper PROVE IpPullsOK'
  BY <1>6, DisturbedIs DEF RemovesHelper
<1>7. ASSUME UnwiresHosts PROVE IpPullsOK'
  BY <1>7, DisturbedIs DEF UnwiresHosts
<1>8. ASSUME EditorStops PROVE IpPullsOK'
  BY <1>8 DEF EditorStops, IpPullsOK
<1>9. ASSUME DockerLogin PROVE IpPullsOK'
  BY <1>9, DisturbedIs DEF DockerLogin
<1>10. ASSUME DockerLogout PROVE IpPullsOK'
  BY <1>10, DisturbedIs DEF DockerLogout
<1>11. ASSUME EditConfig PROVE IpPullsOK'
  BY <1>11, DisturbedIs DEF EditConfig
<1>12. ASSUME UpdateCheckout PROVE IpPullsOK'
  BY <1>12 DEF UpdateCheckout, IpPullsOK
<1>13. ASSUME BuildImage PROVE IpPullsOK'
  BY <1>13 DEF BuildImage, IpPullsOK
<1>14. ASSUME OptsOut PROVE IpPullsOK'
  BY <1>14 DEF OptsOut, IpPullsOK
<1>15. ASSUME NonceAges PROVE IpPullsOK'
  BY <1>15 DEF NonceAges, IpPullsOK
<1>16. ASSUME NEW c \in Clients, StartsPull(c) PROVE IpPullsOK'
  BY <1>16, StartsIs DEF PullStarted, Beside
<1>17. ASSUME NEW c \in Clients, WritesNonce(c) PROVE IpPullsOK'
  BY <1>17, NonceIs DEF GoesOn
<1>18. ASSUME NEW c \in Clients, DockerAsks(c) PROVE IpPullsOK'
  BY <1>18, AsksIs DEF GoesOn, Ended
<1>19. ASSUME NEW c \in Clients, BrokerAnswers(c) PROVE IpPullsOK'
  BY <1>19, AnswersIs DEF GoesOn, Ended
<1>20. ASSUME NEW c \in Clients, PullFails(c) PROVE IpPullsOK'
  BY <1>20, FailsIs DEF Ended
<1>21. ASSUME NEW c \in Clients, ChecksLock(c) PROVE IpPullsOK'
  BY <1>21, ChecksIs DEF GoesOn, Ended
<1>22. ASSUME NEW c \in Clients, TagsImage(c) PROVE IpPullsOK'
  BY <1>22, TagsIs DEF Ended
<1>23. ASSUME NEW c \in Clients, ScriptKilled(c) PROVE IpPullsOK'
  BY <1>23, KillIs
<1>24. CASE UNCHANGED ipVars
  BY <1>24 DEF ipVars, IpPullsOK
<1> QED
  BY <1>1, <1>2, <1>3, <1>4, <1>5, <1>6, <1>7, <1>8, <1>9, <1>10, <1>11, <1>12, <1>13, <1>14, <1>15,
     <1>16, <1>17, <1>18, <1>19, <1>20, <1>21, <1>22, <1>23, <1>24 DEF NextImagePull

LEMMA NonceTypes ==
  /\ NoNonce \in [owner : PullScripts \cup {"none"}, old : BOOLEAN]
  /\ \A c \in PullScripts : [owner |-> c, old |-> FALSE] \in [owner : PullScripts \cup {"none"}, old : BOOLEAN]
BY DEF NoNonce

LEMMA IpNonceStep ==
  ASSUME IpNonceOK, IpPullsOK, IpAccountOK, HandsOff, [NextImagePull]_ipVars
  PROVE  IpNonceOK'
<1>1. ASSUME SignsIn PROVE IpNonceOK'
  BY <1>1 DEF SignsIn, IpNonceOK
<1>2. ASSUME ReadsConfig PROVE IpNonceOK'
  BY <1>2 DEF ReadsConfig, IpNonceOK
<1>3. ASSUME WritesHelper PROVE IpNonceOK'
  BY <1>3 DEF WritesHelper, IpNonceOK
<1>4. ASSUME WiresHost PROVE IpNonceOK'
  BY <1>4 DEF WiresHost, IpNonceOK
<1>5. ASSUME SignsOut PROVE IpNonceOK'
  BY <1>5 DEF SignsOut, IpNonceOK
<1>6. ASSUME RemovesHelper PROVE IpNonceOK'
  BY <1>6 DEF RemovesHelper, IpNonceOK
<1>7. ASSUME UnwiresHosts PROVE IpNonceOK'
  BY <1>7 DEF UnwiresHosts, IpNonceOK
<1>8. ASSUME EditorStops PROVE IpNonceOK'
  BY <1>8 DEF EditorStops, IpNonceOK
<1>9. ASSUME DockerLogin PROVE IpNonceOK'
  BY <1>9 DEF DockerLogin, IpNonceOK
<1>10. ASSUME DockerLogout PROVE IpNonceOK'
  BY <1>10 DEF DockerLogout, IpNonceOK
<1>11. ASSUME EditConfig PROVE IpNonceOK'
  BY <1>11 DEF EditConfig, IpNonceOK
<1>12. ASSUME UpdateCheckout PROVE IpNonceOK'
  BY <1>12 DEF UpdateCheckout, IpNonceOK
<1>13. ASSUME BuildImage PROVE IpNonceOK'
  BY <1>13 DEF BuildImage, IpNonceOK
<1>14. ASSUME OptsOut PROVE IpNonceOK'
  BY <1>14 DEF OptsOut, IpNonceOK
<1>15. ASSUME NonceAges PROVE IpNonceOK'
  BY <1>15 DEF NonceAges, IpNonceOK
<1>16. ASSUME NEW c \in Clients, StartsPull(c) PROVE IpNonceOK'
  BY <1>16 DEF StartsPull, IpNonceOK
<1>17. ASSUME NEW c \in Clients, WritesNonce(c) PROVE IpNonceOK'
  <2>1. c \in PullScripts
    BY <1>17, NonceIs DEF HandsOff, Clients
  <2>2. nonce' = [owner |-> c, old |-> FALSE] \/ nonce' = nonce
    BY <1>17, NonceIs, Zenon
  <2> QED
    BY <2>1, <2>2, NonceTypes, Zenon DEF IpNonceOK
<1>18. ASSUME NEW c \in Clients, DockerAsks(c) PROVE IpNonceOK'
  <2>1. nonce' = nonce \/ nonce' = NoNonce
    BY <1>18, AsksIs DEF Ended
  <2> QED
    BY <2>1, NonceTypes, Zenon DEF IpNonceOK
<1>19. ASSUME NEW c \in Clients, BrokerAnswers(c) PROVE IpNonceOK'
  <2>1. nonce' = nonce \/ nonce' = NoNonce
    BY <1>19, AnswersIs DEF Ended
  <2> QED
    BY <2>1, NonceTypes, Zenon DEF IpNonceOK
<1>20. ASSUME NEW c \in Clients, PullFails(c) PROVE IpNonceOK'
  <2>1. nonce' = nonce \/ nonce' = NoNonce
    BY <1>20, FailsIs DEF Ended
  <2> QED
    BY <2>1, NonceTypes, Zenon DEF IpNonceOK
<1>21. ASSUME NEW c \in Clients, ChecksLock(c) PROVE IpNonceOK'
  <2>1. nonce' = nonce \/ nonce' = NoNonce
    BY <1>21, ChecksIs DEF Ended
  <2> QED
    BY <2>1, NonceTypes, Zenon DEF IpNonceOK
<1>22. ASSUME NEW c \in Clients, TagsImage(c) PROVE IpNonceOK'
  <2>1. nonce' = nonce \/ nonce' = NoNonce
    BY <1>22, TagsIs DEF Ended
  <2> QED
    BY <2>1, NonceTypes, Zenon DEF IpNonceOK
<1>23. ASSUME NEW c \in Clients, ScriptKilled(c) PROVE IpNonceOK'
  BY <1>23, KillIs DEF IpNonceOK
<1>24. CASE UNCHANGED ipVars
  BY <1>24 DEF ipVars, IpNonceOK
<1> QED
  BY <1>1, <1>2, <1>3, <1>4, <1>5, <1>6, <1>7, <1>8, <1>9, <1>10, <1>11, <1>12, <1>13, <1>14, <1>15,
     <1>16, <1>17, <1>18, <1>19, <1>20, <1>21, <1>22, <1>23, <1>24 DEF NextImagePull

LEMMA IpTokensStep ==
  ASSUME IpTokensOK, IpPullsOK, IpAccountOK, [NextImagePull]_ipVars
  PROVE  IpTokensOK'
<1> USE DEF IpTokensOK
<1>1. ASSUME SignsIn PROVE IpTokensOK'
  BY <1>1, DisturbedIs DEF SignsIn, IpAccountOK
<1>2. ASSUME ReadsConfig PROVE IpTokensOK'
  BY <1>2 DEF ReadsConfig, accountVars
<1>3. ASSUME WritesHelper PROVE IpTokensOK'
  BY <1>3, DisturbedIs DEF WritesHelper, accountVars
<1>4. ASSUME WiresHost PROVE IpTokensOK'
  BY <1>4, DisturbedIs DEF WiresHost, accountVars
<1>5. ASSUME SignsOut PROVE IpTokensOK'
  BY <1>5, DisturbedIs DEF SignsOut, accountVars
<1>6. ASSUME RemovesHelper PROVE IpTokensOK'
  BY <1>6, DisturbedIs DEF RemovesHelper, accountVars
<1>7. ASSUME UnwiresHosts PROVE IpTokensOK'
  BY <1>7, DisturbedIs DEF UnwiresHosts, accountVars
<1>8. ASSUME EditorStops PROVE IpTokensOK'
  BY <1>8 DEF EditorStops, accountVars
<1>9. ASSUME DockerLogin PROVE IpTokensOK'
  BY <1>9, DisturbedIs DEF DockerLogin, accountVars
<1>10. ASSUME DockerLogout PROVE IpTokensOK'
  BY <1>10, DisturbedIs DEF DockerLogout, accountVars
<1>11. ASSUME EditConfig PROVE IpTokensOK'
  BY <1>11, DisturbedIs DEF EditConfig, accountVars
<1>12. ASSUME UpdateCheckout PROVE IpTokensOK'
  BY <1>12 DEF UpdateCheckout, accountVars
<1>13. ASSUME BuildImage PROVE IpTokensOK'
  BY <1>13 DEF BuildImage, accountVars
<1>14. ASSUME OptsOut PROVE IpTokensOK'
  BY <1>14 DEF OptsOut, accountVars
<1>15. ASSUME NonceAges PROVE IpTokensOK'
  BY <1>15 DEF NonceAges, accountVars
<1>16. ASSUME NEW c \in Clients, StartsPull(c) PROVE IpTokensOK'
  <2>1. issued' = issued /\ issued \in Nat
    BY <1>16, Zenon DEF StartsPull, accountVars, IpAccountOK
  <2>2. \A o \in Clients : pulls'[o].token = pulls[o].token \/ pulls'[o].token = 0
    BY <1>16, StartsIs DEF PullStarted, Beside
  <2> QED
    BY <2>1, <2>2
<1>17. ASSUME NEW c \in Clients, WritesNonce(c) PROVE IpTokensOK'
  <2>1. issued' = issued /\ issued \in Nat
    BY <1>17, Zenon DEF WritesNonce, accountVars, IpAccountOK
  <2> QED
    BY <1>17, <2>1, NonceIs DEF GoesOn, Ended, Others, IpAccountOK
<1>18. ASSUME NEW c \in Clients, DockerAsks(c) PROVE IpTokensOK'
  <2>1. issued' = issued /\ issued \in Nat
    BY <1>18, Zenon DEF DockerAsks, accountVars, IpAccountOK
  <2> QED
    BY <1>18, <2>1, AsksIs DEF GoesOn, Ended, Others, IpAccountOK
<1>19. ASSUME NEW c \in Clients, BrokerAnswers(c) PROVE IpTokensOK'
  <2>1. issued' = issued /\ issued \in Nat
    BY <1>19, Zenon DEF BrokerAnswers, accountVars, IpAccountOK
  <2> QED
    BY <1>19, <2>1, AnswersIs DEF GoesOn, Ended, Others, IpAccountOK
<1>20. ASSUME NEW c \in Clients, PullFails(c) PROVE IpTokensOK'
  <2>1. issued' = issued /\ issued \in Nat
    BY <1>20, Zenon DEF PullFails, accountVars, IpAccountOK
  <2> QED
    BY <1>20, <2>1, FailsIs DEF GoesOn, Ended, Others, IpAccountOK
<1>21. ASSUME NEW c \in Clients, ChecksLock(c) PROVE IpTokensOK'
  <2>1. issued' = issued /\ issued \in Nat
    BY <1>21, Zenon DEF ChecksLock, accountVars, IpAccountOK
  <2> QED
    BY <1>21, <2>1, ChecksIs DEF GoesOn, Ended, Others, IpAccountOK
<1>22. ASSUME NEW c \in Clients, TagsImage(c) PROVE IpTokensOK'
  <2>1. issued' = issued /\ issued \in Nat
    BY <1>22, Zenon DEF TagsImage, accountVars, IpAccountOK
  <2> QED
    BY <1>22, <2>1, TagsIs DEF GoesOn, Ended, Others, IpAccountOK
<1>23. ASSUME NEW c \in Clients, ScriptKilled(c) PROVE IpTokensOK'
  <2>1. issued' = issued /\ issued \in Nat
    BY <1>23, Zenon DEF ScriptKilled, accountVars, IpAccountOK
  <2> QED
    BY <1>23, <2>1, KillIs DEF GoesOn, Ended, Others, IpAccountOK
<1>24. CASE UNCHANGED ipVars
  BY <1>24 DEF ipVars, IpTokensOK
<1> QED
  BY <1>1, <1>2, <1>3, <1>4, <1>5, <1>6, <1>7, <1>8, <1>9, <1>10, <1>11, <1>12, <1>13, <1>14, <1>15,
     <1>16, <1>17, <1>18, <1>19, <1>20, <1>21, <1>22, <1>23, <1>24 DEF NextImagePull

LEMMA IpImagesStep ==
  ASSUME IpImagesOK, IpPullsOK, IpAccountOK, RefsRead, [NextImagePull]_ipVars
  PROVE  IpImagesOK'
<1> USE DEF IpImagesOK
<1>1. ASSUME SignsIn PROVE IpImagesOK'
  BY <1>1 DEF SignsIn, imageVars
<1>2. ASSUME ReadsConfig PROVE IpImagesOK'
  BY <1>2 DEF ReadsConfig, imageVars
<1>3. ASSUME WritesHelper PROVE IpImagesOK'
  BY <1>3 DEF WritesHelper, imageVars
<1>4. ASSUME WiresHost PROVE IpImagesOK'
  BY <1>4 DEF WiresHost, imageVars
<1>5. ASSUME SignsOut PROVE IpImagesOK'
  BY <1>5 DEF SignsOut, imageVars
<1>6. ASSUME RemovesHelper PROVE IpImagesOK'
  BY <1>6 DEF RemovesHelper, imageVars
<1>7. ASSUME UnwiresHosts PROVE IpImagesOK'
  BY <1>7 DEF UnwiresHosts, imageVars
<1>8. ASSUME EditorStops PROVE IpImagesOK'
  BY <1>8 DEF EditorStops, imageVars
<1>9. ASSUME DockerLogin PROVE IpImagesOK'
  BY <1>9 DEF DockerLogin, imageVars
<1>10. ASSUME DockerLogout PROVE IpImagesOK'
  BY <1>10 DEF DockerLogout, imageVars
<1>11. ASSUME EditConfig PROVE IpImagesOK'
  BY <1>11 DEF EditConfig, imageVars
<1>12. ASSUME UpdateCheckout PROVE IpImagesOK'
  BY <1>12 DEF UpdateCheckout, imageVars
<1>13. ASSUME BuildImage PROVE IpImagesOK'
  <2>1. UNCHANGED <<store, handed>>
    BY <1>13 DEF BuildImage
  <2>2. localTag' = [ref |-> "built", lock |-> checkout] \/ localTag' = [localTag EXCEPT !.ref = "layered"]
    BY <1>13, Zenon DEF BuildImage
  <2> QED
    BY <2>1, <2>2 DEF IpAccountOK
<1>14. ASSUME OptsOut PROVE IpImagesOK'
  BY <1>14 DEF OptsOut, imageVars
<1>15. ASSUME NonceAges PROVE IpImagesOK'
  BY <1>15 DEF NonceAges, imageVars
<1>16. ASSUME NEW c \in Clients, StartsPull(c) PROVE IpImagesOK'
  BY <1>16 DEF StartsPull, imageVars
<1>17. ASSUME NEW c \in Clients, WritesNonce(c) PROVE IpImagesOK'
  BY <1>17 DEF WritesNonce, imageVars
<1>18. ASSUME NEW c \in Clients, DockerAsks(c) PROVE IpImagesOK'
  <2>1. pulls[c].ref \in Refs
    BY <1>18, AsksIs DEF RefsRead
  <2>2. UNCHANGED localTag
    BY <1>18, Zenon DEF DockerAsks
  <2> QED
    BY <1>18, <2>1, <2>2, AsksIs DEF DockerAsks
<1>19. ASSUME NEW c \in Clients, BrokerAnswers(c) PROVE IpImagesOK'
  <2>1. pulls[c].ref \in Refs
    BY <1>19, AnswersIs DEF RefsRead
  <2>2. UNCHANGED localTag
    BY <1>19, Zenon DEF BrokerAnswers
  <2> QED
    BY <1>19, <2>1, <2>2, AnswersIs DEF BrokerAnswers
<1>20. ASSUME NEW c \in Clients, PullFails(c) PROVE IpImagesOK'
  BY <1>20 DEF PullFails, imageVars
<1>21. ASSUME NEW c \in Clients, ChecksLock(c) PROVE IpImagesOK'
  BY <1>21 DEF ChecksLock, imageVars
<1>22. ASSUME NEW c \in Clients, TagsImage(c) PROVE IpImagesOK'
  <2>1. pulls[c].ref \in Refs
    BY <1>22, TagsIs DEF RefsRead
  <2> QED
    BY <1>22, <2>1 DEF TagsImage, LockOf
<1>23. ASSUME NEW c \in Clients, ScriptKilled(c) PROVE IpImagesOK'
  BY <1>23 DEF ScriptKilled, imageVars
<1>24. CASE UNCHANGED ipVars
  BY <1>24 DEF ipVars, IpImagesOK
<1> QED
  BY <1>1, <1>2, <1>3, <1>4, <1>5, <1>6, <1>7, <1>8, <1>9, <1>10, <1>11, <1>12, <1>13, <1>14, <1>15,
     <1>16, <1>17, <1>18, <1>19, <1>20, <1>21, <1>22, <1>23, <1>24 DEF NextImagePull

LEMMA RefsStep ==
  ASSUME RefsRead, IpPullsOK, IpAccountOK, [NextImagePull]_ipVars
  PROVE  RefsRead'
<1> USE DEF RefsRead
<1>1. ASSUME SignsIn PROVE RefsRead'
  BY <1>1, DisturbedIs DEF SignsIn
<1>2. ASSUME ReadsConfig PROVE RefsRead'
  BY <1>2 DEF ReadsConfig
<1>3. ASSUME WritesHelper PROVE RefsRead'
  BY <1>3, DisturbedIs DEF WritesHelper
<1>4. ASSUME WiresHost PROVE RefsRead'
  BY <1>4, DisturbedIs DEF WiresHost
<1>5. ASSUME SignsOut PROVE RefsRead'
  BY <1>5, DisturbedIs DEF SignsOut
<1>6. ASSUME RemovesHelper PROVE RefsRead'
  BY <1>6, DisturbedIs DEF RemovesHelper
<1>7. ASSUME UnwiresHosts PROVE RefsRead'
  BY <1>7, DisturbedIs DEF UnwiresHosts
<1>8. ASSUME EditorStops PROVE RefsRead'
  BY <1>8 DEF EditorStops
<1>9. ASSUME DockerLogin PROVE RefsRead'
  BY <1>9, DisturbedIs DEF DockerLogin
<1>10. ASSUME DockerLogout PROVE RefsRead'
  BY <1>10, DisturbedIs DEF DockerLogout
<1>11. ASSUME EditConfig PROVE RefsRead'
  BY <1>11, DisturbedIs DEF EditConfig
<1>12. ASSUME UpdateCheckout PROVE RefsRead'
  BY <1>12 DEF UpdateCheckout
<1>13. ASSUME BuildImage PROVE RefsRead'
  BY <1>13 DEF BuildImage
<1>14. ASSUME OptsOut PROVE RefsRead'
  BY <1>14 DEF OptsOut
<1>15. ASSUME NonceAges PROVE RefsRead'
  BY <1>15 DEF NonceAges
<1>16. ASSUME NEW c \in Clients, StartsPull(c) PROVE RefsRead'
  <2>1. PullStarted(c) /\ \A o \in Clients \ {c} : Beside(c, o)
    BY <1>16, StartsIs, Zenon
  <2> SUFFICES ASSUME NEW o \in Clients, pulls'[o].at \in {"nonce", "docker", "asked", "check", "tag"}
               PROVE  pulls'[o].ref \in Refs
    OBVIOUS
  <2>2. CASE o = c
    BY <2>1, <2>2, HostsAre, Zenon DEF PullStarted
  <2>3. CASE o # c
    <3>1. pulls'[o].at = pulls[o].at /\ pulls'[o].ref = pulls[o].ref
      BY <2>1, <2>3, Zenon DEF Beside
    <3> QED
      BY <3>1
  <2> QED
    BY <2>2, <2>3
<1>17. ASSUME NEW c \in Clients, WritesNonce(c) PROVE RefsRead'
  BY <1>17, NonceIs, HostsAre DEF GoesOn, Ended, Others
<1>18. ASSUME NEW c \in Clients, DockerAsks(c) PROVE RefsRead'
  BY <1>18, AsksIs, HostsAre DEF GoesOn, Ended, Others
<1>19. ASSUME NEW c \in Clients, BrokerAnswers(c) PROVE RefsRead'
  BY <1>19, AnswersIs, HostsAre DEF GoesOn, Ended, Others
<1>20. ASSUME NEW c \in Clients, PullFails(c) PROVE RefsRead'
  BY <1>20, FailsIs, HostsAre DEF GoesOn, Ended, Others
<1>21. ASSUME NEW c \in Clients, ChecksLock(c) PROVE RefsRead'
  BY <1>21, ChecksIs, HostsAre DEF GoesOn, Ended, Others
<1>22. ASSUME NEW c \in Clients, TagsImage(c) PROVE RefsRead'
  BY <1>22, TagsIs, HostsAre DEF GoesOn, Ended, Others
<1>23. ASSUME NEW c \in Clients, ScriptKilled(c) PROVE RefsRead'
  BY <1>23, KillIs, HostsAre DEF GoesOn, Ended, Others
<1>24. CASE UNCHANGED ipVars
  BY <1>24 DEF ipVars, RefsRead
<1> QED
  BY <1>1, <1>2, <1>3, <1>4, <1>5, <1>6, <1>7, <1>8, <1>9, <1>10, <1>11, <1>12, <1>13, <1>14, <1>15,
     <1>16, <1>17, <1>18, <1>19, <1>20, <1>21, <1>22, <1>23, <1>24 DEF NextImagePull

LEMMA HandsStep ==
  ASSUME HandsOff, IpPullsOK, IpAccountOK, [NextImagePull]_ipVars
  PROVE  HandsOff'
<1> USE DEF HandsOff, NothingByHand
<1>1. ASSUME SignsIn PROVE HandsOff'
  <2>1. /\ \A c \in Clients : pulls'[c].at = pulls[c].at /\ pulls'[c].env = pulls[c].env /\ pulls'[c].script = pulls[c].script
        /\ handed' = handed
    BY <1>1, DisturbedIs DEF SignsIn
  <2> QED
    BY <2>1 DEF Clients
<1>2. ASSUME ReadsConfig PROVE HandsOff'
  <2>1. /\ \A c \in Clients : pulls'[c].at = pulls[c].at /\ pulls'[c].env = pulls[c].env /\ pulls'[c].script = pulls[c].script
        /\ handed' = handed
    BY <1>2, DisturbedIs DEF ReadsConfig
  <2> QED
    BY <2>1 DEF Clients
<1>3. ASSUME WritesHelper PROVE HandsOff'
  <2>1. /\ \A c \in Clients : pulls'[c].at = pulls[c].at /\ pulls'[c].env = pulls[c].env /\ pulls'[c].script = pulls[c].script
        /\ handed' = handed
    BY <1>3, DisturbedIs DEF WritesHelper
  <2> QED
    BY <2>1 DEF Clients
<1>4. ASSUME WiresHost PROVE HandsOff'
  <2>1. /\ \A c \in Clients : pulls'[c].at = pulls[c].at /\ pulls'[c].env = pulls[c].env /\ pulls'[c].script = pulls[c].script
        /\ handed' = handed
    BY <1>4, DisturbedIs DEF WiresHost
  <2> QED
    BY <2>1 DEF Clients
<1>5. ASSUME SignsOut PROVE HandsOff'
  <2>1. /\ \A c \in Clients : pulls'[c].at = pulls[c].at /\ pulls'[c].env = pulls[c].env /\ pulls'[c].script = pulls[c].script
        /\ handed' = handed
    BY <1>5, DisturbedIs DEF SignsOut
  <2> QED
    BY <2>1 DEF Clients
<1>6. ASSUME RemovesHelper PROVE HandsOff'
  <2>1. /\ \A c \in Clients : pulls'[c].at = pulls[c].at /\ pulls'[c].env = pulls[c].env /\ pulls'[c].script = pulls[c].script
        /\ handed' = handed
    BY <1>6, DisturbedIs DEF RemovesHelper
  <2> QED
    BY <2>1 DEF Clients
<1>7. ASSUME UnwiresHosts PROVE HandsOff'
  <2>1. /\ \A c \in Clients : pulls'[c].at = pulls[c].at /\ pulls'[c].env = pulls[c].env /\ pulls'[c].script = pulls[c].script
        /\ handed' = handed
    BY <1>7, DisturbedIs DEF UnwiresHosts
  <2> QED
    BY <2>1 DEF Clients
<1>8. ASSUME EditorStops PROVE HandsOff'
  <2>1. /\ \A c \in Clients : pulls'[c].at = pulls[c].at /\ pulls'[c].env = pulls[c].env /\ pulls'[c].script = pulls[c].script
        /\ handed' = handed
    BY <1>8, DisturbedIs DEF EditorStops
  <2> QED
    BY <2>1 DEF Clients
<1>9. ASSUME DockerLogin PROVE HandsOff'
  <2>1. /\ \A c \in Clients : pulls'[c].at = pulls[c].at /\ pulls'[c].env = pulls[c].env /\ pulls'[c].script = pulls[c].script
        /\ handed' = handed
    BY <1>9, DisturbedIs DEF DockerLogin
  <2> QED
    BY <2>1 DEF Clients
<1>10. ASSUME DockerLogout PROVE HandsOff'
  <2>1. /\ \A c \in Clients : pulls'[c].at = pulls[c].at /\ pulls'[c].env = pulls[c].env /\ pulls'[c].script = pulls[c].script
        /\ handed' = handed
    BY <1>10, DisturbedIs DEF DockerLogout
  <2> QED
    BY <2>1 DEF Clients
<1>11. ASSUME EditConfig PROVE HandsOff'
  <2>1. /\ \A c \in Clients : pulls'[c].at = pulls[c].at /\ pulls'[c].env = pulls[c].env /\ pulls'[c].script = pulls[c].script
        /\ handed' = handed
    BY <1>11, DisturbedIs DEF EditConfig
  <2> QED
    BY <2>1 DEF Clients
<1>12. ASSUME UpdateCheckout PROVE HandsOff'
  <2>1. /\ \A c \in Clients : pulls'[c].at = pulls[c].at /\ pulls'[c].env = pulls[c].env /\ pulls'[c].script = pulls[c].script
        /\ handed' = handed
    BY <1>12, DisturbedIs DEF UpdateCheckout
  <2> QED
    BY <2>1 DEF Clients
<1>13. ASSUME BuildImage PROVE HandsOff'
  <2>1. /\ \A c \in Clients : pulls'[c].at = pulls[c].at /\ pulls'[c].env = pulls[c].env /\ pulls'[c].script = pulls[c].script
        /\ handed' = handed
    BY <1>13, DisturbedIs DEF BuildImage
  <2> QED
    BY <2>1 DEF Clients
<1>14. ASSUME OptsOut PROVE HandsOff'
  <2>1. /\ \A c \in Clients : pulls'[c].at = pulls[c].at /\ pulls'[c].env = pulls[c].env /\ pulls'[c].script = pulls[c].script
        /\ handed' = handed
    BY <1>14, DisturbedIs DEF OptsOut
  <2> QED
    BY <2>1 DEF Clients
<1>15. ASSUME NonceAges PROVE HandsOff'
  <2>1. /\ \A c \in Clients : pulls'[c].at = pulls[c].at /\ pulls'[c].env = pulls[c].env /\ pulls'[c].script = pulls[c].script
        /\ handed' = handed
    BY <1>15, DisturbedIs DEF NonceAges
  <2> QED
    BY <2>1 DEF Clients
<1>16. ASSUME NEW c \in Clients, StartsPull(c) PROVE HandsOff'
  <2>1. ByHand \in Clients
    BY DEF Clients
  <2>2. handed' = handed
    BY <1>16, Zenon DEF StartsPull
  <2>3. ~pulls'[ByHand].env /\ ~pulls'[ByHand].script /\ pulls'[ByHand].at \notin {"nonce", "asked"}
    BY <1>16, <2>1, StartsIs, ImagePullAssumption DEF PullStarted, Beside
  <2>4. ASSUME NEW o \in Clients, pulls'[o].at = "nonce" PROVE pulls'[o].script
    <3>1. CASE o = c
      BY <1>16, <2>4, <3>1, StartsIs DEF Clients, PullStarted, Beside
    <3>2. CASE o # c
      <4> HIDE DEF HandsOff, NothingByHand
      <4>1. o \in Clients \ {c}
        BY <3>2
      <4>2. pulls'[o].at = pulls[o].at /\ pulls'[o].script = pulls[o].script
        <5>1. Beside(c, o)
          BY <1>16, <4>1, StartsIs, Zenon
        <5> QED
          BY <5>1, Zenon DEF Beside
      <4> QED
        BY <2>4, <4>2 DEF HandsOff
    <3> QED
      BY <3>1, <3>2
  <2> QED
    BY <2>2, <2>3, <2>4
<1>17. ASSUME NEW c \in Clients, WritesNonce(c) PROVE HandsOff'
  <2>1. ByHand \in Clients
    BY DEF Clients
  <2>2. handed' = handed
    BY <1>17, Zenon DEF WritesNonce
  <2>3. c # ByHand
    BY <1>17, NonceIs DEF Clients
  <2> QED
    BY <1>17, <2>1, <2>2, <2>3, NonceIs DEF GoesOn, Ended, Others
<1>18. ASSUME NEW c \in Clients, DockerAsks(c) PROVE HandsOff'
  <2>1. ByHand \in Clients
    BY DEF Clients
  <2>2. handed' = handed
    BY <1>18, Zenon DEF DockerAsks
  <2>3. c = ByHand => ~GoesOn(c, "asked") \/ ~RequirePullNonce(c)
    BY DEF RequirePullNonce
  <2> QED
    BY <1>18, <2>1, <2>2, <2>3, AsksIs DEF GoesOn, Ended, Others
<1>19. ASSUME NEW c \in Clients, BrokerAnswers(c) PROVE HandsOff'
  <2>1. ByHand \in Clients
    BY DEF Clients
  <2>2. c # ByHand /\ handed' \subseteq handed \cup {c}
    BY <1>19, AnswersIs DEF Clients
  <2> QED
    BY <1>19, <2>1, <2>2, AnswersIs DEF GoesOn, Ended, Others
<1>20. ASSUME NEW c \in Clients, PullFails(c) PROVE HandsOff'
  <2>1. ByHand \in Clients
    BY DEF Clients
  <2>2. handed' = handed
    BY <1>20, Zenon DEF PullFails
  <2> QED
    BY <1>20, <2>1, <2>2, FailsIs DEF GoesOn, Ended, Others
<1>21. ASSUME NEW c \in Clients, ChecksLock(c) PROVE HandsOff'
  <2>1. ByHand \in Clients
    BY DEF Clients
  <2>2. handed' = handed
    BY <1>21, Zenon DEF ChecksLock
  <2> QED
    BY <1>21, <2>1, <2>2, ChecksIs DEF GoesOn, Ended, Others
<1>22. ASSUME NEW c \in Clients, TagsImage(c) PROVE HandsOff'
  <2>1. ByHand \in Clients
    BY DEF Clients
  <2>2. handed' = handed
    BY <1>22, Zenon DEF TagsImage
  <2> QED
    BY <1>22, <2>1, <2>2, TagsIs DEF GoesOn, Ended, Others
<1>23. ASSUME NEW c \in Clients, ScriptKilled(c) PROVE HandsOff'
  <2>1. ByHand \in Clients
    BY DEF Clients
  <2>2. handed' = handed
    BY <1>23, Zenon DEF ScriptKilled
  <2>3. c # ByHand
    BY <1>23, KillIs DEF Clients
  <2> QED
    BY <1>23, <2>1, <2>2, <2>3, KillIs DEF GoesOn, Ended, Others
<1>24. CASE UNCHANGED ipVars
  BY <1>24 DEF ipVars, HandsOff
<1> QED
  BY <1>1, <1>2, <1>3, <1>4, <1>5, <1>6, <1>7, <1>8, <1>9, <1>10, <1>11, <1>12, <1>13, <1>14, <1>15,
     <1>16, <1>17, <1>18, <1>19, <1>20, <1>21, <1>22, <1>23, <1>24 DEF NextImagePull

\* What lets pulls in stays as it is, and so does a pull that goes on next to
\* the one that steps.
LetsIn == <<regAuth, honoured, helperIn, dockerConfig>>

LEMMA ReadyStays ==
  ASSUME UNCHANGED LetsIn, NEW c, NEW r, Ready(c, r)
  PROVE  Ready(c, r)'
BY DEF LetsIn, Ready, HelperAnswers, FoundOnPath

LEMMA SoundBeside ==
  ASSUME SoundInv, HandsOff, UNCHANGED LetsIn, NEW c \in Clients, Others(c), pulls'[c].script => pulls[c].script,
         nonce' = nonce \/ pulls[c].script,
         NEW o \in Clients, o # c, pulls'[o].sound, Pulling(o)'
  PROVE  LetIn(o)'
<1>1. pulls'[o] = pulls[o] /\ LetIn(o)
  BY DEF Others, SoundInv, Pulling
<1>2. Ready(o, pulls[o].ref)'
  BY <1>1, ReadyStays DEF LetIn
<1>3. \A s \in PullScripts \ {o} : ~pulls'[s].script
  BY <1>1 DEF LetIn, Others, Clients
<1>4. honoured' = honoured
  BY DEF LetsIn
<1>5. o \in PullScripts => nonce' = nonce
  BY <1>1 DEF LetIn, Clients, HandsOff
<1> QED
  BY <1>1, <1>2, <1>3, <1>4, <1>5 DEF LetIn

LEMMA SoundSteps ==
  ASSUME SoundInv, HandsOff, UNCHANGED LetsIn, NEW c \in Clients, Others(c), pulls'[c].script => pulls[c].script,
         nonce' = nonce \/ pulls[c].script,
         pulls'[c].sound /\ Pulling(c)' => LetIn(c)'
  PROVE  SoundInv'
BY SoundBeside DEF SoundInv

LEMMA SoundEnds ==
  ASSUME SoundInv, HandsOff, UNCHANGED LetsIn, NEW c \in Clients, NEW upshot \in {"done", "failed", "refused"},
         NEW calm, Ended(c, upshot, calm)
  PROVE  SoundInv'
<1>1. ~Pulling(c)'
  BY DEF Ended, Pulling
<1> QED
  BY <1>1, SoundSteps DEF Ended

LEMMA SoundDisturbed ==
  ASSUME IpPullsOK, Disturbed
  PROVE  SoundInv'
BY DisturbedIs DEF SoundInv, Pulling

LEMMA SoundCalm ==
  ASSUME SoundInv, UNCHANGED <<LetsIn, pulls, nonce>>
  PROVE  SoundInv'
<1> SUFFICES ASSUME NEW c \in Clients, pulls'[c].sound, Pulling(c)' PROVE LetIn(c)'
  BY DEF SoundInv
<1>1. LetIn(c)
  BY DEF SoundInv, Pulling
<1>2. Ready(c, pulls[c].ref)'
  BY <1>1, ReadyStays DEF LetIn
<1> QED
  BY <1>1, <1>2 DEF LetIn, LetsIn

LEMMA SoundStep ==
  ASSUME SoundInv, HandsOff, IpPullsOK, IpAccountOK, [NextImagePull]_ipVars
  PROVE  SoundInv'
<1>1. ASSUME SignsIn PROVE SoundInv'
  BY <1>1, SoundDisturbed DEF SignsIn
<1>2. ASSUME ReadsConfig PROVE SoundInv'
  BY <1>2, SoundCalm DEF ReadsConfig, LetsIn, accountVars, wiring, imageVars
<1>3. ASSUME WritesHelper PROVE SoundInv'
  BY <1>3, SoundDisturbed DEF WritesHelper
<1>4. ASSUME WiresHost PROVE SoundInv'
  BY <1>4, SoundDisturbed DEF WiresHost
<1>5. ASSUME SignsOut PROVE SoundInv'
  BY <1>5, SoundDisturbed DEF SignsOut
<1>6. ASSUME RemovesHelper PROVE SoundInv'
  BY <1>6, SoundDisturbed DEF RemovesHelper
<1>7. ASSUME UnwiresHosts PROVE SoundInv'
  BY <1>7, SoundDisturbed DEF UnwiresHosts
<1>8. ASSUME EditorStops PROVE SoundInv'
  BY <1>8, SoundCalm DEF EditorStops, LetsIn, accountVars
<1>9. ASSUME DockerLogin PROVE SoundInv'
  BY <1>9, SoundDisturbed DEF DockerLogin
<1>10. ASSUME DockerLogout PROVE SoundInv'
  BY <1>10, SoundDisturbed DEF DockerLogout
<1>11. ASSUME EditConfig PROVE SoundInv'
  BY <1>11, SoundDisturbed DEF EditConfig
<1>12. ASSUME UpdateCheckout PROVE SoundInv'
  BY <1>12, SoundCalm DEF UpdateCheckout, LetsIn, accountVars, wiring, imageVars
<1>13. ASSUME BuildImage PROVE SoundInv'
  BY <1>13, SoundCalm DEF BuildImage, LetsIn, accountVars, wiring, imageVars
<1>14. ASSUME OptsOut PROVE SoundInv'
  BY <1>14, SoundCalm DEF OptsOut, LetsIn, accountVars, wiring, imageVars
<1>15. ASSUME NonceAges PROVE SoundInv'
  <2>1. UNCHANGED <<LetsIn, pulls>>
    BY <1>15 DEF NonceAges, LetsIn, accountVars, wiring
  <2> SUFFICES ASSUME NEW c \in Clients, pulls'[c].sound, Pulling(c)' PROVE LetIn(c)'
    BY DEF SoundInv
  <2>2. LetIn(c)
    BY <2>1 DEF SoundInv, Pulling
  <2>3. Ready(c, pulls[c].ref)'
    BY <2>1, <2>2, ReadyStays DEF LetIn
  <2>4. ~(c \in PullScripts /\ pulls[c].at = "docker")
    BY <1>15, <2>2 DEF LetIn, NonceAges
  <2> QED
    BY <2>1, <2>2, <2>3, <2>4 DEF LetIn, LetsIn
<1>16. ASSUME NEW c \in Clients, StartsPull(c) PROVE SoundInv'
  <2>1. UNCHANGED LetsIn
    BY <1>16, Zenon DEF StartsPull, LetsIn, accountVars, wiring
  <2> SUFFICES ASSUME NEW o \in Clients, pulls'[o].sound, Pulling(o)' PROVE LetIn(o)'
    BY DEF SoundInv
  <2>2. CASE o = c
    <3>1. Ready(o, pulls[o].ref)'
      <4>1. PullStarted(c)
        BY <1>16, StartsIs, Zenon
      <4>2. pulls'[c].ref = Pin /\ Ready(c, Pin)
        BY <2>2, <4>1, Zenon DEF PullStarted
      <4>3. PICK r : r = pulls'[c].ref
        OBVIOUS
      <4>4. Ready(c, r)
        BY <4>2, <4>3
      <4>5. Ready(c, r)'
        BY <2>1, <4>4, ReadyStays
      <4> HIDE DEF IpPullsOK
      <4> QED
        BY <2>2, <4>3, <4>5 DEF Ready
    <3>2. o \in PullScripts => pulls'[o].script /\ pulls'[o].at # "docker"
      BY <1>16, <2>2, StartsIs, ImagePullAssumption DEF PullStarted, Beside
    <3>3. pulls'[o].at # "asked"
      BY <1>16, <2>2, StartsIs DEF PullStarted, Beside
    <3>4. \A s \in PullScripts \ {o} : ~pulls'[s].script
      BY <1>16, <2>2, StartsIs DEF Clients, PullStarted, Beside
    <3> QED
      BY <3>1, <3>2, <3>3, <3>4 DEF LetIn
  <2>3. CASE o # c
    <3>1. /\ pulls'[o].at = pulls[o].at /\ pulls'[o].ref = pulls[o].ref /\ pulls'[o].env = pulls[o].env
          /\ pulls'[o].token = pulls[o].token /\ pulls'[o].script = pulls[o].script
          /\ pulls[o].sound /\ c = ByHand
      <4>1. o \in Clients \ {c}
        BY <2>3
      <4>2. Beside(c, o)
        BY <1>16, <4>1, StartsIs, Zenon
      <4> QED
        BY <4>2, Zenon DEF Beside
    <3>2. LetIn(o)
      BY <3>1 DEF SoundInv, Pulling
    <3>3. Ready(o, pulls[o].ref)'
      BY <2>1, <3>1, <3>2, ReadyStays DEF LetIn
    <3>4. \A s \in PullScripts \ {o} : ~pulls'[s].script
      BY <1>16, <3>1, <3>2, StartsIs, ImagePullAssumption DEF LetIn, Clients, PullStarted, Beside
    <3>5. UNCHANGED <<nonce, honoured>>
      BY <1>16, Zenon DEF StartsPull, accountVars
    <3> QED
      BY <3>1, <3>2, <3>3, <3>4, <3>5 DEF LetIn
  <2> QED
    BY <2>2, <2>3
<1>17. ASSUME NEW c \in Clients, WritesNonce(c) PROVE SoundInv'
  <2>1. UNCHANGED LetsIn
    BY <1>17, Zenon DEF WritesNonce, LetsIn, accountVars, wiring
  <2>2. pulls[c].script
    BY <1>17, NonceIs DEF HandsOff
  <2>3. ASSUME pulls'[c].sound PROVE LetIn(c)'
    <3>1. pulls[c].sound /\ Pulling(c)
      BY <1>17, <2>3, NonceIs DEF GoesOn, Pulling
    <3>2. LetIn(c)
      BY <3>1 DEF SoundInv
    <3>3. Ready(c, pulls[c].ref)'
      BY <1>17, <2>1, <3>2, NonceIs, ReadyStays DEF LetIn, GoesOn
    <3>4. nonce' = [owner |-> c, old |-> FALSE] /\ pulls'[c].env /\ pulls'[c].at = "docker" /\ pulls'[c].script
      BY <1>17, <2>2, <2>3, NonceIs DEF GoesOn
    <3>5. \A s \in PullScripts \ {c} : ~pulls'[s].script
      BY <1>17, <3>2, NonceIs DEF LetIn, GoesOn, Others, Clients
    <3> QED
      BY <3>3, <3>4, <3>5 DEF LetIn
  <2> QED
    BY <1>17, <2>1, <2>2, <2>3, NonceIs, SoundSteps DEF GoesOn
<1>18. ASSUME NEW c \in Clients, DockerAsks(c) PROVE SoundInv'
  <2>1. UNCHANGED LetsIn
    BY <1>18, Zenon DEF DockerAsks, LetsIn, accountVars, wiring
  <2>2. ASSUME GoesOn(c, "asked"), nonce' = nonce, pulls'[c].token = regAuth.token, pulls'[c].script = pulls[c].script,
               pulls'[c].env = pulls[c].env, Helped(c), pulls[c].at = "docker"
        PROVE  SoundInv'
    <3>1. ASSUME pulls'[c].sound PROVE LetIn(c)'
      <4>1. LetIn(c)
        BY <2>2, <3>1 DEF GoesOn, SoundInv, Pulling
      <4>2. Ready(c, pulls[c].ref)'
        BY <2>1, <2>2, <4>1, ReadyStays DEF LetIn, GoesOn
      <4>3. regAuth.token \in honoured /\ honoured' = honoured
        BY <2>1, <2>2, <4>1 DEF LetIn, Ready, HelperAnswers, Helped, LetsIn
      <4>4. \A s \in PullScripts \ {c} : ~pulls'[s].script
        BY <2>2, <4>1 DEF LetIn, GoesOn, Others, Clients
      <4> QED
        BY <2>2, <4>1, <4>2, <4>3, <4>4 DEF LetIn, GoesOn
    <3> QED
      BY <2>1, <2>2, <3>1, SoundSteps DEF GoesOn
  <2>3. ASSUME GoesOn(c, "check"), nonce' = nonce PROVE SoundInv'
    <3>1. ~Pulling(c)'
      BY <2>3 DEF GoesOn, Pulling
    <3> QED
      BY <2>1, <2>3, <3>1, SoundSteps DEF GoesOn
  <2>4. \A upshot \in {"done", "failed", "refused"} : Ended(c, upshot, TRUE) => SoundInv'
    BY <2>1, SoundEnds
  <2> QED
    BY <1>18, <2>2, <2>3, <2>4, AsksIs
<1>19. ASSUME NEW c \in Clients, BrokerAnswers(c) PROVE SoundInv'
  <2>1. UNCHANGED LetsIn
    BY <1>19, Zenon DEF BrokerAnswers, LetsIn, accountVars, wiring
  <2>3. ASSUME GoesOn(c, "check"), nonce' = nonce PROVE SoundInv'
    <3>1. ~Pulling(c)'
      BY <2>3 DEF GoesOn, Pulling
    <3> QED
      BY <2>1, <2>3, <3>1, SoundSteps DEF GoesOn
  <2>4. \A upshot \in {"done", "failed", "refused"} : Ended(c, upshot, TRUE) => SoundInv'
    BY <2>1, SoundEnds
  <2> QED
    BY <1>19, <2>3, <2>4, AnswersIs
<1>20. ASSUME NEW c \in Clients, PullFails(c) PROVE SoundInv'
  <2>1. UNCHANGED LetsIn
    BY <1>20, Zenon DEF PullFails, LetsIn, accountVars, wiring
  <2> QED
    BY <1>20, <2>1, FailsIs, SoundEnds
<1>21. ASSUME NEW c \in Clients, ChecksLock(c) PROVE SoundInv'
  <2>1. UNCHANGED LetsIn
    BY <1>21, Zenon DEF ChecksLock, LetsIn, accountVars, wiring
  <2>3. ASSUME GoesOn(c, "tag"), nonce' = nonce PROVE SoundInv'
    <3>1. ~Pulling(c)'
      BY <2>3 DEF GoesOn, Pulling
    <3> QED
      BY <2>1, <2>3, <3>1, SoundSteps DEF GoesOn
  <2>4. \A upshot \in {"done", "failed", "refused"} : Ended(c, upshot, TRUE) => SoundInv'
    BY <2>1, SoundEnds
  <2> QED
    BY <1>21, <2>3, <2>4, ChecksIs
<1>22. ASSUME NEW c \in Clients, TagsImage(c) PROVE SoundInv'
  <2>1. UNCHANGED LetsIn
    BY <1>22, Zenon DEF TagsImage, LetsIn, accountVars, wiring
  <2> QED
    BY <1>22, <2>1, TagsIs, SoundEnds
<1>23. ASSUME NEW c \in Clients, ScriptKilled(c) PROVE SoundInv'
  <2>1. UNCHANGED LetsIn
    BY <1>23, Zenon DEF ScriptKilled, LetsIn, accountVars, wiring
  <2> QED
    BY <1>23, <2>1, KillIs, SoundSteps
<1>24. CASE UNCHANGED ipVars
  BY <1>24, SoundCalm DEF ipVars, LetsIn
<1> QED
  BY <1>1, <1>2, <1>3, <1>4, <1>5, <1>6, <1>7, <1>8, <1>9, <1>10, <1>11, <1>12, <1>13, <1>14, <1>15,
     <1>16, <1>17, <1>18, <1>19, <1>20, <1>21, <1>22, <1>23, <1>24 DEF NextImagePull

LEMMA SucceedStep ==
  ASSUME SoundPullsSucceed, SoundInv, IpPullsOK, IpAccountOK, [NextImagePull]_ipVars
  PROVE  SoundPullsSucceed'
<1> USE DEF SoundPullsSucceed
<1>1. ASSUME SignsIn PROVE SoundPullsSucceed'
  BY <1>1, DisturbedIs DEF SignsIn
<1>2. ASSUME ReadsConfig PROVE SoundPullsSucceed'
  BY <1>2 DEF ReadsConfig
<1>3. ASSUME WritesHelper PROVE SoundPullsSucceed'
  BY <1>3, DisturbedIs DEF WritesHelper
<1>4. ASSUME WiresHost PROVE SoundPullsSucceed'
  BY <1>4, DisturbedIs DEF WiresHost
<1>5. ASSUME SignsOut PROVE SoundPullsSucceed'
  BY <1>5, DisturbedIs DEF SignsOut
<1>6. ASSUME RemovesHelper PROVE SoundPullsSucceed'
  BY <1>6, DisturbedIs DEF RemovesHelper
<1>7. ASSUME UnwiresHosts PROVE SoundPullsSucceed'
  BY <1>7, DisturbedIs DEF UnwiresHosts
<1>8. ASSUME EditorStops PROVE SoundPullsSucceed'
  BY <1>8 DEF EditorStops
<1>9. ASSUME DockerLogin PROVE SoundPullsSucceed'
  BY <1>9, DisturbedIs DEF DockerLogin
<1>10. ASSUME DockerLogout PROVE SoundPullsSucceed'
  BY <1>10, DisturbedIs DEF DockerLogout
<1>11. ASSUME EditConfig PROVE SoundPullsSucceed'
  BY <1>11, DisturbedIs DEF EditConfig
<1>12. ASSUME UpdateCheckout PROVE SoundPullsSucceed'
  BY <1>12 DEF UpdateCheckout
<1>13. ASSUME BuildImage PROVE SoundPullsSucceed'
  BY <1>13 DEF BuildImage
<1>14. ASSUME OptsOut PROVE SoundPullsSucceed'
  BY <1>14 DEF OptsOut
<1>15. ASSUME NonceAges PROVE SoundPullsSucceed'
  BY <1>15 DEF NonceAges
<1>16. ASSUME NEW c \in Clients, StartsPull(c) PROVE SoundPullsSucceed'
  <2>1. \A o \in Clients \ {c} : pulls'[o].at = pulls[o].at /\ (pulls'[o].sound => pulls[o].sound)
    <3>1. \A o \in Clients \ {c} : Beside(c, o)
      BY <1>16, StartsIs, Zenon
    <3> QED
      BY <3>1, Zenon DEF Beside
  <2>2. pulls'[c].at # "failed"
    BY <1>16, StartsIs DEF PullStarted, Beside
  <2> QED
    BY <2>1, <2>2
<1>17. ASSUME NEW c \in Clients, WritesNonce(c) PROVE SoundPullsSucceed'
  BY <1>17, NonceIs DEF GoesOn, Ended, Others
<1>18. ASSUME NEW c \in Clients, DockerAsks(c) PROVE SoundPullsSucceed'
  <2>1. ASSUME pulls[c].sound
        PROVE  /\ Helped(c) => FoundOnPath = "ours" /\ ServesRegistry(c) /\ RequirePullNonce(c)
               /\ Helped(c) \/ (dockerConfig.parses /\ HostOf(pulls[c].ref) \in dockerConfig.logins)
    <3>1. LetIn(c) /\ pulls[c].at = "docker"
      BY <1>18, <2>1, AsksIs DEF SoundInv, Pulling
    <3>2. c # ByHand => c \in PullScripts
      BY DEF Clients
    <3>3. regAuth.token \in honoured => regAuth.token # 0
      BY DEF IpAccountOK
    <3> QED
      BY <3>1, <3>2, <3>3 DEF LetIn, Ready, HelperAnswers, Helped, ServesRegistry, RequirePullNonce
  <2>2. ASSUME NEW upshot \in {"done", "failed"}, Ended(c, upshot, TRUE), upshot = "failed" => ~pulls[c].sound
        PROVE  SoundPullsSucceed'
    BY <2>2 DEF Ended, Others
  <2>3. ASSUME NEW stage \in {"asked", "check"}, GoesOn(c, stage) PROVE SoundPullsSucceed'
    BY <2>3 DEF GoesOn, Others
  <2> QED
    BY <1>18, <2>1, <2>2, <2>3, AsksIs
<1>19. ASSUME NEW c \in Clients, BrokerAnswers(c) PROVE SoundPullsSucceed'
  <2>1. pulls[c].sound => pulls[c].token \in honoured
    BY <1>19, AnswersIs DEF SoundInv, Pulling, LetIn
  <2>2. ASSUME NEW upshot \in {"done", "failed"}, Ended(c, upshot, TRUE), upshot = "failed" => ~pulls[c].sound
        PROVE  SoundPullsSucceed'
    BY <2>2 DEF Ended, Others
  <2>3. ASSUME NEW stage \in {"asked", "check"}, GoesOn(c, stage) PROVE SoundPullsSucceed'
    BY <2>3 DEF GoesOn, Others
  <2> QED
    BY <1>19, <2>1, <2>2, <2>3, AnswersIs
<1>20. ASSUME NEW c \in Clients, PullFails(c) PROVE SoundPullsSucceed'
  BY <1>20, FailsIs DEF GoesOn, Ended, Others
<1>21. ASSUME NEW c \in Clients, ChecksLock(c) PROVE SoundPullsSucceed'
  BY <1>21, ChecksIs DEF GoesOn, Ended, Others
<1>22. ASSUME NEW c \in Clients, TagsImage(c) PROVE SoundPullsSucceed'
  BY <1>22, TagsIs DEF GoesOn, Ended, Others
<1>23. ASSUME NEW c \in Clients, ScriptKilled(c) PROVE SoundPullsSucceed'
  BY <1>23, KillIs DEF GoesOn, Ended, Others
<1>24. CASE UNCHANGED ipVars
  BY <1>24 DEF ipVars, SoundPullsSucceed
<1> QED
  BY <1>1, <1>2, <1>3, <1>4, <1>5, <1>6, <1>7, <1>8, <1>9, <1>10, <1>11, <1>12, <1>13, <1>14, <1>15,
     <1>16, <1>17, <1>18, <1>19, <1>20, <1>21, <1>22, <1>23, <1>24 DEF NextImagePull

LEMMA SignedStep ==
  ASSUME SignedIsHonoured, [NextImagePull]_ipVars
  PROVE  SignedIsHonoured'
<1> USE DEF SignedIsHonoured
<1>1. ASSUME SignsIn PROVE SignedIsHonoured'
  <2>1. PICK h \in {"h1", PinnedHost} : regAuth' = [token |-> issued + 1, host |-> h]
    BY <1>1 DEF SignsIn
  <2> QED
    BY <1>1, <2>1 DEF SignsIn
<1>2. ASSUME ReadsConfig PROVE SignedIsHonoured'
  BY <1>2 DEF ReadsConfig, accountVars
<1>3. ASSUME WritesHelper PROVE SignedIsHonoured'
  BY <1>3 DEF WritesHelper, accountVars
<1>4. ASSUME WiresHost PROVE SignedIsHonoured'
  BY <1>4 DEF WiresHost, accountVars
<1>5. ASSUME SignsOut PROVE SignedIsHonoured'
  BY <1>5 DEF SignsOut, accountVars
<1>6. ASSUME RemovesHelper PROVE SignedIsHonoured'
  BY <1>6 DEF RemovesHelper, accountVars
<1>7. ASSUME UnwiresHosts PROVE SignedIsHonoured'
  BY <1>7 DEF UnwiresHosts, accountVars
<1>8. ASSUME EditorStops PROVE SignedIsHonoured'
  BY <1>8 DEF EditorStops, accountVars
<1>9. ASSUME DockerLogin PROVE SignedIsHonoured'
  BY <1>9 DEF DockerLogin, accountVars
<1>10. ASSUME DockerLogout PROVE SignedIsHonoured'
  BY <1>10 DEF DockerLogout, accountVars
<1>11. ASSUME EditConfig PROVE SignedIsHonoured'
  BY <1>11 DEF EditConfig, accountVars
<1>12. ASSUME UpdateCheckout PROVE SignedIsHonoured'
  BY <1>12 DEF UpdateCheckout, accountVars
<1>13. ASSUME BuildImage PROVE SignedIsHonoured'
  BY <1>13 DEF BuildImage, accountVars
<1>14. ASSUME OptsOut PROVE SignedIsHonoured'
  BY <1>14 DEF OptsOut, accountVars
<1>15. ASSUME NonceAges PROVE SignedIsHonoured'
  BY <1>15 DEF NonceAges, accountVars
<1>16. ASSUME NEW c \in Clients, StartsPull(c) PROVE SignedIsHonoured'
  BY <1>16 DEF StartsPull, accountVars
<1>17. ASSUME NEW c \in Clients, WritesNonce(c) PROVE SignedIsHonoured'
  BY <1>17 DEF WritesNonce, accountVars
<1>18. ASSUME NEW c \in Clients, DockerAsks(c) PROVE SignedIsHonoured'
  BY <1>18 DEF DockerAsks, accountVars
<1>19. ASSUME NEW c \in Clients, BrokerAnswers(c) PROVE SignedIsHonoured'
  BY <1>19 DEF BrokerAnswers, accountVars
<1>20. ASSUME NEW c \in Clients, PullFails(c) PROVE SignedIsHonoured'
  BY <1>20 DEF PullFails, accountVars
<1>21. ASSUME NEW c \in Clients, ChecksLock(c) PROVE SignedIsHonoured'
  BY <1>21 DEF ChecksLock, accountVars
<1>22. ASSUME NEW c \in Clients, TagsImage(c) PROVE SignedIsHonoured'
  BY <1>22 DEF TagsImage, accountVars
<1>23. ASSUME NEW c \in Clients, ScriptKilled(c) PROVE SignedIsHonoured'
  BY <1>23 DEF ScriptKilled, accountVars
<1>24. CASE UNCHANGED ipVars
  BY <1>24 DEF ipVars, SignedIsHonoured
<1> QED
  BY <1>1, <1>2, <1>3, <1>4, <1>5, <1>6, <1>7, <1>8, <1>9, <1>10, <1>11, <1>12, <1>13, <1>14, <1>15,
     <1>16, <1>17, <1>18, <1>19, <1>20, <1>21, <1>22, <1>23, <1>24 DEF NextImagePull

LEMMA LoginsStep ==
  ASSUME LoginsInv, IpEditorOK, IpDockerOK, [NextImagePull]_ipVars
  PROVE  LoginsInv'
<1> USE DEF LoginsInv, LoginsKept, SeenLogins
<1>1. ASSUME SignsIn PROVE LoginsInv'
  BY <1>1 DEF SignsIn, AtRest, IpEditorOK, IpDockerOK, Configs
<1>2. ASSUME ReadsConfig PROVE LoginsInv'
  BY <1>2 DEF ReadsConfig, AtRest, IpEditorOK
<1>3. ASSUME WritesHelper PROVE LoginsInv'
  BY <1>3 DEF WritesHelper, AtRest, IpEditorOK, IpDockerOK, Configs
<1>4. ASSUME WiresHost PROVE LoginsInv'
  <2>1. editor.seen \in Configs /\ editor.at = "wire"
    BY <1>4 DEF WiresHost, IpEditorOK
  <2>2. dockerConfig'.logins = dockerConfig.logins \/ dockerConfig'.logins = editor.seen.logins
    BY <1>4, <2>1 DEF WiresHost, Configs
  <2>3. editor'.at = "idle"
    BY <1>4 DEF WiresHost, AtRest
  <2>4. UNCHANGED <<wanted, raced>>
    BY <1>4 DEF WiresHost
  <2> QED
    BY <2>1, <2>2, <2>3, <2>4
<1>5. ASSUME SignsOut PROVE LoginsInv'
  BY <1>5 DEF SignsOut, AtRest, IpEditorOK, IpDockerOK, Configs
<1>6. ASSUME RemovesHelper PROVE LoginsInv'
  BY <1>6 DEF RemovesHelper, AtRest, IpEditorOK, IpDockerOK, Configs
<1>7. ASSUME UnwiresHosts PROVE LoginsInv'
  BY <1>7 DEF UnwiresHosts, AtRest, IpDockerOK, Configs
<1>8. ASSUME EditorStops PROVE LoginsInv'
  BY <1>8 DEF EditorStops, AtRest
<1>9. ASSUME DockerLogin PROVE LoginsInv'
  BY <1>9 DEF DockerLogin, Touches, IpDockerOK, Configs
<1>10. ASSUME DockerLogout PROVE LoginsInv'
  BY <1>10 DEF DockerLogout, Touches, IpDockerOK, Configs
<1>11. ASSUME EditConfig PROVE LoginsInv'
  BY <1>11 DEF EditConfig, AtRest, IpEditorOK, IpDockerOK, Configs
<1>12. ASSUME UpdateCheckout PROVE LoginsInv'
  BY <1>12 DEF UpdateCheckout, wiring
<1>13. ASSUME BuildImage PROVE LoginsInv'
  BY <1>13 DEF BuildImage, wiring
<1>14. ASSUME OptsOut PROVE LoginsInv'
  BY <1>14 DEF OptsOut, wiring
<1>15. ASSUME NonceAges PROVE LoginsInv'
  BY <1>15 DEF NonceAges, wiring
<1>16. ASSUME NEW c \in Clients, StartsPull(c) PROVE LoginsInv'
  BY <1>16 DEF StartsPull, wiring
<1>17. ASSUME NEW c \in Clients, WritesNonce(c) PROVE LoginsInv'
  BY <1>17 DEF WritesNonce, wiring
<1>18. ASSUME NEW c \in Clients, DockerAsks(c) PROVE LoginsInv'
  BY <1>18 DEF DockerAsks, wiring
<1>19. ASSUME NEW c \in Clients, BrokerAnswers(c) PROVE LoginsInv'
  BY <1>19 DEF BrokerAnswers, wiring
<1>20. ASSUME NEW c \in Clients, PullFails(c) PROVE LoginsInv'
  BY <1>20 DEF PullFails, wiring
<1>21. ASSUME NEW c \in Clients, ChecksLock(c) PROVE LoginsInv'
  BY <1>21 DEF ChecksLock, wiring
<1>22. ASSUME NEW c \in Clients, TagsImage(c) PROVE LoginsInv'
  BY <1>22 DEF TagsImage, wiring
<1>23. ASSUME NEW c \in Clients, ScriptKilled(c) PROVE LoginsInv'
  BY <1>23 DEF ScriptKilled, wiring
<1>24. CASE UNCHANGED ipVars
  BY <1>24 DEF ipVars, LoginsInv
<1> QED
  BY <1>1, <1>2, <1>3, <1>4, <1>5, <1>6, <1>7, <1>8, <1>9, <1>10, <1>11, <1>12, <1>13, <1>14, <1>15,
     <1>16, <1>17, <1>18, <1>19, <1>20, <1>21, <1>22, <1>23, <1>24 DEF NextImagePull

LEMMA IpFaultSpends == ASSUME IpTriesOK, IpFault PROVE HelperFirst'
BY ImagePullAssumption DEF IpTriesOK, IpFault, IpSpent, HelperFirst

LEMMA HelperStep ==
  ASSUME HelperFirst, IpEditorOK, IpDockerOK, IpTriesOK, IpAccountOK, [NextImagePull]_ipVars
  PROVE  HelperFirst'
<1> USE DEF HelperFirst
<1>1. ASSUME SignsIn PROVE HelperFirst'
  BY <1>1 DEF SignsIn, FoundOnPath, IpSpent, IpCommand, AtRest
<1>2. ASSUME ReadsConfig PROVE HelperFirst'
  BY <1>2 DEF ReadsConfig, FoundOnPath, IpSpent, IpCalm, AtRest, IpEditorOK
<1>3. ASSUME WritesHelper PROVE HelperFirst'
  BY <1>3 DEF WritesHelper, FoundOnPath, IpSpent, IpCalm, IpDockerOK, IpEditorOK, Dirs
<1>4. ASSUME WiresHost PROVE HelperFirst'
  BY <1>4 DEF WiresHost, FoundOnPath, IpSpent, IpCalm, IpEditorOK, Configs, AtRest
<1>5. ASSUME SignsOut PROVE HelperFirst'
  BY <1>5 DEF SignsOut, FoundOnPath, IpSpent, IpCommand, AtRest
<1>6. ASSUME RemovesHelper PROVE HelperFirst'
  BY <1>6, IpFaultSpends DEF RemovesHelper, IpSpent, IpCommand, IpCalm, IpEditorOK
<1>7. ASSUME UnwiresHosts PROVE HelperFirst'
  BY <1>7 DEF UnwiresHosts, FoundOnPath, IpSpent, IpCalm, IpDockerOK, Configs, AtRest
<1>8. ASSUME EditorStops PROVE HelperFirst'
  BY <1>8, IpFaultSpends DEF EditorStops
<1>9. ASSUME DockerLogin PROVE HelperFirst'
  BY <1>9 DEF DockerLogin, FoundOnPath, IpSpent, IpCommand, IpDockerOK, Configs
<1>10. ASSUME DockerLogout PROVE HelperFirst'
  BY <1>10 DEF DockerLogout, FoundOnPath, IpSpent, IpCommand, IpDockerOK, Configs
<1>11. ASSUME EditConfig PROVE HelperFirst'
  BY <1>11, IpFaultSpends DEF EditConfig, FoundOnPath, IpSpent, IpCommand, IpDockerOK, Configs
<1>12. ASSUME UpdateCheckout PROVE HelperFirst'
  BY <1>12 DEF UpdateCheckout, wiring, FoundOnPath, IpSpent, IpCommand, IpCalm
<1>13. ASSUME BuildImage PROVE HelperFirst'
  BY <1>13 DEF BuildImage, wiring, FoundOnPath, IpSpent, IpCommand, IpCalm
<1>14. ASSUME OptsOut PROVE HelperFirst'
  BY <1>14 DEF OptsOut, wiring, FoundOnPath, IpSpent, IpCommand, IpCalm
<1>15. ASSUME NonceAges PROVE HelperFirst'
  BY <1>15 DEF NonceAges, wiring, FoundOnPath, IpSpent, IpCommand, IpCalm
<1>16. ASSUME NEW c \in Clients, StartsPull(c) PROVE HelperFirst'
  BY <1>16 DEF StartsPull, wiring, FoundOnPath, IpSpent, IpCommand, IpCalm
<1>17. ASSUME NEW c \in Clients, WritesNonce(c) PROVE HelperFirst'
  BY <1>17, IpFaultSpends DEF WritesNonce, wiring, FoundOnPath, IpSpent, IpCalm
<1>18. ASSUME NEW c \in Clients, DockerAsks(c) PROVE HelperFirst'
  BY <1>18 DEF DockerAsks, wiring, FoundOnPath, IpSpent, IpCommand, IpCalm
<1>19. ASSUME NEW c \in Clients, BrokerAnswers(c) PROVE HelperFirst'
  BY <1>19 DEF BrokerAnswers, wiring, FoundOnPath, IpSpent, IpCommand, IpCalm
<1>20. ASSUME NEW c \in Clients, PullFails(c) PROVE HelperFirst'
  BY <1>20, IpFaultSpends DEF PullFails
<1>21. ASSUME NEW c \in Clients, ChecksLock(c) PROVE HelperFirst'
  BY <1>21 DEF ChecksLock, wiring, FoundOnPath, IpSpent, IpCommand, IpCalm
<1>22. ASSUME NEW c \in Clients, TagsImage(c) PROVE HelperFirst'
  BY <1>22 DEF TagsImage, wiring, FoundOnPath, IpSpent, IpCommand, IpCalm
<1>23. ASSUME NEW c \in Clients, ScriptKilled(c) PROVE HelperFirst'
  BY <1>23, IpFaultSpends DEF ScriptKilled
<1>24. CASE UNCHANGED ipVars
  BY <1>24 DEF ipVars, HelperFirst, FoundOnPath, IpSpent
<1> QED
  BY <1>1, <1>2, <1>3, <1>4, <1>5, <1>6, <1>7, <1>8, <1>9, <1>10, <1>11, <1>12, <1>13, <1>14, <1>15,
     <1>16, <1>17, <1>18, <1>19, <1>20, <1>21, <1>22, <1>23, <1>24 DEF NextImagePull

LEMMA IpStarts == InitImagePull => IpInv
<1> SUFFICES ASSUME InitImagePull PROVE IpInv
  OBVIOUS
<1> USE DEF InitImagePull
<1>1. \A c \in Clients : pulls[c] = NoPull
  OBVIOUS
<1>2. NoPull \in PullRecords /\ NoPull.at = "idle" /\ ~NoPull.env /\ ~NoPull.script /\ NoPull.token = 0
  BY DEF NoPull, PullRecords, PullSteps
<1>3. IpPullsOK /\ ByHand \in Clients
  BY <1>2 DEF IpPullsOK, Clients
<1>4. IpTokensOK /\ RefsRead /\ SoundPullsSucceed
  BY <1>1, <1>2 DEF IpTokensOK, RefsRead, SoundPullsSucceed
<1>5. SoundInv
  BY <1>1, <1>2 DEF SoundInv, Pulling
<1>6. HandsOff
  BY <1>1, <1>2, <1>3 DEF HandsOff, NothingByHand
<1>7. IpAccountOK /\ IpImagesOK
  <2>1. regAuth \in [token : 0 .. issued, host : Hosts \cup {"none"}]
    BY DEF Hosts
  <2>2. localTag \in [ref : Refs \cup {"none", "built", "layered"}, lock : 0 .. 2]
    OBVIOUS
  <2>3. checkout \in 1 .. 2 /\ intent \in {"local", "hardened"} /\ signed \in BOOLEAN
    <3>1. checkout = 1 /\ intent = "local" /\ signed = FALSE
      BY Zenon
    <3> HIDE DEF InitImagePull
    <3>2. 1 \in 1 .. 2
      OBVIOUS
    <3> QED
      BY <3>1, <3>2, Zenon
  <2>4. issued \in Nat /\ honoured \subseteq 1 .. issued /\ store \subseteq Refs /\ handed \subseteq Clients
    OBVIOUS
  <2> QED
    BY <2>1, <2>2, <2>3, <2>4, Zenon DEF IpAccountOK, IpImagesOK
<1>8. IpDockerOK
  BY DEF IpDockerOK, Configs, Dirs
<1>9. IpEditorOK
  BY DEF IpEditorOK, Configs, AtRest, Unread, EditorSteps
<1>10. IpNonceOK
  BY NonceTypes, Zenon DEF IpNonceOK
<1>11. IpTriesOK
  BY ImagePullAssumption DEF IpTriesOK
<1>12. SignedIsHonoured /\ LoginsInv
  BY DEF SignedIsHonoured, LoginsInv, LoginsKept, SeenLogins, AtRest
<1>13. HelperFirst
  BY DEF HelperFirst, AtRest
<1> QED
  BY <1>3, <1>4, <1>5, <1>6, <1>7, <1>8, <1>9, <1>10, <1>11, <1>12, <1>13 DEF IpInv

LEMMA IpStep == IpInv /\ [NextImagePull]_ipVars => IpInv'
<1> SUFFICES ASSUME IpInv, [NextImagePull]_ipVars PROVE IpInv'
  OBVIOUS
<1>1. /\ IpAccountOK /\ IpDockerOK /\ IpEditorOK /\ IpNonceOK /\ IpPullsOK /\ IpTokensOK /\ IpImagesOK /\ IpTriesOK
      /\ RefsRead /\ HandsOff /\ SoundInv /\ SoundPullsSucceed /\ SignedIsHonoured /\ LoginsInv /\ HelperFirst
  BY DEF IpInv
<1>2. /\ IpAccountOK' /\ IpDockerOK' /\ IpEditorOK' /\ IpNonceOK' /\ IpPullsOK' /\ IpTokensOK' /\ IpImagesOK'
      /\ IpTriesOK'
  BY <1>1, IpAccountStep, IpDockerStep, IpEditorStep, IpNonceStep, IpPullsStep, IpTokensStep,
     IpImagesStep, IpTriesStep
<1>3. /\ RefsRead' /\ HandsOff' /\ SoundInv' /\ SoundPullsSucceed' /\ SignedIsHonoured' /\ LoginsInv' /\ HelperFirst'
  BY <1>1, RefsStep, HandsStep, SoundStep, SucceedStep, SignedStep, LoginsStep, HelperStep
<1> QED
  BY <1>2, <1>3 DEF IpInv

\* What the invariant says of the properties.
LEMMA IpInvTypes == IpInv => IpTypeOK
<1> SUFFICES ASSUME IpInv PROVE IpTypeOK
  OBVIOUS
<1>1. /\ checkout \in 1 .. 2 /\ intent \in {"local", "hardened"} /\ signed \in BOOLEAN
      /\ regAuth.token \in 0 .. issued /\ honoured \subseteq 1 .. issued
  BY DEF IpInv, IpAccountOK
<1>2. /\ helperIn \in [Dirs -> {"none", "ours", "foreign"}] /\ dockerConfig.parses \in BOOLEAN
      /\ UNION {dockerConfig.wired, dockerConfig.logins, wanted, raced} \subseteq Hosts
  BY DEF IpInv, IpDockerOK, Configs
<1>3. /\ editor.at \in {"idle", "read", "binary", "wire", "remove", "unwire"}
      /\ nonce.owner \in PullScripts \cup {"none"} /\ nonce.old \in BOOLEAN
  BY DEF IpInv, IpEditorOK, EditorSteps, IpNonceOK
<1>4. \A c \in Clients : pulls[c].at \in PullSteps /\ pulls[c].token \in 0 .. issued
  BY DEF IpInv, IpPullsOK, PullRecords, IpTokensOK
<1>5. /\ store \subseteq Refs /\ localTag.ref \in Refs \cup {"none", "built", "layered"} /\ handed \subseteq Clients
      /\ ipCommands \in 0 .. MaxIpCommands /\ ipFaults \in 0 .. MaxIpFaults
  BY DEF IpInv, IpImagesOK, IpTriesOK
<1> QED
  BY <1>1, <1>2, <1>3, <1>4, <1>5 DEF IpTypeOK

LEMMA IpInvIsSafe == IpInv => PullSafety
<1> SUFFICES ASSUME IpInv PROVE PullSafety
  OBVIOUS
<1>1. SoundPullsSucceed /\ NothingByHand /\ LoginsKept
  BY DEF IpInv, HandsOff, LoginsInv
<1>2. StatusTells
  <2> SUFFICES ASSUME StatusIsSilent, regAuth.host = PinnedHost, \A d \in Dirs : helperIn[d] # "foreign",
                      NEW s \in PullScripts
               PROVE  Ready(s, Pin)
    BY DEF StatusTells
  <2>1. dockerConfig.parses /\ HostOf(Pin) \in dockerConfig.wired /\ s # ByHand
    BY ImagePullAssumption DEF StatusIsSilent, PinnedHost
  <2>2. FoundOnPath = "ours"
    BY DEF StatusIsSilent, IsOurs, FoundOnPath, Dirs, IpInv, IpDockerOK
  <2>3. regAuth.token \in honoured /\ regAuth.host = HostOf(Pin)
    BY DEF StatusIsSilent, IpInv, SignedIsHonoured, PinnedHost
  <2> QED
    BY <2>1, <2>2, <2>3 DEF Ready, HelperAnswers
<1>3. HostsHaveHelper
  BY DEF IpInv, HelperFirst, HostsHaveHelper
<1> QED
  BY <1>1, <1>2, <1>3 DEF PullSafety

\* The inductive invariant of the pull of the image.
THEOREM PullInvariant == ImagePullSpec => []IpInv
BY IpStarts, IpStep, PTL DEF ImagePullSpec

\* A pull that can be let in is, a status that has nothing to say tells the
\* truth, nobody's login is lost, docker is not sent to a helper that is gone,
\* and nobody but a script is handed a credential.
THEOREM PullIsSafe == ImagePullSpec => []PullSafety
BY PullInvariant, IpInvIsSafe, PTL

-----------------------------------------------------------------------------
(* The setup wizard, for any runs and failures.                              *)

\* What each variable is, in parts.
PlaceOK == wzStep \in WizSteps \cup {"idle"} /\ skip \subseteq Names /\ done \subseteq Names
           /\ agentProvider \in {"", "claude", "codex"}
EnvOK == env \in [sg : BOOLEAN, picked : {"", "codex"}, template : BOOLEAN, agent : BOOLEAN]
FileOK == file \in [source : {"undecided", "local", "hardened"}, default : {"", "claude", "codex"},
                    template : BOOLEAN, gateway : BOOLEAN]
MachineOK ==
  /\ sandbox \in [from : {"none", "local", "hardened"}, runs : SUBSET {"claude", "codex"}]
  /\ payload \in BOOLEAN /\ vault \subseteq {"claude", "codex"}
  /\ host \in [up : BOOLEAN, default : {"claude", "codex"}]
AgentsOK == groups \in [Agents -> [provider : {"", "claude", "codex"}, wired : BOOLEAN]]
WzNotesOK == due \in BOOLEAN /\ unbuilt \in BOOLEAN /\ warned \in BOOLEAN /\ bypassed \in BOOLEAN
WzTriesOK == /\ ending \in {"", "ready", "almost"}
           /\ wzRuns \in 0 .. MaxWzRuns /\ wzFaults \in 0 .. MaxWzFaults

\* Once this process has looked at the template, one that is due is in its
\* environment, and where a channel is connected it has its agent or a warning.
PickInv ==
  /\ PickKept /\ NotBypassed
  /\ due /\ wzStep \notin {"idle", "environment", "template"} => env.template
  /\ due /\ wzStep = "channel" => env.agent \/ warned

\* A provider on its way to be the default: installed, built, signed in.
ProviderInv ==
  /\ DefaultCanRun
  /\ file.default = "codex" => file.source # "hardened"
  /\ wzStep \in {"install", "rebuild"} => agentProvider = "codex"
  /\ wzStep \in {"signin", "default"} => agentProvider \in {"claude", "codex"}
  /\ wzStep \in {"install", "rebuild", "signin", "default"} /\ agentProvider = "codex" => file.source # "hardened"
  /\ wzStep = "rebuild" => payload
  /\ wzStep \in {"signin", "default"} /\ agentProvider = "codex" =>
       payload /\ ("codex" \in sandbox.runs \/ unbuilt)
  /\ wzStep = "default" /\ agentProvider = "codex" => "codex" \in vault

WzInv == PlaceOK /\ EnvOK /\ FileOK /\ MachineOK /\ AgentsOK /\ WzNotesOK /\ WzTriesOK /\ PickInv /\ ProviderInv

LEMMA WzInvTypes == WzInv => WzTypeOK
BY DEF WzInv, PlaceOK, EnvOK, FileOK, MachineOK, AgentsOK, WzNotesOK, WzTriesOK, WzTypeOK

LEMMA WzInvIsSafe == WzInv => WizardSafety
BY DEF WzInv, PickInv, ProviderInv, WizardSafety

LEMMA AfterIs == After("environment") = "template" /\ After("mounts") = "service" /\ After("timezone") = "stamp"
BY DEF After, Sequence

LEMMA WizStepsAre ==
  WizSteps = {"environment", "template", "source", "container", "onecli", "provider", "install",
              "rebuild", "signin", "default", "mounts", "service", "cli-agent", "ping", "chat",
              "timezone", "stamp", "channel", "verify"}
BY DEF WizSteps, Sequence

LEMMA WizardNat == MaxWzRuns \in Nat /\ MaxWzFaults \in Nat
BY WizardAssumption

\* What a build or a pull leaves can run the other provider, if it was built
\* with its payload.
LEMMA AcquiredIs ==
  /\ Acquired \in [from : {"none", "local", "hardened"}, runs : SUBSET {"claude", "codex"}]
  /\ file.source # "hardened" /\ payload => "codex" \in Acquired.runs
<1>1. CASE file.source = "hardened"
  BY <1>1 DEF Acquired
<1>2. CASE file.source # "hardened" /\ payload
  BY <1>2 DEF Acquired
<1>3. CASE file.source # "hardened" /\ ~payload
  BY <1>3 DEF Acquired
<1> QED
  BY <1>1, <1>2, <1>3

Providers == {"", "claude", "codex"}
LEMMA DefaultIs ==
  /\ FileOK => Default \in {"claude", "codex"}
  /\ FileOK /\ EnvOK /\ AgentsOK => \A a \in Agents : Made(a) \in {"claude", "codex"}
<1>1. FileOK => Default \in {"claude", "codex"}
  BY DEF FileOK, Default
<1>2. ASSUME FileOK, EnvOK, AgentsOK, NEW a \in Agents PROVE Made(a) \in {"claude", "codex"}
  <2>1. groups[a].provider \in {"", "claude", "codex"} /\ env.picked \in {"", "codex"}
    BY <1>2 DEF AgentsOK, EnvOK
  <2> QED
    BY <1>1, <1>2, <2>1 DEF Made
<1> QED
  BY <1>1, <1>2

LEMMA WiredIs ==
  ASSUME FileOK, EnvOK, AgentsOK, NEW a \in Agents
  PROVE  Wired(a) \in [Agents -> [provider : {"", "claude", "codex"}, wired : BOOLEAN]]
<1> DEFINE p == Made(a)
<1>1. p \in {"claude", "codex"}
  BY DefaultIs
<1> HIDE DEF p
<1>2. [provider |-> p, wired |-> TRUE] \in [provider : {"", "claude", "codex"}, wired : BOOLEAN]
  BY <1>1
<1>3. Wired(a) = [groups EXCEPT ![a] = [provider |-> p, wired |-> TRUE]]
  BY DEF Wired, p
<1> QED
  BY <1>2, <1>3 DEF AgentsOK

LEMMA AgentSet ==
  ASSUME AgentsOK, NEW a \in Agents, NEW p \in Providers, NEW w \in BOOLEAN
  PROVE  /\ [groups EXCEPT ![a] = [provider |-> p, wired |-> w]] \in [Agents -> [provider : {"", "claude", "codex"}, wired : BOOLEAN]]
         /\ [groups EXCEPT ![a].provider = p] \in [Agents -> [provider : {"", "claude", "codex"}, wired : BOOLEAN]]
<1>1. [provider |-> p, wired |-> w] \in [provider : Providers, wired : BOOLEAN]
  OBVIOUS
<1>2. [groups[a] EXCEPT !.provider = p] \in [provider : Providers, wired : BOOLEAN]
  BY DEF AgentsOK, Providers
<1> HIDE DEF Providers
<1> QED
  BY <1>1, <1>2 DEF AgentsOK, Providers

LEMMA PlaceStep ==
  ASSUME PlaceOK, [NextWizard]_wizVars
  PROVE  PlaceOK'
<1> USE DEF PlaceOK, Names
<1>1. ASSUME StartWizard PROVE PlaceOK'
  BY <1>1, WizStepsAre DEF StartWizard, worldVars, wzHistory, On
<1>2. ASSUME Cancelled PROVE PlaceOK'
  BY <1>2, WizStepsAre DEF Cancelled, worldVars, wzHistory
<1>3. ASSUME CheckEnvironment PROVE PlaceOK'
  BY <1>3, AfterIs, WizStepsAre DEF CheckEnvironment, worldVars, wzHistory, Quiet, On, Goto, Logged,
     Works, StepFails, Restarts
<1>4. ASSUME TemplateSetup PROVE PlaceOK'
  BY <1>4, WizStepsAre DEF TemplateSetup, worldVars, wzHistory, On, Goto, ApplyPick, ClearPick, Bridged
<1>5. ASSUME ChooseSource PROVE PlaceOK'
  BY <1>5, WizStepsAre DEF ChooseSource, worldVars, wzHistory, On, Goto
<1>6. ASSUME AcquireSandbox PROVE PlaceOK'
  BY <1>6, WizStepsAre DEF AcquireSandbox, worldVars, wzHistory, On, Goto, Logged, Works, StepFails,
     Restarts
<1>7. ASSUME ConnectVault PROVE PlaceOK'
  BY <1>7, WizStepsAre DEF ConnectVault, worldVars, wzHistory, On, Goto, Logged, Works, StepFails,
     Restarts
<1>8. ASSUME PickProvider PROVE PlaceOK'
  BY <1>8, WizStepsAre DEF PickProvider, worldVars, wzHistory, On, Goto, Works, StepFails, Restarts
<1>9. ASSUME InstallProvider PROVE PlaceOK'
  BY <1>9, WizStepsAre DEF InstallProvider, worldVars, wzHistory, On, Goto, Works, StepFails, Restarts
<1>10. ASSUME Rebuild PROVE PlaceOK'
  BY <1>10, WizStepsAre DEF Rebuild, worldVars, wzHistory, On, Goto, Works, StepFails, Restarts
<1>11. ASSUME Authenticate PROVE PlaceOK'
  BY <1>11, WizStepsAre DEF Authenticate, worldVars, wzHistory, On, Goto, Works, Logged, StepFails,
     Restarts
<1>12. ASSUME PersistDefault PROVE PlaceOK'
  BY <1>12, WizStepsAre DEF PersistDefault, worldVars, wzHistory, On, Goto
<1>13. ASSUME SetMounts PROVE PlaceOK'
  BY <1>13, AfterIs, WizStepsAre DEF SetMounts, worldVars, wzHistory, Quiet, On, Goto, Logged,
     Works, StepFails, Restarts
<1>14. ASSUME StartService PROVE PlaceOK'
  BY <1>14, WizStepsAre DEF StartService, worldVars, wzHistory, On, Goto, Works, Logged, StepFails,
     Restarts, Serves
<1>15. ASSUME MakeTestAgent PROVE PlaceOK'
  BY <1>15, WizStepsAre DEF MakeTestAgent, worldVars, wzHistory, On, Goto, Works, Logged, StepFails,
     Restarts
<1>16. ASSUME Ping PROVE PlaceOK'
  BY <1>16, WizStepsAre DEF Ping, worldVars, wzHistory, On, Goto
<1>17. ASSUME Chat PROVE PlaceOK'
  BY <1>17, WizStepsAre DEF Chat, worldVars, wzHistory, On, Goto, Works, StepFails, Restarts
<1>18. ASSUME SetTimezone PROVE PlaceOK'
  BY <1>18, AfterIs, WizStepsAre DEF SetTimezone, worldVars, wzHistory, Quiet, On, Goto, Logged,
     Works, StepFails, Restarts
<1>19. ASSUME StampFirst PROVE PlaceOK'
  BY <1>19, WizStepsAre DEF StampFirst, worldVars, wzHistory, On, Goto
<1>20. ASSUME ConnectChannel PROVE PlaceOK'
  BY <1>20, WizStepsAre DEF ConnectChannel, worldVars, wzHistory, On, Goto, Works, StepFails,
     Restarts, ClearPick
<1>21. ASSUME Verify PROVE PlaceOK'
  BY <1>21, WizStepsAre DEF Verify, worldVars, wzHistory, On
<1>22. CASE UNCHANGED wizVars
  BY <1>22 DEF wizVars, worldVars, wzHistory, PlaceOK
<1> QED
  BY <1>1, <1>2, <1>3, <1>4, <1>5, <1>6, <1>7, <1>8, <1>9, <1>10, <1>11, <1>12, <1>13, <1>14, <1>15,
     <1>16, <1>17, <1>18, <1>19, <1>20, <1>21, <1>22 DEF NextWizard

LEMMA EnvStep ==
  ASSUME EnvOK, FileOK, [NextWizard]_wizVars
  PROVE  EnvOK'
<1> USE DEF EnvOK, FileOK
<1>1. ASSUME StartWizard PROVE EnvOK'
  BY <1>1, WizStepsAre DEF StartWizard, worldVars, wzHistory, On, NoEnv
<1>2. ASSUME Cancelled PROVE EnvOK'
  BY <1>2, WizStepsAre DEF Cancelled, worldVars, wzHistory
<1>3. ASSUME CheckEnvironment PROVE EnvOK'
  BY <1>3, AfterIs, WizStepsAre DEF CheckEnvironment, worldVars, wzHistory, Quiet, On, Goto, Logged,
     Works, StepFails, Restarts
<1>4. ASSUME TemplateSetup PROVE EnvOK'
  <2>1. PICK b \in BOOLEAN : env' = [env EXCEPT !.template = b]
    <3>1. env.template \in BOOLEAN /\ file.template \in BOOLEAN
      OBVIOUS
    <3> HIDE DEF EnvOK, FileOK
    <3>2. Bridged \in BOOLEAN
      BY <3>1 DEF Bridged
    <3> QED
      BY <1>4, <3>2, Zenon DEF TemplateSetup, ApplyPick, ClearPick
  <2> QED
    BY <2>1
<1>5. ASSUME ChooseSource PROVE EnvOK'
  BY <1>5, WizStepsAre DEF ChooseSource, worldVars, wzHistory, On, Goto
<1>6. ASSUME AcquireSandbox PROVE EnvOK'
  BY <1>6, WizStepsAre DEF AcquireSandbox, worldVars, wzHistory, On, Goto, Logged, Works, StepFails,
     Restarts
<1>7. ASSUME ConnectVault PROVE EnvOK'
  BY <1>7, WizStepsAre DEF ConnectVault, worldVars, wzHistory, On, Goto, Logged, Works, StepFails,
     Restarts
<1>8. ASSUME PickProvider PROVE EnvOK'
  BY <1>8, WizStepsAre DEF PickProvider, worldVars, wzHistory, On, Goto, Works, StepFails, Restarts
<1>9. ASSUME InstallProvider PROVE EnvOK'
  BY <1>9, WizStepsAre DEF InstallProvider, worldVars, wzHistory, On, Goto, Works, StepFails, Restarts
<1>10. ASSUME Rebuild PROVE EnvOK'
  BY <1>10, WizStepsAre DEF Rebuild, worldVars, wzHistory, On, Goto, Works, StepFails, Restarts
<1>11. ASSUME Authenticate PROVE EnvOK'
  BY <1>11, WizStepsAre DEF Authenticate, worldVars, wzHistory, On, Goto, Works, Logged, StepFails,
     Restarts
<1>12. ASSUME PersistDefault PROVE EnvOK'
  BY <1>12, WizStepsAre DEF PersistDefault, worldVars, wzHistory, On, Goto
<1>13. ASSUME SetMounts PROVE EnvOK'
  BY <1>13, AfterIs, WizStepsAre DEF SetMounts, worldVars, wzHistory, Quiet, On, Goto, Logged,
     Works, StepFails, Restarts
<1>14. ASSUME StartService PROVE EnvOK'
  BY <1>14, WizStepsAre DEF StartService, worldVars, wzHistory, On, Goto, Works, Logged, StepFails,
     Restarts, Serves
<1>15. ASSUME MakeTestAgent PROVE EnvOK'
  BY <1>15, WizStepsAre DEF MakeTestAgent, worldVars, wzHistory, On, Goto, Works, Logged, StepFails,
     Restarts
<1>16. ASSUME Ping PROVE EnvOK'
  BY <1>16, WizStepsAre DEF Ping, worldVars, wzHistory, On, Goto
<1>17. ASSUME Chat PROVE EnvOK'
  BY <1>17, WizStepsAre DEF Chat, worldVars, wzHistory, On, Goto, Works, StepFails, Restarts
<1>18. ASSUME SetTimezone PROVE EnvOK'
  BY <1>18, AfterIs, WizStepsAre DEF SetTimezone, worldVars, wzHistory, Quiet, On, Goto, Logged,
     Works, StepFails, Restarts
<1>19. ASSUME StampFirst PROVE EnvOK'
  BY <1>19, WizStepsAre DEF StampFirst, worldVars, wzHistory, On, Goto
<1>20. ASSUME ConnectChannel PROVE EnvOK'
  <2>1. env' = env \/ env' = [env EXCEPT !.template = FALSE]
    <3> HIDE DEF EnvOK, FileOK
    <3> QED
      BY <1>20 DEF ConnectChannel, ClearPick
  <2> QED
    BY <2>1
<1>21. ASSUME Verify PROVE EnvOK'
  BY <1>21, WizStepsAre DEF Verify, worldVars, wzHistory, On
<1>22. CASE UNCHANGED wizVars
  BY <1>22 DEF wizVars, worldVars, wzHistory, EnvOK
<1> QED
  BY <1>1, <1>2, <1>3, <1>4, <1>5, <1>6, <1>7, <1>8, <1>9, <1>10, <1>11, <1>12, <1>13, <1>14, <1>15,
     <1>16, <1>17, <1>18, <1>19, <1>20, <1>21, <1>22 DEF NextWizard

LEMMA FileStep ==
  ASSUME PlaceOK, FileOK, [NextWizard]_wizVars
  PROVE  FileOK'
<1> USE DEF FileOK, PlaceOK
<1>1. ASSUME StartWizard PROVE FileOK'
  BY <1>1, WizStepsAre DEF StartWizard, worldVars, wzHistory, On
<1>2. ASSUME Cancelled PROVE FileOK'
  BY <1>2, WizStepsAre DEF Cancelled, worldVars, wzHistory
<1>3. ASSUME CheckEnvironment PROVE FileOK'
  BY <1>3, AfterIs, WizStepsAre DEF CheckEnvironment, worldVars, wzHistory, Quiet, On, Goto, Logged,
     Works, StepFails, Restarts
<1>4. ASSUME TemplateSetup PROVE FileOK'
  BY <1>4, WizStepsAre DEF TemplateSetup, worldVars, wzHistory, On, Goto, ApplyPick, ClearPick, Bridged
<1>5. ASSUME ChooseSource PROVE FileOK'
  BY <1>5, WizStepsAre DEF ChooseSource, worldVars, wzHistory, On, Goto
<1>6. ASSUME AcquireSandbox PROVE FileOK'
  BY <1>6, WizStepsAre DEF AcquireSandbox, worldVars, wzHistory, On, Goto, Logged, Works, StepFails,
     Restarts
<1>7. ASSUME ConnectVault PROVE FileOK'
  BY <1>7, WizStepsAre DEF ConnectVault, worldVars, wzHistory, On, Goto, Logged, Works, StepFails,
     Restarts
<1>8. ASSUME PickProvider PROVE FileOK'
  BY <1>8, WizStepsAre DEF PickProvider, worldVars, wzHistory, On, Goto, Works, StepFails, Restarts
<1>9. ASSUME InstallProvider PROVE FileOK'
  BY <1>9, WizStepsAre DEF InstallProvider, worldVars, wzHistory, On, Goto, Works, StepFails, Restarts
<1>10. ASSUME Rebuild PROVE FileOK'
  BY <1>10, WizStepsAre DEF Rebuild, worldVars, wzHistory, On, Goto, Works, StepFails, Restarts
<1>11. ASSUME Authenticate PROVE FileOK'
  BY <1>11, WizStepsAre DEF Authenticate, worldVars, wzHistory, On, Goto, Works, Logged, StepFails,
     Restarts
<1>12. ASSUME PersistDefault PROVE FileOK'
  BY <1>12, WizStepsAre DEF PersistDefault, worldVars, wzHistory, On, Goto
<1>13. ASSUME SetMounts PROVE FileOK'
  BY <1>13, AfterIs, WizStepsAre DEF SetMounts, worldVars, wzHistory, Quiet, On, Goto, Logged,
     Works, StepFails, Restarts
<1>14. ASSUME StartService PROVE FileOK'
  BY <1>14, WizStepsAre DEF StartService, worldVars, wzHistory, On, Goto, Works, Logged, StepFails,
     Restarts, Serves
<1>15. ASSUME MakeTestAgent PROVE FileOK'
  BY <1>15, WizStepsAre DEF MakeTestAgent, worldVars, wzHistory, On, Goto, Works, Logged, StepFails,
     Restarts
<1>16. ASSUME Ping PROVE FileOK'
  BY <1>16, WizStepsAre DEF Ping, worldVars, wzHistory, On, Goto
<1>17. ASSUME Chat PROVE FileOK'
  BY <1>17, WizStepsAre DEF Chat, worldVars, wzHistory, On, Goto, Works, StepFails, Restarts
<1>18. ASSUME SetTimezone PROVE FileOK'
  BY <1>18, AfterIs, WizStepsAre DEF SetTimezone, worldVars, wzHistory, Quiet, On, Goto, Logged,
     Works, StepFails, Restarts
<1>19. ASSUME StampFirst PROVE FileOK'
  BY <1>19, WizStepsAre DEF StampFirst, worldVars, wzHistory, On, Goto
<1>20. ASSUME ConnectChannel PROVE FileOK'
  BY <1>20, WizStepsAre DEF ConnectChannel, worldVars, wzHistory, On, Goto, Works, StepFails,
     Restarts, ClearPick
<1>21. ASSUME Verify PROVE FileOK'
  BY <1>21, WizStepsAre DEF Verify, worldVars, wzHistory, On
<1>22. CASE UNCHANGED wizVars
  BY <1>22 DEF wizVars, worldVars, wzHistory, FileOK
<1> QED
  BY <1>1, <1>2, <1>3, <1>4, <1>5, <1>6, <1>7, <1>8, <1>9, <1>10, <1>11, <1>12, <1>13, <1>14, <1>15,
     <1>16, <1>17, <1>18, <1>19, <1>20, <1>21, <1>22 DEF NextWizard

LEMMA MachineStep ==
  ASSUME FileOK, MachineOK, ProviderInv, [NextWizard]_wizVars
  PROVE  MachineOK'
<1> USE DEF MachineOK, FileOK, ProviderInv
<1>1. ASSUME StartWizard PROVE MachineOK'
  BY <1>1, WizStepsAre DEF StartWizard, worldVars, wzHistory, On
<1>2. ASSUME Cancelled PROVE MachineOK'
  BY <1>2, WizStepsAre DEF Cancelled, worldVars, wzHistory
<1>3. ASSUME CheckEnvironment PROVE MachineOK'
  BY <1>3, AfterIs, WizStepsAre DEF CheckEnvironment, worldVars, wzHistory, Quiet, On, Goto, Logged,
     Works, StepFails, Restarts
<1>4. ASSUME TemplateSetup PROVE MachineOK'
  BY <1>4, WizStepsAre DEF TemplateSetup, worldVars, wzHistory, On, Goto, ApplyPick, ClearPick, Bridged
<1>5. ASSUME ChooseSource PROVE MachineOK'
  BY <1>5, WizStepsAre DEF ChooseSource, worldVars, wzHistory, On, Goto
<1>6. ASSUME AcquireSandbox PROVE MachineOK'
  <2>1. sandbox' \in {sandbox, Acquired}
    BY <1>6 DEF AcquireSandbox
  <2> QED
    BY <1>6, <2>1, AcquiredIs, Zenon DEF AcquireSandbox, MachineOK
<1>7. ASSUME ConnectVault PROVE MachineOK'
  BY <1>7, WizStepsAre DEF ConnectVault, worldVars, wzHistory, On, Goto, Logged, Works, StepFails,
     Restarts
<1>8. ASSUME PickProvider PROVE MachineOK'
  BY <1>8, WizStepsAre DEF PickProvider, worldVars, wzHistory, On, Goto, Works, StepFails, Restarts
<1>9. ASSUME InstallProvider PROVE MachineOK'
  BY <1>9, WizStepsAre DEF InstallProvider, worldVars, wzHistory, On, Goto, Works, StepFails, Restarts
<1>10. ASSUME Rebuild PROVE MachineOK'
  <2>1. sandbox' \in {sandbox, Acquired}
    BY <1>10 DEF Rebuild
  <2> QED
    BY <1>10, <2>1, AcquiredIs, Zenon DEF Rebuild, MachineOK
<1>11. ASSUME Authenticate PROVE MachineOK'
  BY <1>11, WizStepsAre DEF Authenticate, worldVars, wzHistory, On, Goto, Works, Logged, StepFails,
     Restarts
<1>12. ASSUME PersistDefault PROVE MachineOK'
  BY <1>12, WizStepsAre DEF PersistDefault, worldVars, wzHistory, On, Goto
<1>13. ASSUME SetMounts PROVE MachineOK'
  BY <1>13, AfterIs, WizStepsAre DEF SetMounts, worldVars, wzHistory, Quiet, On, Goto, Logged,
     Works, StepFails, Restarts
<1>14. ASSUME StartService PROVE MachineOK'
  <2>1. host' = host \/ host' = [up |-> TRUE, default |-> Default]
    BY <1>14 DEF StartService, Serves
  <2>2. [up |-> TRUE, default |-> Default] \in [up : BOOLEAN, default : {"claude", "codex"}]
    BY DefaultIs
  <2>3. UNCHANGED <<sandbox, payload, vault>>
    BY <1>14 DEF StartService
  <2> QED
    BY <2>1, <2>2, <2>3
<1>15. ASSUME MakeTestAgent PROVE MachineOK'
  BY <1>15, WizStepsAre DEF MakeTestAgent, worldVars, wzHistory, On, Goto, Works, Logged, StepFails,
     Restarts
<1>16. ASSUME Ping PROVE MachineOK'
  BY <1>16, WizStepsAre DEF Ping, worldVars, wzHistory, On, Goto
<1>17. ASSUME Chat PROVE MachineOK'
  BY <1>17, WizStepsAre DEF Chat, worldVars, wzHistory, On, Goto, Works, StepFails, Restarts
<1>18. ASSUME SetTimezone PROVE MachineOK'
  BY <1>18, AfterIs, WizStepsAre DEF SetTimezone, worldVars, wzHistory, Quiet, On, Goto, Logged,
     Works, StepFails, Restarts
<1>19. ASSUME StampFirst PROVE MachineOK'
  BY <1>19, WizStepsAre DEF StampFirst, worldVars, wzHistory, On, Goto
<1>20. ASSUME ConnectChannel PROVE MachineOK'
  BY <1>20, WizStepsAre DEF ConnectChannel, worldVars, wzHistory, On, Goto, Works, StepFails,
     Restarts, ClearPick
<1>21. ASSUME Verify PROVE MachineOK'
  BY <1>21, WizStepsAre DEF Verify, worldVars, wzHistory, On
<1>22. CASE UNCHANGED wizVars
  BY <1>22 DEF wizVars, worldVars, wzHistory, MachineOK
<1> QED
  BY <1>1, <1>2, <1>3, <1>4, <1>5, <1>6, <1>7, <1>8, <1>9, <1>10, <1>11, <1>12, <1>13, <1>14, <1>15,
     <1>16, <1>17, <1>18, <1>19, <1>20, <1>21, <1>22 DEF NextWizard

LEMMA WzAgentsStep ==
  ASSUME EnvOK, FileOK, PlaceOK, MachineOK, AgentsOK, [NextWizard]_wizVars
  PROVE  AgentsOK'
<1>1. ASSUME StartWizard PROVE AgentsOK'
  BY <1>1, WizStepsAre DEF StartWizard, worldVars, AgentsOK
<1>2. ASSUME Cancelled PROVE AgentsOK'
  BY <1>2, WizStepsAre DEF Cancelled, worldVars, AgentsOK
<1>3. ASSUME CheckEnvironment PROVE AgentsOK'
  BY <1>3, AfterIs, WizStepsAre DEF Quiet, CheckEnvironment, worldVars, AgentsOK
<1>4. ASSUME TemplateSetup PROVE AgentsOK'
  BY <1>4, WizStepsAre DEF TemplateSetup, worldVars, AgentsOK
<1>5. ASSUME ChooseSource PROVE AgentsOK'
  BY <1>5, WizStepsAre DEF ChooseSource, worldVars, AgentsOK
<1>6. ASSUME AcquireSandbox PROVE AgentsOK'
  BY <1>6, WizStepsAre DEF AcquireSandbox, worldVars, AgentsOK
<1>7. ASSUME ConnectVault PROVE AgentsOK'
  BY <1>7, WizStepsAre DEF ConnectVault, worldVars, AgentsOK
<1>8. ASSUME PickProvider PROVE AgentsOK'
  BY <1>8, WizStepsAre DEF PickProvider, worldVars, AgentsOK
<1>9. ASSUME InstallProvider PROVE AgentsOK'
  BY <1>9, WizStepsAre DEF InstallProvider, worldVars, AgentsOK
<1>10. ASSUME Rebuild PROVE AgentsOK'
  BY <1>10, WizStepsAre DEF Rebuild, worldVars, AgentsOK
<1>11. ASSUME Authenticate PROVE AgentsOK'
  BY <1>11, WizStepsAre DEF Authenticate, worldVars, AgentsOK
<1>12. ASSUME PersistDefault PROVE AgentsOK'
  BY <1>12, WizStepsAre DEF PersistDefault, worldVars, AgentsOK
<1>13. ASSUME SetMounts PROVE AgentsOK'
  BY <1>13, AfterIs, WizStepsAre DEF Quiet, SetMounts, worldVars, AgentsOK
<1>14. ASSUME StartService PROVE AgentsOK'
  BY <1>14, WizStepsAre DEF StartService, worldVars, AgentsOK
<1>15. ASSUME MakeTestAgent PROVE AgentsOK'
  <2>1. groups' = groups \/ groups' = Wired("ping") \/ groups' = [groups EXCEPT !["ping"].provider = Made("ping")]
    BY <1>15 DEF MakeTestAgent
  <2>2. "ping" \in Agents
    BY DEF Agents
  <2>3. Made("ping") \in Providers
    BY <2>2, DefaultIs DEF Providers
  <2>4. CASE groups' = [groups EXCEPT !["ping"].provider = Made("ping")]
    <3>1. [groups EXCEPT !["ping"].provider = Made("ping")] \in [Agents -> [provider : {"", "claude", "codex"}, wired : BOOLEAN]]
      BY <2>2, <2>3, AgentSet, Zenon
    <3> QED
      BY <2>4, <3>1, Zenon DEF AgentsOK
  <2> QED
    BY <2>1, <2>2, <2>4, WiredIs, Zenon DEF AgentsOK
<1>16. ASSUME Ping PROVE AgentsOK'
  <2>1. groups' = groups \/ groups' = [groups EXCEPT !["ping"] = [provider |-> "", wired |-> FALSE]]
    BY <1>16 DEF Ping
  <2>2. "ping" \in Agents /\ "" \in Providers /\ FALSE \in BOOLEAN
    BY DEF Agents, Providers
  <2>3. [groups EXCEPT !["ping"] = [provider |-> "", wired |-> FALSE]] \in [Agents -> [provider : {"", "claude", "codex"}, wired : BOOLEAN]]
    BY <2>2, AgentSet, Zenon
  <2> QED
    BY <2>1, <2>3, Zenon DEF AgentsOK
<1>17. ASSUME Chat PROVE AgentsOK'
  <2>1. groups' = groups \/ groups' = Wired("terminal")
    BY <1>17 DEF Chat
  <2> QED
    BY <2>1, WiredIs DEF AgentsOK, Agents
<1>18. ASSUME SetTimezone PROVE AgentsOK'
  BY <1>18, AfterIs, WizStepsAre DEF Quiet, SetTimezone, worldVars, AgentsOK
<1>19. ASSUME StampFirst PROVE AgentsOK'
  <2>1. groups' = groups \/ (\E p \in Providers : groups' = [groups EXCEPT !["stamped"].provider = p])
    <3>1. StampedWith \subseteq Providers /\ host.default \in Providers
      BY DEF StampedWith, Providers, MachineOK, PlaceOK, AgentsOK, Agents
    <3> QED
      BY <1>19, <3>1 DEF StampFirst
  <2>2. "stamped" \in Agents
    BY DEF Agents
  <2>3. ASSUME NEW p \in Providers
        PROVE  [groups EXCEPT !["stamped"].provider = p] \in [Agents -> [provider : {"", "claude", "codex"}, wired : BOOLEAN]]
    BY <2>2, AgentSet, Zenon
  <2>4. CASE groups' = groups
    BY <2>4, Zenon DEF AgentsOK
  <2>5. ASSUME NEW p \in Providers, groups' = [groups EXCEPT !["stamped"].provider = p] PROVE AgentsOK'
    BY <2>3, <2>5, Zenon DEF AgentsOK
  <2> QED
    BY <2>1, <2>4, <2>5, Zenon
<1>20. ASSUME ConnectChannel PROVE AgentsOK'
  <2>1. groups' = groups \/ groups' = Wired("fresh") \/ groups' = Wired("stamped")
    BY <1>20 DEF ConnectChannel
  <2> QED
    BY <2>1, WiredIs DEF AgentsOK, Agents
<1>21. ASSUME Verify PROVE AgentsOK'
  BY <1>21, WizStepsAre DEF Verify, worldVars, AgentsOK
<1>22. CASE UNCHANGED wizVars
  BY <1>22 DEF wizVars, worldVars, wzHistory, AgentsOK
<1> QED
  BY <1>1, <1>2, <1>3, <1>4, <1>5, <1>6, <1>7, <1>8, <1>9, <1>10, <1>11, <1>12, <1>13, <1>14, <1>15,
     <1>16, <1>17, <1>18, <1>19, <1>20, <1>21, <1>22 DEF NextWizard

LEMMA WzNotesStep ==
  ASSUME WzNotesOK, [NextWizard]_wizVars
  PROVE  WzNotesOK'
<1> USE DEF WzNotesOK
<1>1. ASSUME StartWizard PROVE WzNotesOK'
  BY <1>1, WizStepsAre DEF StartWizard, worldVars, wzHistory, On
<1>2. ASSUME Cancelled PROVE WzNotesOK'
  BY <1>2, WizStepsAre DEF Cancelled, worldVars, wzHistory
<1>3. ASSUME CheckEnvironment PROVE WzNotesOK'
  BY <1>3, AfterIs, WizStepsAre DEF CheckEnvironment, worldVars, wzHistory, Quiet, On, Goto, Logged,
     Works, StepFails, Restarts
<1>4. ASSUME TemplateSetup PROVE WzNotesOK'
  BY <1>4, WizStepsAre DEF TemplateSetup, worldVars, wzHistory, On, Goto, ApplyPick, ClearPick, Bridged
<1>5. ASSUME ChooseSource PROVE WzNotesOK'
  BY <1>5, WizStepsAre DEF ChooseSource, worldVars, wzHistory, On, Goto
<1>6. ASSUME AcquireSandbox PROVE WzNotesOK'
  BY <1>6, WizStepsAre DEF AcquireSandbox, worldVars, wzHistory, On, Goto, Logged, Works, StepFails,
     Restarts
<1>7. ASSUME ConnectVault PROVE WzNotesOK'
  BY <1>7, WizStepsAre DEF ConnectVault, worldVars, wzHistory, On, Goto, Logged, Works, StepFails,
     Restarts
<1>8. ASSUME PickProvider PROVE WzNotesOK'
  BY <1>8, WizStepsAre DEF PickProvider, worldVars, wzHistory, On, Goto, Works, StepFails, Restarts
<1>9. ASSUME InstallProvider PROVE WzNotesOK'
  BY <1>9, WizStepsAre DEF InstallProvider, worldVars, wzHistory, On, Goto, Works, StepFails, Restarts
<1>10. ASSUME Rebuild PROVE WzNotesOK'
  BY <1>10, WizStepsAre DEF Rebuild, worldVars, wzHistory, On, Goto, Works, StepFails, Restarts
<1>11. ASSUME Authenticate PROVE WzNotesOK'
  BY <1>11, WizStepsAre DEF Authenticate, worldVars, wzHistory, On, Goto, Works, Logged, StepFails,
     Restarts
<1>12. ASSUME PersistDefault PROVE WzNotesOK'
  BY <1>12, WizStepsAre DEF PersistDefault, worldVars, wzHistory, On, Goto
<1>13. ASSUME SetMounts PROVE WzNotesOK'
  BY <1>13, AfterIs, WizStepsAre DEF SetMounts, worldVars, wzHistory, Quiet, On, Goto, Logged,
     Works, StepFails, Restarts
<1>14. ASSUME StartService PROVE WzNotesOK'
  BY <1>14, WizStepsAre DEF StartService, worldVars, wzHistory, On, Goto, Works, Logged, StepFails,
     Restarts, Serves
<1>15. ASSUME MakeTestAgent PROVE WzNotesOK'
  BY <1>15, WizStepsAre DEF MakeTestAgent, worldVars, wzHistory, On, Goto, Works, Logged, StepFails,
     Restarts
<1>16. ASSUME Ping PROVE WzNotesOK'
  BY <1>16, WizStepsAre DEF Ping, worldVars, wzHistory, On, Goto
<1>17. ASSUME Chat PROVE WzNotesOK'
  BY <1>17, WizStepsAre DEF Chat, worldVars, wzHistory, On, Goto, Works, StepFails, Restarts
<1>18. ASSUME SetTimezone PROVE WzNotesOK'
  BY <1>18, AfterIs, WizStepsAre DEF SetTimezone, worldVars, wzHistory, Quiet, On, Goto, Logged,
     Works, StepFails, Restarts
<1>19. ASSUME StampFirst PROVE WzNotesOK'
  BY <1>19, WizStepsAre DEF StampFirst, worldVars, wzHistory, On, Goto
<1>20. ASSUME ConnectChannel PROVE WzNotesOK'
  BY <1>20, WizStepsAre DEF ConnectChannel, worldVars, wzHistory, On, Goto, Works, StepFails,
     Restarts, ClearPick
<1>21. ASSUME Verify PROVE WzNotesOK'
  BY <1>21, WizStepsAre DEF Verify, worldVars, wzHistory, On
<1>22. CASE UNCHANGED wizVars
  BY <1>22 DEF wizVars, worldVars, wzHistory, WzNotesOK
<1> QED
  BY <1>1, <1>2, <1>3, <1>4, <1>5, <1>6, <1>7, <1>8, <1>9, <1>10, <1>11, <1>12, <1>13, <1>14, <1>15,
     <1>16, <1>17, <1>18, <1>19, <1>20, <1>21, <1>22 DEF NextWizard

LEMMA CountsDown ==
  ASSUME NEW m \in Nat, NEW x \in 0 .. m, NEW n, n = x \/ (x > 0 /\ n = x - 1)
  PROVE  n \in 0 .. m
OBVIOUS

LEMMA TriesGo ==
  ASSUME WzTriesOK, wzFaults' = wzFaults \/ (wzFaults > 0 /\ wzFaults' = wzFaults - 1),
         wzRuns' = wzRuns \/ (wzRuns > 0 /\ wzRuns' = wzRuns - 1), ending' \in {ending, "", "ready", "almost"}
  PROVE  WzTriesOK'
<1>1. ending' \in {"", "ready", "almost"}
  BY Zenon DEF WzTriesOK
<1>2. wzFaults \in 0 .. MaxWzFaults /\ wzRuns \in 0 .. MaxWzRuns
  BY Zenon DEF WzTriesOK
<1>3. wzFaults' \in 0 .. MaxWzFaults
  BY <1>2, WizardNat, CountsDown, Zenon
<1>4. wzRuns' \in 0 .. MaxWzRuns
  BY <1>2, WizardNat, CountsDown, Zenon
<1> QED
  BY <1>1, <1>3, <1>4, Zenon DEF WzTriesOK

LEMMA WzTriesStep ==
  ASSUME WzTriesOK, [NextWizard]_wizVars
  PROVE  WzTriesOK'
<1>1. ASSUME StartWizard PROVE WzTriesOK'
  <2>1. wzFaults' = wzFaults \/ (wzFaults > 0 /\ wzFaults' = wzFaults - 1)
    BY <1>1 DEF StartWizard, On
  <2>2. wzRuns > 0 /\ wzRuns' = wzRuns - 1
    BY <1>1 DEF StartWizard, On
  <2>3. ending' \in {ending, "", "ready", "almost"}
    BY <1>1 DEF StartWizard, On
  <2> QED
    BY <2>1, <2>2, <2>3, TriesGo
<1>2. ASSUME Cancelled PROVE WzTriesOK'
  <2>1. wzFaults' = wzFaults \/ (wzFaults > 0 /\ wzFaults' = wzFaults - 1)
    BY <1>2 DEF Cancelled, worldVars
  <2>2. wzRuns' = wzRuns
    BY <1>2 DEF Cancelled, worldVars
  <2>3. ending' \in {ending, "", "ready", "almost"}
    BY <1>2 DEF Cancelled, worldVars
  <2> QED
    BY <2>1, <2>2, <2>3, TriesGo
<1>3. ASSUME CheckEnvironment PROVE WzTriesOK'
  <2>1. wzFaults' = wzFaults \/ (wzFaults > 0 /\ wzFaults' = wzFaults - 1)
    BY <1>3 DEF CheckEnvironment, Quiet, On, Goto, Logged, Works, StepFails, Restarts
  <2>2. wzRuns' = wzRuns
    BY <1>3 DEF CheckEnvironment, Quiet, On, Goto, Logged, Works, StepFails, Restarts
  <2>3. ending' \in {ending, "", "ready", "almost"}
    BY <1>3 DEF CheckEnvironment, Quiet, On, Goto, Logged, Works, StepFails, Restarts
  <2> QED
    BY <2>1, <2>2, <2>3, TriesGo
<1>4. ASSUME TemplateSetup PROVE WzTriesOK'
  <2>1. wzFaults' = wzFaults \/ (wzFaults > 0 /\ wzFaults' = wzFaults - 1)
    BY <1>4 DEF TemplateSetup, On, Goto, ApplyPick, ClearPick, Bridged
  <2>2. wzRuns' = wzRuns
    BY <1>4 DEF TemplateSetup, On, Goto, ApplyPick, ClearPick, Bridged
  <2>3. ending' \in {ending, "", "ready", "almost"}
    BY <1>4 DEF TemplateSetup, On, Goto, ApplyPick, ClearPick, Bridged
  <2> QED
    BY <2>1, <2>2, <2>3, TriesGo
<1>5. ASSUME ChooseSource PROVE WzTriesOK'
  <2>1. wzFaults' = wzFaults \/ (wzFaults > 0 /\ wzFaults' = wzFaults - 1)
    BY <1>5 DEF ChooseSource, On, Goto
  <2>2. wzRuns' = wzRuns
    BY <1>5 DEF ChooseSource, On, Goto
  <2>3. ending' \in {ending, "", "ready", "almost"}
    BY <1>5 DEF ChooseSource, On, Goto
  <2> QED
    BY <2>1, <2>2, <2>3, TriesGo
<1>6. ASSUME AcquireSandbox PROVE WzTriesOK'
  <2>1. wzFaults' = wzFaults \/ (wzFaults > 0 /\ wzFaults' = wzFaults - 1)
    BY <1>6 DEF AcquireSandbox, On, Goto, Logged, Works, StepFails, Restarts
  <2>2. wzRuns' = wzRuns
    BY <1>6 DEF AcquireSandbox, On, Goto, Logged, Works, StepFails, Restarts
  <2>3. ending' \in {ending, "", "ready", "almost"}
    BY <1>6 DEF AcquireSandbox, On, Goto, Logged, Works, StepFails, Restarts
  <2> QED
    BY <2>1, <2>2, <2>3, TriesGo
<1>7. ASSUME ConnectVault PROVE WzTriesOK'
  <2>1. wzFaults' = wzFaults \/ (wzFaults > 0 /\ wzFaults' = wzFaults - 1)
    BY <1>7 DEF ConnectVault, On, Goto, Logged, Works, StepFails, Restarts
  <2>2. wzRuns' = wzRuns
    BY <1>7 DEF ConnectVault, On, Goto, Logged, Works, StepFails, Restarts
  <2>3. ending' \in {ending, "", "ready", "almost"}
    BY <1>7 DEF ConnectVault, On, Goto, Logged, Works, StepFails, Restarts
  <2> QED
    BY <2>1, <2>2, <2>3, TriesGo
<1>8. ASSUME PickProvider PROVE WzTriesOK'
  <2>1. wzFaults' = wzFaults \/ (wzFaults > 0 /\ wzFaults' = wzFaults - 1)
    BY <1>8 DEF PickProvider, On, Goto, Works, StepFails, Restarts
  <2>2. wzRuns' = wzRuns
    BY <1>8 DEF PickProvider, On, Goto, Works, StepFails, Restarts
  <2>3. ending' \in {ending, "", "ready", "almost"}
    BY <1>8 DEF PickProvider, On, Goto, Works, StepFails, Restarts
  <2> QED
    BY <2>1, <2>2, <2>3, TriesGo
<1>9. ASSUME InstallProvider PROVE WzTriesOK'
  <2>1. wzFaults' = wzFaults \/ (wzFaults > 0 /\ wzFaults' = wzFaults - 1)
    BY <1>9 DEF InstallProvider, On, Goto, Works, StepFails, Restarts
  <2>2. wzRuns' = wzRuns
    BY <1>9 DEF InstallProvider, On, Goto, Works, StepFails, Restarts
  <2>3. ending' \in {ending, "", "ready", "almost"}
    BY <1>9 DEF InstallProvider, On, Goto, Works, StepFails, Restarts
  <2> QED
    BY <2>1, <2>2, <2>3, TriesGo
<1>10. ASSUME Rebuild PROVE WzTriesOK'
  <2>1. wzFaults' = wzFaults \/ (wzFaults > 0 /\ wzFaults' = wzFaults - 1)
    BY <1>10 DEF Rebuild, On, Goto, Works, StepFails, Restarts
  <2>2. wzRuns' = wzRuns
    BY <1>10 DEF Rebuild, On, Goto, Works, StepFails, Restarts
  <2>3. ending' \in {ending, "", "ready", "almost"}
    BY <1>10 DEF Rebuild, On, Goto, Works, StepFails, Restarts
  <2> QED
    BY <2>1, <2>2, <2>3, TriesGo
<1>11. ASSUME Authenticate PROVE WzTriesOK'
  <2>1. wzFaults' = wzFaults \/ (wzFaults > 0 /\ wzFaults' = wzFaults - 1)
    BY <1>11 DEF Authenticate, On, Goto, Works, Logged, StepFails, Restarts
  <2>2. wzRuns' = wzRuns
    BY <1>11 DEF Authenticate, On, Goto, Works, Logged, StepFails, Restarts
  <2>3. ending' \in {ending, "", "ready", "almost"}
    BY <1>11 DEF Authenticate, On, Goto, Works, Logged, StepFails, Restarts
  <2> QED
    BY <2>1, <2>2, <2>3, TriesGo
<1>12. ASSUME PersistDefault PROVE WzTriesOK'
  <2>1. wzFaults' = wzFaults \/ (wzFaults > 0 /\ wzFaults' = wzFaults - 1)
    BY <1>12 DEF PersistDefault, On, Goto
  <2>2. wzRuns' = wzRuns
    BY <1>12 DEF PersistDefault, On, Goto
  <2>3. ending' \in {ending, "", "ready", "almost"}
    BY <1>12 DEF PersistDefault, On, Goto
  <2> QED
    BY <2>1, <2>2, <2>3, TriesGo
<1>13. ASSUME SetMounts PROVE WzTriesOK'
  <2>1. wzFaults' = wzFaults \/ (wzFaults > 0 /\ wzFaults' = wzFaults - 1)
    BY <1>13 DEF SetMounts, Quiet, On, Goto, Logged, Works, StepFails, Restarts
  <2>2. wzRuns' = wzRuns
    BY <1>13 DEF SetMounts, Quiet, On, Goto, Logged, Works, StepFails, Restarts
  <2>3. ending' \in {ending, "", "ready", "almost"}
    BY <1>13 DEF SetMounts, Quiet, On, Goto, Logged, Works, StepFails, Restarts
  <2> QED
    BY <2>1, <2>2, <2>3, TriesGo
<1>14. ASSUME StartService PROVE WzTriesOK'
  <2>1. wzFaults' = wzFaults \/ (wzFaults > 0 /\ wzFaults' = wzFaults - 1)
    BY <1>14 DEF StartService, On, Goto, Works, Logged, StepFails, Restarts, Serves
  <2>2. wzRuns' = wzRuns
    BY <1>14 DEF StartService, On, Goto, Works, Logged, StepFails, Restarts, Serves
  <2>3. ending' \in {ending, "", "ready", "almost"}
    BY <1>14 DEF StartService, On, Goto, Works, Logged, StepFails, Restarts, Serves
  <2> QED
    BY <2>1, <2>2, <2>3, TriesGo
<1>15. ASSUME MakeTestAgent PROVE WzTriesOK'
  <2>1. wzFaults' = wzFaults \/ (wzFaults > 0 /\ wzFaults' = wzFaults - 1)
    BY <1>15 DEF MakeTestAgent, On, Goto, Works, Logged, StepFails, Restarts
  <2>2. wzRuns' = wzRuns
    BY <1>15 DEF MakeTestAgent, On, Goto, Works, Logged, StepFails, Restarts
  <2>3. ending' \in {ending, "", "ready", "almost"}
    BY <1>15 DEF MakeTestAgent, On, Goto, Works, Logged, StepFails, Restarts
  <2> QED
    BY <2>1, <2>2, <2>3, TriesGo
<1>16. ASSUME Ping PROVE WzTriesOK'
  <2>1. wzFaults' = wzFaults \/ (wzFaults > 0 /\ wzFaults' = wzFaults - 1)
    BY <1>16 DEF Ping, On, Goto
  <2>2. wzRuns' = wzRuns
    BY <1>16 DEF Ping, On, Goto
  <2>3. ending' \in {ending, "", "ready", "almost"}
    BY <1>16 DEF Ping, On, Goto
  <2> QED
    BY <2>1, <2>2, <2>3, TriesGo
<1>17. ASSUME Chat PROVE WzTriesOK'
  <2>1. wzFaults' = wzFaults \/ (wzFaults > 0 /\ wzFaults' = wzFaults - 1)
    BY <1>17 DEF Chat, On, Goto, Works, StepFails, Restarts
  <2>2. wzRuns' = wzRuns
    BY <1>17 DEF Chat, On, Goto, Works, StepFails, Restarts
  <2>3. ending' \in {ending, "", "ready", "almost"}
    BY <1>17 DEF Chat, On, Goto, Works, StepFails, Restarts
  <2> QED
    BY <2>1, <2>2, <2>3, TriesGo
<1>18. ASSUME SetTimezone PROVE WzTriesOK'
  <2>1. wzFaults' = wzFaults \/ (wzFaults > 0 /\ wzFaults' = wzFaults - 1)
    BY <1>18 DEF SetTimezone, Quiet, On, Goto, Logged, Works, StepFails, Restarts
  <2>2. wzRuns' = wzRuns
    BY <1>18 DEF SetTimezone, Quiet, On, Goto, Logged, Works, StepFails, Restarts
  <2>3. ending' \in {ending, "", "ready", "almost"}
    BY <1>18 DEF SetTimezone, Quiet, On, Goto, Logged, Works, StepFails, Restarts
  <2> QED
    BY <2>1, <2>2, <2>3, TriesGo
<1>19. ASSUME StampFirst PROVE WzTriesOK'
  <2>1. wzFaults' = wzFaults \/ (wzFaults > 0 /\ wzFaults' = wzFaults - 1)
    BY <1>19 DEF StampFirst, On, Goto
  <2>2. wzRuns' = wzRuns
    BY <1>19 DEF StampFirst, On, Goto
  <2>3. ending' \in {ending, "", "ready", "almost"}
    BY <1>19 DEF StampFirst, On, Goto
  <2> QED
    BY <2>1, <2>2, <2>3, TriesGo
<1>20. ASSUME ConnectChannel PROVE WzTriesOK'
  <2>1. wzFaults' = wzFaults \/ (wzFaults > 0 /\ wzFaults' = wzFaults - 1)
    BY <1>20 DEF ConnectChannel, On, Goto, Works, StepFails, Restarts, ClearPick
  <2>2. wzRuns' = wzRuns
    BY <1>20 DEF ConnectChannel, On, Goto, Works, StepFails, Restarts, ClearPick
  <2>3. ending' \in {ending, "", "ready", "almost"}
    BY <1>20 DEF ConnectChannel, On, Goto, Works, StepFails, Restarts, ClearPick
  <2> QED
    BY <2>1, <2>2, <2>3, TriesGo
<1>21. ASSUME Verify PROVE WzTriesOK'
  <2>1. wzFaults' = wzFaults \/ (wzFaults > 0 /\ wzFaults' = wzFaults - 1)
    BY <1>21 DEF Verify, On
  <2>2. wzRuns' = wzRuns
    BY <1>21 DEF Verify, On
  <2>3. ending' \in {ending, "", "ready", "almost"}
    BY <1>21 DEF Verify, On, Verdict
  <2> QED
    BY <2>1, <2>2, <2>3, TriesGo
<1>22. CASE UNCHANGED wizVars
  BY <1>22 DEF wizVars, worldVars, wzHistory, WzTriesOK
<1> QED
  BY <1>1, <1>2, <1>3, <1>4, <1>5, <1>6, <1>7, <1>8, <1>9, <1>10, <1>11, <1>12, <1>13, <1>14, <1>15,
     <1>16, <1>17, <1>18, <1>19, <1>20, <1>21, <1>22 DEF NextWizard

LEMMA PickStep ==
  ASSUME EnvOK, FileOK, PickInv, [NextWizard]_wizVars
  PROVE  PickInv'
<1> USE DEF PickInv, PickKept, NotBypassed, EnvOK, FileOK
<1>1. ASSUME StartWizard PROVE PickInv'
  BY <1>1, WizStepsAre DEF StartWizard, worldVars, wzHistory, On, NoEnv
<1>2. ASSUME Cancelled PROVE PickInv'
  BY <1>2, WizStepsAre DEF Cancelled, worldVars, wzHistory
<1>3. ASSUME CheckEnvironment PROVE PickInv'
  BY <1>3, AfterIs, WizStepsAre DEF CheckEnvironment, worldVars, wzHistory, Quiet, On, Goto, Logged,
     Works, StepFails, Restarts
<1>4. ASSUME TemplateSetup PROVE PickInv'
  BY <1>4, WizStepsAre DEF TemplateSetup, worldVars, wzHistory, On, Goto, ApplyPick, ClearPick, Bridged
<1>5. ASSUME ChooseSource PROVE PickInv'
  BY <1>5, WizStepsAre DEF ChooseSource, worldVars, wzHistory, On, Goto
<1>6. ASSUME AcquireSandbox PROVE PickInv'
  BY <1>6, WizStepsAre DEF AcquireSandbox, worldVars, wzHistory, On, Goto, Logged, Works, StepFails,
     Restarts
<1>7. ASSUME ConnectVault PROVE PickInv'
  BY <1>7, WizStepsAre DEF ConnectVault, worldVars, wzHistory, On, Goto, Logged, Works, StepFails,
     Restarts
<1>8. ASSUME PickProvider PROVE PickInv'
  BY <1>8, WizStepsAre DEF PickProvider, worldVars, wzHistory, On, Goto, Works, StepFails, Restarts
<1>9. ASSUME InstallProvider PROVE PickInv'
  BY <1>9, WizStepsAre DEF InstallProvider, worldVars, wzHistory, On, Goto, Works, StepFails, Restarts
<1>10. ASSUME Rebuild PROVE PickInv'
  BY <1>10, WizStepsAre DEF Rebuild, worldVars, wzHistory, On, Goto, Works, StepFails, Restarts
<1>11. ASSUME Authenticate PROVE PickInv'
  BY <1>11, WizStepsAre DEF Authenticate, worldVars, wzHistory, On, Goto, Works, Logged, StepFails,
     Restarts
<1>12. ASSUME PersistDefault PROVE PickInv'
  BY <1>12, WizStepsAre DEF PersistDefault, worldVars, wzHistory, On, Goto
<1>13. ASSUME SetMounts PROVE PickInv'
  BY <1>13, AfterIs, WizStepsAre DEF SetMounts, worldVars, wzHistory, Quiet, On, Goto, Logged,
     Works, StepFails, Restarts
<1>14. ASSUME StartService PROVE PickInv'
  BY <1>14, WizStepsAre DEF StartService, worldVars, wzHistory, On, Goto, Works, Logged, StepFails,
     Restarts, Serves
<1>15. ASSUME MakeTestAgent PROVE PickInv'
  BY <1>15, WizStepsAre DEF MakeTestAgent, worldVars, wzHistory, On, Goto, Works, Logged, StepFails,
     Restarts
<1>16. ASSUME Ping PROVE PickInv'
  BY <1>16, WizStepsAre DEF Ping, worldVars, wzHistory, On, Goto
<1>17. ASSUME Chat PROVE PickInv'
  BY <1>17, WizStepsAre DEF Chat, worldVars, wzHistory, On, Goto, Works, StepFails, Restarts
<1>18. ASSUME SetTimezone PROVE PickInv'
  <2>1. UNCHANGED <<env, file, due, warned, bypassed>>
    BY <1>18 DEF SetTimezone, Quiet, wzHistory
  <2>2. wzStep = "timezone" /\ wzStep' \in {"stamp", "idle", "environment"}
    BY <1>18, AfterIs DEF SetTimezone, Quiet, On, Goto, StepFails, Restarts
  <2> QED
    BY <2>1, <2>2
<1>19. ASSUME StampFirst PROVE PickInv'
  BY <1>19, WizStepsAre DEF StampFirst, worldVars, wzHistory, On, Goto
<1>20. ASSUME ConnectChannel PROVE PickInv'
  <2>1. ~bypassed'
    BY <1>20 DEF ConnectChannel, On
  <2>2. due' = FALSE \/ UNCHANGED <<env, file, due>>
    <3> HIDE DEF PickInv, PickKept, NotBypassed, EnvOK, FileOK
    <3> QED
      BY <1>20 DEF ConnectChannel, ClearPick
  <2>3. wzStep = "channel" /\ wzStep' \in {"verify", "idle", "environment"}
    BY <1>20 DEF ConnectChannel, On, Goto, StepFails, Restarts
  <2>4. CASE due' = FALSE
    BY <2>1, <2>4
  <2>5. CASE env' = env /\ file' = file /\ due' = due
    BY <2>1, <2>3, <2>5
  <2> QED
    BY <2>2, <2>4, <2>5
<1>21. ASSUME Verify PROVE PickInv'
  BY <1>21, WizStepsAre DEF Verify, worldVars, wzHistory, On
<1>22. CASE UNCHANGED wizVars
  BY <1>22 DEF wizVars, worldVars, wzHistory, PickInv
<1> QED
  BY <1>1, <1>2, <1>3, <1>4, <1>5, <1>6, <1>7, <1>8, <1>9, <1>10, <1>11, <1>12, <1>13, <1>14, <1>15,
     <1>16, <1>17, <1>18, <1>19, <1>20, <1>21, <1>22 DEF NextWizard

LEMMA ProviderStep ==
  ASSUME PlaceOK, FileOK, MachineOK, ProviderInv, [NextWizard]_wizVars
  PROVE  ProviderInv'
<1> USE DEF ProviderInv, DefaultCanRun, PlaceOK, FileOK, MachineOK
<1>1. ASSUME StartWizard PROVE ProviderInv'
  BY <1>1, WizStepsAre DEF StartWizard, worldVars, wzHistory, On
<1>2. ASSUME Cancelled PROVE ProviderInv'
  BY <1>2, WizStepsAre DEF Cancelled, worldVars, wzHistory
<1>3. ASSUME CheckEnvironment PROVE ProviderInv'
  BY <1>3, AfterIs, WizStepsAre DEF CheckEnvironment, worldVars, wzHistory, Quiet, On, Goto, Logged,
     Works, StepFails, Restarts
<1>4. ASSUME TemplateSetup PROVE ProviderInv'
  BY <1>4, WizStepsAre DEF TemplateSetup, worldVars, wzHistory, On, Goto, ApplyPick, ClearPick, Bridged
<1>5. ASSUME ChooseSource PROVE ProviderInv'
  BY <1>5, WizStepsAre DEF ChooseSource, worldVars, wzHistory, On, Goto, Default
<1>6. ASSUME AcquireSandbox PROVE ProviderInv'
  <2>1. file' = file /\ payload' = payload /\ vault' = vault /\ unbuilt' = unbuilt
    BY <1>6 DEF AcquireSandbox, wzHistory
  <2>2. sandbox' = sandbox \/ (file.source # "hardened" /\ payload => "codex" \in sandbox'.runs)
    BY <1>6, AcquiredIs DEF AcquireSandbox
  <2>3. wzStep' \in {"onecli", "environment", "idle"}
    BY <1>6, AcquiredIs, WizStepsAre DEF AcquireSandbox, On, Goto, Logged, Works, StepFails, Restarts
  <2> QED
    BY <2>1, <2>2, <2>3
<1>7. ASSUME ConnectVault PROVE ProviderInv'
  BY <1>7, WizStepsAre DEF ConnectVault, worldVars, wzHistory, On, Goto, Logged, Works, StepFails,
     Restarts
<1>8. ASSUME PickProvider PROVE ProviderInv'
  BY <1>8, WizStepsAre DEF PickProvider, worldVars, wzHistory, On, Goto, Works, StepFails, Restarts
<1>9. ASSUME InstallProvider PROVE ProviderInv'
  BY <1>9, WizStepsAre DEF InstallProvider, worldVars, wzHistory, On, Goto, Works, StepFails, Restarts
<1>10. ASSUME Rebuild PROVE ProviderInv'
  <2>1. file' = file /\ payload' = payload /\ vault' = vault /\ unbuilt' = unbuilt
    BY <1>10 DEF Rebuild, wzHistory
  <2>2. sandbox' = sandbox \/ (file.source # "hardened" /\ payload => "codex" \in sandbox'.runs)
    BY <1>10, AcquiredIs DEF Rebuild
  <2>3. wzStep = "rebuild" /\ ((wzStep' = "signin" /\ agentProvider' = agentProvider /\ (file.source # "hardened" /\ payload => "codex" \in sandbox'.runs)) \/ wzStep' \in {"environment", "idle"})
    BY <1>10, AcquiredIs, WizStepsAre DEF Rebuild, On, Goto, Works, StepFails, Restarts
  <2> QED
    BY <2>1, <2>2, <2>3
<1>11. ASSUME Authenticate PROVE ProviderInv'
  BY <1>11, WizStepsAre DEF Authenticate, worldVars, wzHistory, On, Goto, Works, Logged, StepFails,
     Restarts
<1>12. ASSUME PersistDefault PROVE ProviderInv'
  BY <1>12, WizStepsAre DEF PersistDefault, worldVars, wzHistory, On, Goto
<1>13. ASSUME SetMounts PROVE ProviderInv'
  BY <1>13, AfterIs, WizStepsAre DEF SetMounts, worldVars, wzHistory, Quiet, On, Goto, Logged,
     Works, StepFails, Restarts
<1>14. ASSUME StartService PROVE ProviderInv'
  BY <1>14, WizStepsAre DEF StartService, worldVars, wzHistory, On, Goto, Works, Logged, StepFails,
     Restarts, Serves
<1>15. ASSUME MakeTestAgent PROVE ProviderInv'
  BY <1>15, WizStepsAre DEF MakeTestAgent, worldVars, wzHistory, On, Goto, Works, Logged, StepFails,
     Restarts
<1>16. ASSUME Ping PROVE ProviderInv'
  BY <1>16, WizStepsAre DEF Ping, worldVars, wzHistory, On, Goto
<1>17. ASSUME Chat PROVE ProviderInv'
  BY <1>17, WizStepsAre DEF Chat, worldVars, wzHistory, On, Goto, Works, StepFails, Restarts
<1>18. ASSUME SetTimezone PROVE ProviderInv'
  BY <1>18, AfterIs, WizStepsAre DEF SetTimezone, worldVars, wzHistory, Quiet, On, Goto, Logged,
     Works, StepFails, Restarts
<1>19. ASSUME StampFirst PROVE ProviderInv'
  BY <1>19, WizStepsAre DEF StampFirst, worldVars, wzHistory, On, Goto
<1>20. ASSUME ConnectChannel PROVE ProviderInv'
  BY <1>20, WizStepsAre DEF ConnectChannel, worldVars, wzHistory, On, Goto, Works, StepFails,
     Restarts, ClearPick
<1>21. ASSUME Verify PROVE ProviderInv'
  BY <1>21, WizStepsAre DEF Verify, worldVars, wzHistory, On
<1>22. CASE UNCHANGED wizVars
  BY <1>22 DEF wizVars, worldVars, wzHistory, ProviderInv
<1> QED
  BY <1>1, <1>2, <1>3, <1>4, <1>5, <1>6, <1>7, <1>8, <1>9, <1>10, <1>11, <1>12, <1>13, <1>14, <1>15,
     <1>16, <1>17, <1>18, <1>19, <1>20, <1>21, <1>22 DEF NextWizard

LEMMA Itself == ASSUME NEW m \in Nat PROVE m \in 0 .. m
OBVIOUS

LEMMA WzStarts == InitWizard => WzInv
<1> SUFFICES ASSUME InitWizard PROVE WzInv
  OBVIOUS
<1> USE DEF InitWizard
<1>1. PlaceOK
  BY DEF PlaceOK
<1>2. EnvOK /\ FileOK
  BY DEF EnvOK, FileOK, NoEnv
<1>3. MachineOK /\ AgentsOK
  BY DEF MachineOK, AgentsOK
<1>4. WzNotesOK /\ WzTriesOK
  <2>1. MaxWzRuns \in 0 .. MaxWzRuns /\ MaxWzFaults \in 0 .. MaxWzFaults
    BY WizardNat, Itself, Zenon
  <2>2. wzRuns = MaxWzRuns /\ wzFaults = MaxWzFaults /\ ending = ""
    BY Zenon
  <2>3. due = FALSE /\ unbuilt = FALSE /\ warned = FALSE /\ bypassed = FALSE
    BY Zenon
  <2>4. WzNotesOK
    BY <2>3, Zenon DEF WzNotesOK
  <2>5. WzTriesOK
    BY <2>1, <2>2, Zenon DEF WzTriesOK
  <2> QED
    BY <2>4, <2>5
<1>5. PickInv /\ ProviderInv
  BY DEF PickInv, PickKept, NotBypassed, ProviderInv, DefaultCanRun
<1> QED
  BY <1>1, <1>2, <1>3, <1>4, <1>5 DEF WzInv

LEMMA WzStep == WzInv /\ [NextWizard]_wizVars => WzInv'
BY PlaceStep, EnvStep, FileStep, MachineStep, WzAgentsStep, WzNotesStep, WzTriesStep, PickStep,
   ProviderStep DEF WzInv

\* The inductive invariant of the setup wizard.
THEOREM WizardInvariant == WizardSpec => []WzInv
BY WzStarts, WzStep, PTL DEF WizardSpec

\* A template that was picked is not lost and no fresh agent is wired in its
\* place without a word; a provider that is the default is installed and signed
\* in, and in the image unless the build was passed over.
THEOREM WizardIsSafe == WizardSpec => []WizardSafety
BY WizardInvariant, WzInvIsSafe, PTL

-----------------------------------------------------------------------------
(* The removal of a copy, for any commands of people and any failures.       *)

AllParts == DataParts \cup RuntimeParts \cup UserParts
Inventories == [unit : BOOLEAN, boxes : BOOLEAN, image : BOOLEAN, ncl : BOOLEAN,
                kept : SUBSET AllParts, mine : SUBSET {"a1", "a2"}, orphans : SUBSET VaultAgents]

\* What each variable is, in parts.
CopiesOK ==
  /\ flavor \in [Copies -> {"user", "system", "nohup"}] /\ flavor["there"] = "user"
  /\ unitOf \in [Copies -> {"none", "on", "off"}] /\ hostOf \in [Copies -> {"up", "stopping", "down"}]
  /\ unitOf["here"] # "none" => flavor["here"] # "nohup"
BoxesOK == boxes \in BOOLEAN /\ boxImage \in BOOLEAN /\ nclLink \in Copies \cup {"none"}
PartsHereOK == parts \in [Copies -> SUBSET AllParts]
AgentsKnownOK == rows \subseteq {"a1", "a2"} /\ vaultHas \subseteq VaultAgents
UninstallerOK ==
  /\ un \in [step : {"idle", "asking", "acting", "done"}, yes : BOOLEAN, inv : Inventories,
             plan : SUBSET RemovalSteps, service : BOOLEAN]
  /\ un.step = "acting" => un.plan # {}
  /\ un.step # "acting" => un.plan = {}
UnNotesOK == /\ unNotes \subseteq RemovalSteps /\ silent \subseteq RemovalSteps /\ moved \subseteq RemovalSteps
             /\ asRoot \in BOOLEAN /\ consented \in BOOLEAN
UnTriesOK == unCommands \in 0 .. MaxUnCommands /\ unFaults \in 0 .. MaxUnFaults

\* The keys are where .env is, and a plan that has .env in it finds it there.
KeysInv ==
  /\ keysMade \in Nat /\ saved \subseteq 1 .. keysMade /\ keysOf \in 0 .. keysMade
  /\ "env" \in parts["here"] <=> keysOf # 0
  /\ "env" \in un.plan => "env" \in parts["here"]
  /\ un.step = "asking" /\ "env" \in un.inv.kept => "env" \in parts["here"]
  /\ KeysKept

\* Only a person gives away an agent that is not known to be this copy's.
OthersInv == OthersKept /\ ("b1" \in un.plan => consented)

\* The service is stopped before the containers are removed, and stays so.
StoppedInv ==
  un.step # "idle" /\ un.inv.unit =>
    /\ flavor["here"] # "nohup"
    /\ un.step \in {"acting", "done"} /\ un.service /\ unNotes \cup silent = {} =>
         /\ "unload" \notin un.plan => hostOf["here"] = "down" /\ unitOf["here"] # "on"
         /\ "rm-containers" \notin un.plan => "unload" \notin un.plan /\ ~boxes

\* What --yes found and is not gone is still in the plan, or explained; an agent
\* it found is not made a second time.
GoneInv ==
  /\ un.step \in {"acting", "done"} /\ un.yes =>
       (parts["here"] \cap un.inv.kept) \cup (un.inv.mine \cap vaultHas)
         \subseteq un.plan \cup unNotes \cup silent \cup moved
  /\ un.inv.mine \subseteq rows \/ rows = {}

UnInv == /\ CopiesOK /\ BoxesOK /\ PartsHereOK /\ AgentsKnownOK /\ UninstallerOK /\ UnNotesOK /\ UnTriesOK
         /\ KeysInv /\ OthersInv /\ StoppedInv /\ GoneInv

LEMMA UnNat == MaxUnCommands \in Nat /\ MaxUnFaults \in Nat
BY UninstallAssumption

LEMMA OneFewer == ASSUME NEW m \in Nat, NEW x \in 0 .. m, x > 0 PROVE x - 1 \in 0 .. m
OBVIOUS

LEMMA UnInvTypes == UnInv => UnTypeOK
<1> SUFFICES ASSUME UnInv PROVE UnTypeOK
  OBVIOUS
<1> USE DEF UnInv
<1>1. /\ flavor \in [Copies -> {"user", "system", "nohup"}]
      /\ unitOf \in [Copies -> {"none", "on", "off"}] /\ hostOf \in [Copies -> {"up", "stopping", "down"}]
  BY Zenon DEF CopiesOK
<1>2. {boxes, boxImage} \subseteq BOOLEAN /\ nclLink \in Copies \cup {"none"}
  BY Zenon DEF BoxesOK
<1>3. \A c \in Copies : parts[c] \subseteq DataParts \cup RuntimeParts \cup UserParts
  BY DEF PartsHereOK, AllParts
<1>4. rows \subseteq {"a1", "a2"} /\ vaultHas \subseteq VaultAgents
  BY Zenon DEF AgentsKnownOK
<1>5. saved \subseteq 1 .. keysMade /\ keysOf \in 0 .. keysMade
  BY Zenon DEF KeysInv
<1>6. un.step \in {"idle", "asking", "acting", "done"}
  BY DEF UninstallerOK
<1>7. UNION {unNotes, silent, moved} \subseteq RemovalSteps /\ {asRoot, consented} \subseteq BOOLEAN
  BY Zenon DEF UnNotesOK
<1>8. unCommands \in 0 .. MaxUnCommands /\ unFaults \in 0 .. MaxUnFaults
  BY Zenon DEF UnTriesOK
<1> QED
  BY <1>1, <1>2, <1>3, <1>4, <1>5, <1>6, <1>7, <1>8, Zenon DEF UnTypeOK

LEMMA UnInvIsSafe == UnInv => UninstallSafety
<1> SUFFICES ASSUME UnInv PROVE UninstallSafety
  OBVIOUS
<1> USE DEF UnInv
<1>1. KeysKept /\ OthersKept
  BY Zenon DEF KeysInv, OthersInv
<1>2. un.step = "done" => un.plan = {}
  BY DEF UninstallerOK
<1>3. NothingRuns
  BY <1>2 DEF StoppedInv, NothingRuns
<1>4. WhatIsFoundIsGone
  BY <1>2 DEF GoneInv, WhatIsFoundIsGone
<1> QED
  BY <1>1, <1>3, <1>4 DEF UninstallSafety

-----------------------------------------------------------------------------
(* The uninstaller's own steps.                                              *)

\* The order of the plan: what is next is in it, and the unit comes before the containers.
LEMMA OrderIs ==
  /\ RemovalOrder \in [1 .. 15 -> RemovalSteps] /\ Len(RemovalOrder) = 15
  /\ \A x \in RemovalSteps : \E i \in 1 .. 15 : RemovalOrder[i] = x
  /\ \A i \in 1 .. 15 : RemovalOrder[i] = "rm-containers" => i = 4
  /\ \A i \in 1 .. 15 : RemovalOrder[i] = "unload" => i = 1
<1>1. Len(RemovalOrder) = 15
  BY DEF RemovalOrder
<1>2. \A i \in 1 .. 15 : RemovalOrder[i] = "rm-containers" => i = 4
  BY DEF RemovalOrder
<1>5. \A i \in 1 .. 15 : RemovalOrder[i] = "unload" => i = 1
  BY DEF RemovalOrder
<1>3. RemovalOrder \in [1 .. 15 -> RemovalSteps]
  <2>1. RemovalOrder = [i \in 1 .. 15 |-> RemovalOrder[i]]
    BY DEF RemovalOrder
  <2> QED
    BY <1>1, <2>1 DEF RemovalSteps
<1>4. \A x \in RemovalSteps : \E i \in 1 .. 15 : RemovalOrder[i] = x
  BY <1>1 DEF RemovalSteps
<1> QED
  BY <1>1, <1>2, <1>3, <1>4, <1>5

LEMMA PlaceIs == \A x \in RemovalSteps : Place[x] \in 1 .. 15 /\ RemovalOrder[Place[x]] = x
<1>1. ASSUME NEW x \in RemovalSteps PROVE Place[x] \in 1 .. 15 /\ RemovalOrder[Place[x]] = x
  <2>1. Place[x] = CHOOSE i \in 1 .. 15 : RemovalOrder[i] = x
    BY OrderIs DEF Place
  <2>2. \E i \in 1 .. 15 : RemovalOrder[i] = x
    BY OrderIs
  <2> QED
    BY <2>1, <2>2, Zenon
<1> QED
  BY <1>1

LEMMA RemovalStepsAre ==
  RemovalSteps = {"unload", "kill-pid", "pkill-host", "rm-containers", "rmi", "ncl", "a1", "a2", "b1", "env",
                  "data", "pid", "groups", "dist", "node_modules"}
BY DEF RemovalSteps, RemovalOrder

LEMMA NextIs ==
  ASSUME un.plan \subseteq RemovalSteps, un.plan # {}
  PROVE  /\ NextRemoval \in un.plan
         /\ NextRemoval = "rm-containers" => "unload" \notin un.plan
<1> DEFINE R == {ss \in Nat \X Nat : ss[1] < ss[2]}
           T == {Place[x] : x \in un.plan}
<1>1. IsWellFoundedOn(R, Nat)
  BY NatLessThanWellFounded DEF OpToRel
<1>2. T \subseteq Nat /\ T # {}
  BY PlaceIs
<1>3. PICK i \in T : \A j \in T : ~(<<j, i>> \in R)
  <2> HIDE DEF R, T
  <2> QED BY <1>1, <1>2, WFMin
<1>4. PICK x \in un.plan : Place[x] = i
  OBVIOUS
<1>5. IsNext(x)
  <2>1. ASSUME NEW y \in un.plan PROVE Place[x] <= Place[y]
    <3>1. Place[y] \in T /\ Place[y] \in Nat /\ Place[x] \in Nat
      BY PlaceIs
    <3>2. ~(<<Place[y], Place[x]>> \in R)
      BY <1>3, <1>4, <3>1
    <3> QED
      BY <3>1, <3>2
  <2> QED
    BY <2>1 DEF IsNext
<1>6. NextRemoval \in un.plan /\ IsNext(NextRemoval)
  BY <1>5, Zenon DEF NextRemoval
<1>7. ASSUME NextRemoval = "rm-containers", "unload" \in un.plan PROVE FALSE
  <2>1. Place["unload"] \in 1 .. 15 /\ RemovalOrder[Place["unload"]] = "unload"
    BY <1>7, PlaceIs
  <2>2. Place["rm-containers"] = 4
    BY <1>6, <1>7, PlaceIs, OrderIs
  <2>3. Place["unload"] = 1
    BY <2>1, OrderIs
  <2>4. Place["rm-containers"] <= Place["unload"]
    BY <1>6, <1>7 DEF IsNext
  <2> QED
    BY <2>2, <2>3, <2>4
<1> QED
  BY <1>6, <1>7

\* What becomes of the uninstaller.
AskedNothing == /\ un'.step = "idle" /\ un'.plan = {} /\ un'.inv.unit = FALSE /\ un'.inv.kept = {}
                /\ un'.inv.mine = {} /\ UninstallerOK'
LEMMA QuietIs == ASSUME un' = UnQuiet("idle") PROVE AskedNothing
<1>1. NothingFound \in Inventories
  BY DEF NothingFound, Inventories
<1>2. /\ un'.step = "idle" /\ un'.plan = {} /\ un'.inv = NothingFound
      /\ un' = [step |-> "idle", yes |-> FALSE, inv |-> NothingFound, plan |-> {}, service |-> FALSE]
  BY DEF UnQuiet
<1>3. NothingFound.unit = FALSE /\ NothingFound.kept = {} /\ NothingFound.mine = {}
  BY DEF NothingFound
<1> HIDE DEF NothingFound
<1>4. /\ un' \in [step : {"idle", "asking", "acting", "done"}, yes : BOOLEAN, inv : Inventories,
                 plan : SUBSET RemovalSteps, service : BOOLEAN]
      /\ un'.step \notin {"acting", "done"}
  <2>1. PICK no \in BOOLEAN : ~no /\ un' = [step |-> "idle", yes |-> no, inv |-> NothingFound, plan |-> {}, service |-> no]
    BY <1>2, Zenon
  <2> QED
    BY <1>1, <1>2, <2>1
<1>5. UninstallerOK'
  BY <1>4, <1>2 DEF UninstallerOK
<1> QED
  BY <1>2, <1>3, <1>5 DEF AskedNothing

Scanned == /\ un'.step = "asking" /\ un'.plan = {} /\ un'.inv.unit = (unitOf["here"] # "none")
           /\ un'.inv.kept = parts["here"] /\ un'.inv.mine \subseteq rows /\ UninstallerOK'
LEMMA ScanIs ==
  ASSUME BoxesOK, PartsHereOK, AgentsKnownOK, NEW yes \in BOOLEAN, NEW root \in BOOLEAN, ScanInstall(yes, root)
  PROVE  Scanned
<1>1. PICK docker \in BOOLEAN, listed \in SUBSET vaultHas, known \in SUBSET rows :
        un' = [step |-> "asking", yes |-> yes, plan |-> {}, service |-> FALSE, inv |-> Inventory(docker, listed, known)]
  <2>1. PICK broken \in {"nothing", "docker", "vault", "rows"} :
          un' = [step |-> "asking", yes |-> yes, plan |-> {}, service |-> FALSE,
                 inv |-> Inventory(broken # "docker", ListVaultAgents(broken # "vault"), ReadAgentGroupIds(broken # "rows"))]
    BY DEF ScanInstall
  <2>2. ListVaultAgents(broken # "vault") \in SUBSET vaultHas /\ ReadAgentGroupIds(broken # "rows") \in SUBSET rows
    BY DEF ListVaultAgents, ReadAgentGroupIds
  <2>3. (broken # "docker") \in BOOLEAN
    OBVIOUS
  <2> QED
    BY <2>1, <2>2, <2>3
<1> DEFINE i == Inventory(docker, listed, known)
<1>2. /\ i.unit = (unitOf["here"] # "none") /\ i.kept = parts["here"] /\ i.mine = listed \cap known
      /\ i = [unit |-> i.unit, boxes |-> i.boxes, image |-> i.image, ncl |-> i.ncl, kept |-> i.kept,
              mine |-> i.mine, orphans |-> i.orphans]
      /\ i.orphans = listed \ known
  BY DEF Inventory
<1>3. i.unit \in BOOLEAN /\ i.boxes \in BOOLEAN /\ i.image \in BOOLEAN /\ i.ncl \in BOOLEAN
  BY Zenon DEF Inventory, BoxesOK
<1> HIDE DEF i
<1>4. i.kept \in SUBSET AllParts
  BY <1>2 DEF PartsHereOK, Copies
<1>5. i.mine \in SUBSET {"a1", "a2"} /\ i.orphans \in SUBSET VaultAgents /\ i.mine \subseteq rows
  BY <1>2 DEF AgentsKnownOK
<1>6. i \in Inventories
  BY <1>2, <1>3, <1>4, <1>5, Zenon DEF Inventories
<1>7. un' = [step |-> "asking", yes |-> yes, plan |-> {}, service |-> FALSE, inv |-> i]
  BY <1>1 DEF i
<1>8. UninstallerOK'
  BY <1>6, <1>7 DEF UninstallerOK
<1> QED
  BY <1>2, <1>5, <1>7, <1>8 DEF Scanned

Decided ==
  /\ un.step = "asking" /\ un'.step \in {"acting", "done"} /\ un'.inv = un.inv /\ un'.yes = un.yes /\ UninstallerOK'
  /\ "env" \in un'.plan => "env" \in un.inv.kept
  /\ "b1" \in un'.plan => consented'
  /\ un.yes => un.inv.kept \cup un.inv.mine \subseteq un'.plan
  /\ un'.service /\ un.inv.unit => {"unload", "rm-containers"} \subseteq un'.plan
  /\ consented' \in BOOLEAN /\ (consented => consented')
LEMMA DecideIs == ASSUME UninstallerOK, UnNotesOK, DecideRemoval PROVE Decided
<1>1. PICK service \in BOOLEAN, data \in BOOLEAN, user \in BOOLEAN, ours \in BOOLEAN, orphans \in BOOLEAN :
        LET given == OnecliDeletions(un.inv, un.yes, ours, orphans)
            plan == RemovalsOf(un.inv, service, data, user, given) IN
          /\ service => ServiceRows(un.inv)
          /\ un.yes => (service = ServiceRows(un.inv)) /\ data /\ user
          /\ un' = [un EXCEPT !.step = IF plan = {} THEN "done" ELSE "acting", !.plan = plan,
                              !.service = service]
          /\ consented' = (consented \/ given \cap un.inv.orphans # {})
  BY Zenon DEF DecideRemoval
<1> DEFINE given == OnecliDeletions(un.inv, un.yes, ours, orphans)
           plan == RemovalsOf(un.inv, service, data, user, given)
           i == un.inv
<1>2. i \in Inventories /\ un.yes \in BOOLEAN
  BY DEF UninstallerOK
<1>3. i.kept \in SUBSET AllParts /\ i.mine \in SUBSET {"a1", "a2"} /\ i.orphans \in SUBSET VaultAgents
  BY <1>2 DEF Inventories
<1>4. given \subseteq i.mine \cup i.orphans /\ (un.yes => given = i.mine)
  BY DEF OnecliDeletions
<1>5. consented' = (consented \/ given \cap i.orphans # {})
  BY <1>1
<1>6. /\ un' = [un EXCEPT !.step = IF plan = {} THEN "done" ELSE "acting", !.plan = plan, !.service = service]
      /\ un.yes => data /\ user
  BY <1>1
<1> HIDE DEF given, i
<1>7. /\ service /\ i.unit => {"unload", "rm-containers"} \subseteq plan
      /\ data /\ user => i.kept \subseteq plan
      /\ given \subseteq plan
      /\ plan \subseteq {"pkill-host", "rm-containers", "unload", "kill-pid", "rmi", "ncl"} \cup i.kept \cup given
  <2>1. plan = RemovalsOf(i, service, data, user, given)
    BY DEF i
  <2> HIDE DEF plan
  <2> QED
    BY <1>3, <2>1 DEF RemovalsOf, AllParts, DataParts, RuntimeParts, UserParts
<1> HIDE DEF plan
<1>8. plan \in SUBSET RemovalSteps
  <2>1. i.kept \cup given \cup {"pkill-host", "rm-containers", "unload", "kill-pid", "rmi", "ncl"} \subseteq RemovalSteps
    BY <1>3, <1>4, RemovalStepsAre DEF AllParts, DataParts, RuntimeParts, UserParts, VaultAgents
  <2> QED
    BY <1>7, <2>1
<1>9. un.step = "asking"
  BY DEF DecideRemoval
<1>10. /\ un'.step = IF plan = {} THEN "done" ELSE "acting"
       /\ un'.plan = plan /\ un'.service = service /\ un'.inv = un.inv /\ un'.yes = un.yes
       /\ un' = [step |-> IF plan = {} THEN "done" ELSE "acting", yes |-> un.yes, inv |-> un.inv, plan |-> plan, service |-> service]
  BY <1>6 DEF UninstallerOK
<1>11. UninstallerOK'
  <2>1. un' \in [step : {"idle", "asking", "acting", "done"}, yes : BOOLEAN, inv : Inventories,
                 plan : SUBSET RemovalSteps, service : BOOLEAN]
    BY <1>2, <1>8, <1>10 DEF i
  <2> QED
    BY <1>10, <2>1 DEF UninstallerOK
<1>12. "env" \in plan => "env" \in i.kept
  BY <1>3, <1>4, <1>7 DEF VaultAgents
<1>13. "b1" \in plan => consented'
  BY <1>3, <1>4, <1>5, <1>7 DEF AllParts, DataParts, RuntimeParts, UserParts
<1>14. un.yes => i.kept \cup i.mine \subseteq plan
  BY <1>4, <1>6, <1>7
<1>15. consented' \in BOOLEAN /\ (consented => consented')
  BY <1>5, Zenon
<1> QED
  BY <1>7, <1>9, <1>10, <1>11, <1>12, <1>13, <1>14, <1>15 DEF Decided, i

Advanced ==
  /\ un.step = "acting" /\ un'.step \in {"acting", "done"} /\ un'.inv = un.inv /\ un'.yes = un.yes
  /\ un'.service = un.service /\ UninstallerOK'
  /\ NextRemoval \in un.plan /\ NextRemoval \in RemovalSteps /\ un'.plan = un.plan \ {NextRemoval}
  /\ NextRemoval = "rm-containers" => "unload" \notin un.plan
LEMMA AdvanceIs == ASSUME UninstallerOK, un.step = "acting", Advances(NextRemoval) PROVE Advanced
<1>1. un.plan \subseteq RemovalSteps /\ un.plan # {}
  BY DEF UninstallerOK
<1>2. /\ NextRemoval \in un.plan
      /\ NextRemoval = "rm-containers" => "unload" \notin un.plan
  BY <1>1, NextIs
<1> DEFINE stage == IF un.plan = {NextRemoval} THEN "done" ELSE un.step
           plan == un.plan \ {NextRemoval}
<1>3. un' = [un EXCEPT !.plan = plan, !.step = stage]
  BY DEF Advances
<1>4. stage \in {"acting", "done"} /\ (stage = "done" <=> plan = {})
  BY <1>2
<1>5. plan \in SUBSET RemovalSteps
  BY <1>1
<1> HIDE DEF stage, plan
<1>6. un'.step = stage /\ un'.plan = plan /\ un'.inv = un.inv /\ un'.yes = un.yes /\ un'.service = un.service
  BY <1>3 DEF UninstallerOK
<1>7. UninstallerOK'
  <2>1. un' \in [step : {"idle", "asking", "acting", "done"}, yes : BOOLEAN, inv : Inventories,
                 plan : SUBSET RemovalSteps, service : BOOLEAN]
    BY <1>3, <1>4, <1>5 DEF UninstallerOK
  <2> QED
    BY <1>4, <1>6, <2>1 DEF UninstallerOK
<1> QED
  BY <1>1, <1>2, <1>4, <1>6, <1>7 DEF Advanced, plan

LEMMA CopiesStep ==
  ASSUME CopiesOK, [NextUninstall]_unVars
  PROVE  CopiesOK'
<1> USE DEF CopiesOK, Copies
<1>1. ASSUME HostSpawns PROVE CopiesOK'
  BY <1>1 DEF HostSpawns, UnFault, UnCommand, machine, disks, unState, CopiesOK
<1>2. ASSUME HostMakesAgent PROVE CopiesOK'
  BY <1>2 DEF HostMakesAgent, UnFault, UnCommand, machine, disks, unState, CopiesOK
<1>3. ASSUME BoxEnds PROVE CopiesOK'
  BY <1>3 DEF BoxEnds, UnFault, UnCommand, machine, disks, unState, CopiesOK
<1>4. ASSUME HostEnds PROVE CopiesOK'
  BY <1>4 DEF HostEnds, UnFault, UnCommand, machine, disks, unState, CopiesOK
<1>5. ASSUME UnitRestarts PROVE CopiesOK'
  BY <1>5 DEF UnitRestarts, UnFault, UnCommand, machine, disks, unState, CopiesOK
<1>6. ASSUME StartByHand PROVE CopiesOK'
  BY <1>6 DEF StartByHand, UnFault, UnCommand, machine, disks, unState, CopiesOK
<1>7. ASSUME NEW c \in Copies, SetUpCopy(c) PROVE CopiesOK'
  <2>1. PICK reaped, disabled \in SUBSET Copies : CleanUpPeers(c, reaped, disabled)
    BY <1>7 DEF SetUpCopy
  <2>2. flavor' = flavor
    BY <1>7 DEF SetUpCopy
  <2>3. UnitMade(c) \in {"none", "on"} /\ (UnitMade(c) # "none" => flavor[c] # "nohup")
    BY DEF UnitMade
  <2>4. unitOf' \in [Copies -> {"none", "on", "off"}] /\ hostOf' \in [Copies -> {"up", "stopping", "down"}]
    BY <2>1, <2>3 DEF CleanUpPeers
  <2>5. unitOf'["here"] # "none" => flavor["here"] # "nohup"
    <3>1. \A p \in disabled : flavor[p] = "user"
      BY <2>1 DEF CleanUpPeers, Peers
    <3> QED
      BY <2>1, <2>3, <3>1 DEF CleanUpPeers
  <2> QED
    BY <2>2, <2>4, <2>5
<1>8. ASSUME DeleteFolder PROVE CopiesOK'
  BY <1>8 DEF DeleteFolder, UnFault, UnCommand, machine, disks, unState, CopiesOK
<1>9. ASSUME NEW yes \in BOOLEAN, NEW root \in BOOLEAN, ScanInstall(yes, root) PROVE CopiesOK'
  BY <1>9 DEF ScanInstall, UnFault, UnCommand, machine, disks, unState, CopiesOK
<1>10. ASSUME DecideRemoval PROVE CopiesOK'
  BY <1>10 DEF DecideRemoval, UnFault, UnCommand, machine, disks, unState, CopiesOK
<1>11. ASSUME CancelUninstall PROVE CopiesOK'
  BY <1>11 DEF CancelUninstall, UnFault, UnCommand, machine, disks, unState, CopiesOK
<1>12. ASSUME UninstallerDies PROVE CopiesOK'
  BY <1>12 DEF UninstallerDies, UnFault, UnCommand, machine, disks, unState, CopiesOK
<1>13. ASSUME RunAction PROVE CopiesOK'
  BY <1>13 DEF RunAction, UnFault, UnCommand, machine, disks, unState, Noted, Unload, SignalHost,
     RemoveContainers, RemoveImage, RemoveLink, DeleteVaultAgent, BackupEnv, DeletePath, CopiesOK
<1>14. ASSUME ActionFails PROVE CopiesOK'
  BY <1>14 DEF ActionFails, UnFault, UnCommand, machine, disks, unState, Noted, CopiesOK
<1>15. ASSUME CommandFails PROVE CopiesOK'
  BY <1>15 DEF CommandFails, UnFault, UnCommand, machine, disks, unState, CopiesOK
<1>16. CASE UNCHANGED unVars
  BY <1>16 DEF unVars, CopiesOK
<1> QED
  BY <1>1, <1>2, <1>3, <1>4, <1>5, <1>6, <1>7, <1>8, <1>9, <1>10, <1>11, <1>12, <1>13, <1>14, <1>15,
     <1>16 DEF NextUninstall

LEMMA BoxesStep ==
  ASSUME BoxesOK, [NextUninstall]_unVars
  PROVE  BoxesOK'
<1> USE DEF BoxesOK, Copies
<1>1. ASSUME HostSpawns PROVE BoxesOK'
  BY <1>1 DEF HostSpawns, UnFault, UnCommand, machine, disks, unState, BoxesOK
<1>2. ASSUME HostMakesAgent PROVE BoxesOK'
  BY <1>2 DEF HostMakesAgent, UnFault, UnCommand, machine, disks, unState, BoxesOK
<1>3. ASSUME BoxEnds PROVE BoxesOK'
  BY <1>3 DEF BoxEnds, UnFault, UnCommand, machine, disks, unState, BoxesOK
<1>4. ASSUME HostEnds PROVE BoxesOK'
  BY <1>4 DEF HostEnds, UnFault, UnCommand, machine, disks, unState, BoxesOK
<1>5. ASSUME UnitRestarts PROVE BoxesOK'
  BY <1>5 DEF UnitRestarts, UnFault, UnCommand, machine, disks, unState, BoxesOK
<1>6. ASSUME StartByHand PROVE BoxesOK'
  BY <1>6 DEF StartByHand, UnFault, UnCommand, machine, disks, unState, BoxesOK
<1>7. ASSUME NEW c \in Copies, SetUpCopy(c) PROVE BoxesOK'
  BY <1>7 DEF SetUpCopy, UnFault, UnCommand, machine, disks, unState, BoxesOK
<1>8. ASSUME DeleteFolder PROVE BoxesOK'
  BY <1>8 DEF DeleteFolder, UnFault, UnCommand, machine, disks, unState, BoxesOK
<1>9. ASSUME NEW yes \in BOOLEAN, NEW root \in BOOLEAN, ScanInstall(yes, root) PROVE BoxesOK'
  BY <1>9 DEF ScanInstall, UnFault, UnCommand, machine, disks, unState, BoxesOK
<1>10. ASSUME DecideRemoval PROVE BoxesOK'
  BY <1>10 DEF DecideRemoval, UnFault, UnCommand, machine, disks, unState, BoxesOK
<1>11. ASSUME CancelUninstall PROVE BoxesOK'
  BY <1>11 DEF CancelUninstall, UnFault, UnCommand, machine, disks, unState, BoxesOK
<1>12. ASSUME UninstallerDies PROVE BoxesOK'
  BY <1>12 DEF UninstallerDies, UnFault, UnCommand, machine, disks, unState, BoxesOK
<1>13. ASSUME RunAction PROVE BoxesOK'
  BY <1>13 DEF RunAction, UnFault, UnCommand, machine, disks, unState, Noted, Unload, SignalHost,
     RemoveContainers, RemoveImage, RemoveLink, DeleteVaultAgent, BackupEnv, DeletePath, BoxesOK
<1>14. ASSUME ActionFails PROVE BoxesOK'
  BY <1>14 DEF ActionFails, UnFault, UnCommand, machine, disks, unState, Noted, BoxesOK
<1>15. ASSUME CommandFails PROVE BoxesOK'
  BY <1>15 DEF CommandFails, UnFault, UnCommand, machine, disks, unState, BoxesOK
<1>16. CASE UNCHANGED unVars
  BY <1>16 DEF unVars, BoxesOK
<1> QED
  BY <1>1, <1>2, <1>3, <1>4, <1>5, <1>6, <1>7, <1>8, <1>9, <1>10, <1>11, <1>12, <1>13, <1>14, <1>15,
     <1>16 DEF NextUninstall

LEMMA PartsHereStep ==
  ASSUME PartsHereOK, [NextUninstall]_unVars
  PROVE  PartsHereOK'
<1> USE DEF PartsHereOK, Copies, AllParts, DataParts, RuntimeParts, UserParts, InstalledParts
<1>1. ASSUME HostSpawns PROVE PartsHereOK'
  BY <1>1 DEF HostSpawns, UnFault, UnCommand, machine, disks, unState, PartsHereOK
<1>2. ASSUME HostMakesAgent PROVE PartsHereOK'
  BY <1>2 DEF HostMakesAgent, UnFault, UnCommand, machine, disks, unState, PartsHereOK
<1>3. ASSUME BoxEnds PROVE PartsHereOK'
  BY <1>3 DEF BoxEnds, UnFault, UnCommand, machine, disks, unState, PartsHereOK
<1>4. ASSUME HostEnds PROVE PartsHereOK'
  BY <1>4 DEF HostEnds, UnFault, UnCommand, machine, disks, unState, PartsHereOK
<1>5. ASSUME UnitRestarts PROVE PartsHereOK'
  BY <1>5 DEF UnitRestarts, UnFault, UnCommand, machine, disks, unState, PartsHereOK
<1>6. ASSUME StartByHand PROVE PartsHereOK'
  BY <1>6 DEF StartByHand, UnFault, UnCommand, machine, disks, unState, PartsHereOK
<1>7. ASSUME NEW c \in Copies, SetUpCopy(c) PROVE PartsHereOK'
  BY <1>7 DEF SetUpCopy, UnFault, UnCommand, machine, disks, unState, PartsHereOK
<1>8. ASSUME DeleteFolder PROVE PartsHereOK'
  BY <1>8 DEF DeleteFolder, UnFault, UnCommand, machine, disks, unState, PartsHereOK
<1>9. ASSUME NEW yes \in BOOLEAN, NEW root \in BOOLEAN, ScanInstall(yes, root) PROVE PartsHereOK'
  BY <1>9 DEF ScanInstall, UnFault, UnCommand, machine, disks, unState, PartsHereOK
<1>10. ASSUME DecideRemoval PROVE PartsHereOK'
  BY <1>10 DEF DecideRemoval, UnFault, UnCommand, machine, disks, unState, PartsHereOK
<1>11. ASSUME CancelUninstall PROVE PartsHereOK'
  BY <1>11 DEF CancelUninstall, UnFault, UnCommand, machine, disks, unState, PartsHereOK
<1>12. ASSUME UninstallerDies PROVE PartsHereOK'
  BY <1>12 DEF UninstallerDies, UnFault, UnCommand, machine, disks, unState, PartsHereOK
<1>13. ASSUME RunAction PROVE PartsHereOK'
  BY <1>13 DEF RunAction, UnFault, UnCommand, machine, disks, unState, Noted, Unload, SignalHost,
     RemoveContainers, RemoveImage, RemoveLink, DeleteVaultAgent, BackupEnv, DeletePath, PartsHereOK
<1>14. ASSUME ActionFails PROVE PartsHereOK'
  BY <1>14 DEF ActionFails, UnFault, UnCommand, machine, disks, unState, Noted, PartsHereOK
<1>15. ASSUME CommandFails PROVE PartsHereOK'
  BY <1>15 DEF CommandFails, UnFault, UnCommand, machine, disks, unState, PartsHereOK
<1>16. CASE UNCHANGED unVars
  BY <1>16 DEF unVars, PartsHereOK
<1> QED
  BY <1>1, <1>2, <1>3, <1>4, <1>5, <1>6, <1>7, <1>8, <1>9, <1>10, <1>11, <1>12, <1>13, <1>14, <1>15,
     <1>16 DEF NextUninstall

LEMMA AgentsStep ==
  ASSUME AgentsKnownOK, [NextUninstall]_unVars
  PROVE  AgentsKnownOK'
<1> USE DEF AgentsKnownOK, VaultAgents
<1>1. ASSUME HostSpawns PROVE AgentsKnownOK'
  BY <1>1 DEF HostSpawns, UnFault, UnCommand, machine, disks, unState, AgentsKnownOK
<1>2. ASSUME HostMakesAgent PROVE AgentsKnownOK'
  BY <1>2 DEF HostMakesAgent, UnFault, UnCommand, machine, disks, unState, AgentsKnownOK
<1>3. ASSUME BoxEnds PROVE AgentsKnownOK'
  BY <1>3 DEF BoxEnds, UnFault, UnCommand, machine, disks, unState, AgentsKnownOK
<1>4. ASSUME HostEnds PROVE AgentsKnownOK'
  BY <1>4 DEF HostEnds, UnFault, UnCommand, machine, disks, unState, AgentsKnownOK
<1>5. ASSUME UnitRestarts PROVE AgentsKnownOK'
  BY <1>5 DEF UnitRestarts, UnFault, UnCommand, machine, disks, unState, AgentsKnownOK
<1>6. ASSUME StartByHand PROVE AgentsKnownOK'
  BY <1>6 DEF StartByHand, UnFault, UnCommand, machine, disks, unState, AgentsKnownOK
<1>7. ASSUME NEW c \in Copies, SetUpCopy(c) PROVE AgentsKnownOK'
  BY <1>7 DEF SetUpCopy, UnFault, UnCommand, machine, disks, unState, AgentsKnownOK
<1>8. ASSUME DeleteFolder PROVE AgentsKnownOK'
  BY <1>8 DEF DeleteFolder, UnFault, UnCommand, machine, disks, unState, AgentsKnownOK
<1>9. ASSUME NEW yes \in BOOLEAN, NEW root \in BOOLEAN, ScanInstall(yes, root) PROVE AgentsKnownOK'
  BY <1>9 DEF ScanInstall, UnFault, UnCommand, machine, disks, unState, AgentsKnownOK
<1>10. ASSUME DecideRemoval PROVE AgentsKnownOK'
  BY <1>10 DEF DecideRemoval, UnFault, UnCommand, machine, disks, unState, AgentsKnownOK
<1>11. ASSUME CancelUninstall PROVE AgentsKnownOK'
  BY <1>11 DEF CancelUninstall, UnFault, UnCommand, machine, disks, unState, AgentsKnownOK
<1>12. ASSUME UninstallerDies PROVE AgentsKnownOK'
  BY <1>12 DEF UninstallerDies, UnFault, UnCommand, machine, disks, unState, AgentsKnownOK
<1>13. ASSUME RunAction PROVE AgentsKnownOK'
  BY <1>13 DEF RunAction, UnFault, UnCommand, machine, disks, unState, Noted, Unload, SignalHost,
     RemoveContainers, RemoveImage, RemoveLink, DeleteVaultAgent, BackupEnv, DeletePath,
     AgentsKnownOK
<1>14. ASSUME ActionFails PROVE AgentsKnownOK'
  BY <1>14 DEF ActionFails, UnFault, UnCommand, machine, disks, unState, Noted, AgentsKnownOK
<1>15. ASSUME CommandFails PROVE AgentsKnownOK'
  BY <1>15 DEF CommandFails, UnFault, UnCommand, machine, disks, unState, AgentsKnownOK
<1>16. CASE UNCHANGED unVars
  BY <1>16 DEF unVars, AgentsKnownOK
<1> QED
  BY <1>1, <1>2, <1>3, <1>4, <1>5, <1>6, <1>7, <1>8, <1>9, <1>10, <1>11, <1>12, <1>13, <1>14, <1>15,
     <1>16 DEF NextUninstall

LEMMA UninstallerStep ==
  ASSUME UninstallerOK, BoxesOK, PartsHereOK, AgentsKnownOK, UnNotesOK, [NextUninstall]_unVars
  PROVE  UninstallerOK'
<1>1. ASSUME HostSpawns PROVE UninstallerOK'
  <2>1. un' = un
    BY <1>1 DEF HostSpawns, unState
  <2> QED
    BY <2>1, Zenon DEF UninstallerOK
<1>2. ASSUME HostMakesAgent PROVE UninstallerOK'
  <2>1. un' = un
    BY <1>2 DEF HostMakesAgent, unState
  <2> QED
    BY <2>1, Zenon DEF UninstallerOK
<1>3. ASSUME BoxEnds PROVE UninstallerOK'
  <2>1. un' = un
    BY <1>3 DEF BoxEnds, unState
  <2> QED
    BY <2>1, Zenon DEF UninstallerOK
<1>4. ASSUME HostEnds PROVE UninstallerOK'
  <2>1. un' = un
    BY <1>4 DEF HostEnds, unState
  <2> QED
    BY <2>1, Zenon DEF UninstallerOK
<1>5. ASSUME UnitRestarts PROVE UninstallerOK'
  <2>1. un' = un
    BY <1>5 DEF UnitRestarts, unState
  <2> QED
    BY <2>1, Zenon DEF UninstallerOK
<1>6. ASSUME StartByHand PROVE UninstallerOK'
  <2>1. un' = un
    BY <1>6 DEF StartByHand, unState
  <2> QED
    BY <2>1, Zenon DEF UninstallerOK
<1>7. ASSUME NEW c \in Copies, SetUpCopy(c) PROVE UninstallerOK'
  <2>1. un' = un \/ un' = UnQuiet("idle")
    BY <1>7 DEF SetUpCopy
  <2>2. CASE un' = un
    BY <2>2, Zenon DEF UninstallerOK
  <2> QED
    BY <2>1, <2>2, QuietIs DEF AskedNothing
<1>8. ASSUME DeleteFolder PROVE UninstallerOK'
  <2>1. un' = un
    BY <1>8 DEF DeleteFolder, unState
  <2> QED
    BY <2>1, Zenon DEF UninstallerOK
<1>9. ASSUME NEW yes \in BOOLEAN, NEW root \in BOOLEAN, ScanInstall(yes, root) PROVE UninstallerOK'
  BY <1>9, ScanIs DEF Scanned
<1>10. ASSUME DecideRemoval PROVE UninstallerOK'
  BY <1>10, DecideIs DEF Decided
<1>11. ASSUME CancelUninstall PROVE UninstallerOK'
  BY <1>11, QuietIs DEF CancelUninstall, AskedNothing
<1>12. ASSUME UninstallerDies PROVE UninstallerOK'
  BY <1>12, QuietIs DEF UninstallerDies, AskedNothing
<1>13. ASSUME RunAction PROVE UninstallerOK'
  BY <1>13, AdvanceIs DEF RunAction, Advanced
<1>14. ASSUME ActionFails PROVE UninstallerOK'
  BY <1>14, AdvanceIs DEF ActionFails, Advanced
<1>15. ASSUME CommandFails PROVE UninstallerOK'
  BY <1>15, AdvanceIs DEF CommandFails, Advanced
<1>16. CASE UNCHANGED unVars
  BY <1>16 DEF unVars, UninstallerOK
<1> QED
  BY <1>1, <1>2, <1>3, <1>4, <1>5, <1>6, <1>7, <1>8, <1>9, <1>10, <1>11, <1>12, <1>13, <1>14, <1>15,
     <1>16 DEF NextUninstall

LEMMA UnNotesStep ==
  ASSUME UnNotesOK, UninstallerOK, AgentsKnownOK, [NextUninstall]_unVars
  PROVE  UnNotesOK'
<1>1. ASSUME HostSpawns PROVE UnNotesOK'
  <2>1. vaultHas' \subseteq VaultAgents
    BY <1>1 DEF HostSpawns, AgentsKnownOK, VaultAgents
  <2>2. moved' \subseteq moved \cup {"data", "groups"} \cup VaultAgents /\ UNCHANGED <<unNotes, silent, asRoot, consented>>
    BY <1>1, <2>1 DEF HostSpawns, unState
  <2>3. {"data", "groups"} \cup VaultAgents \subseteq RemovalSteps
    BY RemovalStepsAre DEF VaultAgents
  <2> QED
    BY <2>2, <2>3, Zenon DEF UnNotesOK
<1>2. ASSUME HostMakesAgent PROVE UnNotesOK'
  BY <1>2 DEF HostMakesAgent, UnFault, UnCommand, machine, disks, unState, UnNotesOK
<1>3. ASSUME BoxEnds PROVE UnNotesOK'
  BY <1>3 DEF BoxEnds, UnFault, UnCommand, machine, disks, unState, UnNotesOK
<1>4. ASSUME HostEnds PROVE UnNotesOK'
  BY <1>4 DEF HostEnds, UnFault, UnCommand, machine, disks, unState, UnNotesOK
<1>5. ASSUME UnitRestarts PROVE UnNotesOK'
  BY <1>5 DEF UnitRestarts, UnFault, UnCommand, machine, disks, unState, UnNotesOK
<1>6. ASSUME StartByHand PROVE UnNotesOK'
  <2>1. moved' = moved \cup {"pid"} /\ silent' = silent /\ asRoot' = asRoot /\ consented' = consented
    BY <1>6 DEF StartByHand, unState
  <2>2. unNotes' \subseteq unNotes
    BY <1>6 DEF StartByHand, unState
  <2>3. "pid" \in RemovalSteps
    BY RemovalStepsAre
  <2> QED
    BY <2>1, <2>2, <2>3, Zenon DEF UnNotesOK
<1>7. ASSUME NEW c \in Copies, SetUpCopy(c) PROVE UnNotesOK'
  <2>1. moved' = moved \cup {"ncl"} /\ silent' = silent /\ asRoot' = asRoot /\ consented' = consented
    BY <1>7 DEF SetUpCopy, unState
  <2>2. unNotes' \subseteq unNotes
    BY <1>7 DEF SetUpCopy, unState
  <2>3. "ncl" \in RemovalSteps
    BY RemovalStepsAre
  <2> QED
    BY <2>1, <2>2, <2>3, Zenon DEF UnNotesOK
<1>8. ASSUME DeleteFolder PROVE UnNotesOK'
  BY <1>8 DEF DeleteFolder, UnFault, UnCommand, machine, disks, unState, UnNotesOK
<1>9. ASSUME NEW yes \in BOOLEAN, NEW root \in BOOLEAN, ScanInstall(yes, root) PROVE UnNotesOK'
  <2>1. unNotes' \subseteq {"rm-containers", "rmi"} /\ moved' = {} /\ silent' = {} /\ asRoot' = root /\ consented' = consented
    BY <1>9 DEF ScanInstall
  <2>2. {"rm-containers", "rmi"} \subseteq RemovalSteps
    BY RemovalStepsAre
  <2> QED
    BY <2>1, <2>2, Zenon DEF UnNotesOK
<1>10. ASSUME DecideRemoval PROVE UnNotesOK'
  <2>1. consented' \in BOOLEAN
    BY <1>10, DecideIs DEF Decided
  <2>2. UNCHANGED <<unNotes, silent, moved, asRoot>>
    BY <1>10 DEF DecideRemoval
  <2> QED
    BY <2>1, <2>2, Zenon DEF UnNotesOK
<1>11. ASSUME CancelUninstall PROVE UnNotesOK'
  BY <1>11 DEF CancelUninstall, UnFault, UnCommand, machine, disks, unState, UnNotesOK
<1>12. ASSUME UninstallerDies PROVE UnNotesOK'
  BY <1>12 DEF UninstallerDies, UnFault, UnCommand, machine, disks, unState, UnNotesOK
<1>13. ASSUME RunAction PROVE UnNotesOK'
  <2>1. NextRemoval \in RemovalSteps
    BY <1>13, AdvanceIs DEF RunAction, Advanced
  <2> QED
    BY <1>13, <2>1 DEF RunAction, UnNotesOK, UnFault, UnCommand, machine, disks, unState, Noted,
       Unload, SignalHost, RemoveContainers, RemoveImage, RemoveLink, DeleteVaultAgent, BackupEnv,
       DeletePath
<1>14. ASSUME ActionFails PROVE UnNotesOK'
  <2>1. NextRemoval \in RemovalSteps
    BY <1>14, AdvanceIs DEF ActionFails, Advanced
  <2> QED
    BY <1>14, <2>1 DEF ActionFails, UnNotesOK, UnFault, UnCommand, machine, disks, unState, Noted
<1>15. ASSUME CommandFails PROVE UnNotesOK'
  <2>1. NextRemoval \in RemovalSteps
    BY <1>15, AdvanceIs DEF CommandFails, Advanced
  <2> QED
    BY <1>15, <2>1 DEF CommandFails, UnNotesOK, UnFault, UnCommand, machine, disks, unState
<1>16. CASE UNCHANGED unVars
  BY <1>16 DEF unVars, UnNotesOK
<1> QED
  BY <1>1, <1>2, <1>3, <1>4, <1>5, <1>6, <1>7, <1>8, <1>9, <1>10, <1>11, <1>12, <1>13, <1>14, <1>15,
     <1>16 DEF NextUninstall

LEMMA UnTriesGo ==
  ASSUME UnTriesOK, unCommands' = unCommands \/ (unCommands > 0 /\ unCommands' = unCommands - 1),
         unFaults' = unFaults \/ (unFaults > 0 /\ unFaults' = unFaults - 1)
  PROVE  UnTriesOK'
<1>1. unCommands \in 0 .. MaxUnCommands /\ unFaults \in 0 .. MaxUnFaults
  BY Zenon DEF UnTriesOK
<1>2. unCommands' \in 0 .. MaxUnCommands
  BY <1>1, UnNat, OneFewer, Zenon
<1>3. unFaults' \in 0 .. MaxUnFaults
  BY <1>1, UnNat, OneFewer, Zenon
<1> QED
  BY <1>2, <1>3, Zenon DEF UnTriesOK

LEMMA UnTriesStep ==
  ASSUME UnTriesOK, [NextUninstall]_unVars
  PROVE  UnTriesOK'
<1>1. ASSUME HostSpawns PROVE UnTriesOK'
  <2>1. unCommands' = unCommands \/ (unCommands > 0 /\ unCommands' = unCommands - 1)
    BY <1>1 DEF HostSpawns, UnCommand
  <2>2. unFaults' = unFaults \/ (unFaults > 0 /\ unFaults' = unFaults - 1)
    BY <1>1 DEF HostSpawns, UnFault
  <2> QED
    BY <2>1, <2>2, UnTriesGo
<1>2. ASSUME HostMakesAgent PROVE UnTriesOK'
  <2>1. unCommands' = unCommands \/ (unCommands > 0 /\ unCommands' = unCommands - 1)
    BY <1>2 DEF HostMakesAgent, UnCommand
  <2>2. unFaults' = unFaults \/ (unFaults > 0 /\ unFaults' = unFaults - 1)
    BY <1>2 DEF HostMakesAgent, UnFault
  <2> QED
    BY <2>1, <2>2, UnTriesGo
<1>3. ASSUME BoxEnds PROVE UnTriesOK'
  <2>1. unCommands' = unCommands \/ (unCommands > 0 /\ unCommands' = unCommands - 1)
    BY <1>3 DEF BoxEnds, UnCommand
  <2>2. unFaults' = unFaults \/ (unFaults > 0 /\ unFaults' = unFaults - 1)
    BY <1>3 DEF BoxEnds, UnFault
  <2> QED
    BY <2>1, <2>2, UnTriesGo
<1>4. ASSUME HostEnds PROVE UnTriesOK'
  <2>1. unCommands' = unCommands \/ (unCommands > 0 /\ unCommands' = unCommands - 1)
    BY <1>4 DEF HostEnds, UnCommand
  <2>2. unFaults' = unFaults \/ (unFaults > 0 /\ unFaults' = unFaults - 1)
    BY <1>4 DEF HostEnds, UnFault
  <2> QED
    BY <2>1, <2>2, UnTriesGo
<1>5. ASSUME UnitRestarts PROVE UnTriesOK'
  <2>1. unCommands' = unCommands \/ (unCommands > 0 /\ unCommands' = unCommands - 1)
    BY <1>5 DEF UnitRestarts, UnCommand
  <2>2. unFaults' = unFaults \/ (unFaults > 0 /\ unFaults' = unFaults - 1)
    BY <1>5 DEF UnitRestarts, UnFault
  <2> QED
    BY <2>1, <2>2, UnTriesGo
<1>6. ASSUME StartByHand PROVE UnTriesOK'
  <2>1. unCommands' = unCommands \/ (unCommands > 0 /\ unCommands' = unCommands - 1)
    BY <1>6 DEF StartByHand, UnCommand
  <2>2. unFaults' = unFaults \/ (unFaults > 0 /\ unFaults' = unFaults - 1)
    BY <1>6 DEF StartByHand, UnFault
  <2> QED
    BY <2>1, <2>2, UnTriesGo
<1>7. ASSUME NEW c \in Copies, SetUpCopy(c) PROVE UnTriesOK'
  <2>1. unCommands' = unCommands \/ (unCommands > 0 /\ unCommands' = unCommands - 1)
    BY <1>7 DEF SetUpCopy, UnCommand
  <2>2. unFaults' = unFaults \/ (unFaults > 0 /\ unFaults' = unFaults - 1)
    BY <1>7 DEF SetUpCopy, UnFault
  <2> QED
    BY <2>1, <2>2, UnTriesGo
<1>8. ASSUME DeleteFolder PROVE UnTriesOK'
  <2>1. unCommands' = unCommands \/ (unCommands > 0 /\ unCommands' = unCommands - 1)
    BY <1>8 DEF DeleteFolder, UnCommand
  <2>2. unFaults' = unFaults \/ (unFaults > 0 /\ unFaults' = unFaults - 1)
    BY <1>8 DEF DeleteFolder, UnFault
  <2> QED
    BY <2>1, <2>2, UnTriesGo
<1>9. ASSUME NEW yes \in BOOLEAN, NEW root \in BOOLEAN, ScanInstall(yes, root) PROVE UnTriesOK'
  <2>1. unCommands' = unCommands \/ (unCommands > 0 /\ unCommands' = unCommands - 1)
    BY <1>9 DEF ScanInstall, UnCommand
  <2>2. unFaults' = unFaults \/ (unFaults > 0 /\ unFaults' = unFaults - 1)
    BY <1>9 DEF ScanInstall, UnFault
  <2> QED
    BY <2>1, <2>2, UnTriesGo
<1>10. ASSUME DecideRemoval PROVE UnTriesOK'
  <2>1. unCommands' = unCommands \/ (unCommands > 0 /\ unCommands' = unCommands - 1)
    BY <1>10 DEF DecideRemoval, UnCommand
  <2>2. unFaults' = unFaults \/ (unFaults > 0 /\ unFaults' = unFaults - 1)
    BY <1>10 DEF DecideRemoval, UnFault
  <2> QED
    BY <2>1, <2>2, UnTriesGo
<1>11. ASSUME CancelUninstall PROVE UnTriesOK'
  <2>1. unCommands' = unCommands \/ (unCommands > 0 /\ unCommands' = unCommands - 1)
    BY <1>11 DEF CancelUninstall, UnCommand
  <2>2. unFaults' = unFaults \/ (unFaults > 0 /\ unFaults' = unFaults - 1)
    BY <1>11 DEF CancelUninstall, UnFault
  <2> QED
    BY <2>1, <2>2, UnTriesGo
<1>12. ASSUME UninstallerDies PROVE UnTriesOK'
  <2>1. unCommands' = unCommands \/ (unCommands > 0 /\ unCommands' = unCommands - 1)
    BY <1>12 DEF UninstallerDies, UnCommand
  <2>2. unFaults' = unFaults \/ (unFaults > 0 /\ unFaults' = unFaults - 1)
    BY <1>12 DEF UninstallerDies, UnFault
  <2> QED
    BY <2>1, <2>2, UnTriesGo
<1>13. ASSUME RunAction PROVE UnTriesOK'
  <2>1. unCommands' = unCommands \/ (unCommands > 0 /\ unCommands' = unCommands - 1)
    BY <1>13 DEF RunAction, UnCommand
  <2>2. unFaults' = unFaults \/ (unFaults > 0 /\ unFaults' = unFaults - 1)
    BY <1>13 DEF RunAction, UnFault
  <2> QED
    BY <2>1, <2>2, UnTriesGo
<1>14. ASSUME ActionFails PROVE UnTriesOK'
  <2>1. unCommands' = unCommands \/ (unCommands > 0 /\ unCommands' = unCommands - 1)
    BY <1>14 DEF ActionFails, UnCommand
  <2>2. unFaults' = unFaults \/ (unFaults > 0 /\ unFaults' = unFaults - 1)
    BY <1>14 DEF ActionFails, UnFault
  <2> QED
    BY <2>1, <2>2, UnTriesGo
<1>15. ASSUME CommandFails PROVE UnTriesOK'
  <2>1. unCommands' = unCommands \/ (unCommands > 0 /\ unCommands' = unCommands - 1)
    BY <1>15 DEF CommandFails, UnCommand
  <2>2. unFaults' = unFaults \/ (unFaults > 0 /\ unFaults' = unFaults - 1)
    BY <1>15 DEF CommandFails, UnFault
  <2> QED
    BY <2>1, <2>2, UnTriesGo
<1>16. CASE UNCHANGED unVars
  BY <1>16 DEF unVars, UnTriesOK
<1> QED
  BY <1>1, <1>2, <1>3, <1>4, <1>5, <1>6, <1>7, <1>8, <1>9, <1>10, <1>11, <1>12, <1>13, <1>14, <1>15,
     <1>16 DEF NextUninstall

LEMMA KeysStep ==
  ASSUME KeysInv, BoxesOK, PartsHereOK, AgentsKnownOK, UninstallerOK, UnNotesOK, [NextUninstall]_unVars
  PROVE  KeysInv'
<1>1. ASSUME HostSpawns PROVE KeysInv'
  <2>1. un' = un /\ keysMade' = keysMade /\ saved' = saved /\ keysOf' = keysOf
    BY <1>1 DEF HostSpawns, unState
  <2>2. "env" \in parts'["here"] <=> "env" \in parts["here"]
    BY <1>1 DEF HostSpawns, PartsHereOK, Copies
  <2> QED
    BY <2>1, <2>2 DEF KeysInv, KeysKept
<1>2. ASSUME HostMakesAgent PROVE KeysInv'
  BY <1>2 DEF HostMakesAgent, disks, unState, KeysInv, KeysKept
<1>3. ASSUME BoxEnds PROVE KeysInv'
  BY <1>3 DEF BoxEnds, disks, unState, KeysInv, KeysKept
<1>4. ASSUME HostEnds PROVE KeysInv'
  BY <1>4 DEF HostEnds, disks, unState, KeysInv, KeysKept
<1>5. ASSUME UnitRestarts PROVE KeysInv'
  BY <1>5 DEF UnitRestarts, disks, unState, KeysInv, KeysKept
<1>6. ASSUME StartByHand PROVE KeysInv'
  <2>1. un' = un /\ keysMade' = keysMade /\ saved' = saved /\ keysOf' = keysOf
    BY <1>6 DEF StartByHand, unState
  <2>2. "env" \in parts'["here"] <=> "env" \in parts["here"]
    BY <1>6 DEF StartByHand, PartsHereOK, Copies
  <2> QED
    BY <2>1, <2>2 DEF KeysInv, KeysKept
<1>7. ASSUME NEW c \in Copies, SetUpCopy(c) PROVE KeysInv'
  <2>1. CASE c = "here"
    <3>1. AskedNothing
      BY <1>7, <2>1, QuietIs DEF SetUpCopy
    <3>2. "env" \in parts'["here"] /\ saved' = saved
      BY <1>7, <2>1 DEF SetUpCopy, PartsHereOK, Copies, InstalledParts
    <3>3. IF keysOf = 0 THEN keysOf' = keysMade + 1 /\ keysMade' = keysMade + 1
          ELSE keysOf' = keysOf /\ keysMade' = keysMade
      BY <1>7, <2>1 DEF SetUpCopy
    <3> QED
      BY <3>1, <3>2, <3>3 DEF AskedNothing, KeysInv, KeysKept
  <2>2. CASE c # "here"
    <3>1. un' = un /\ keysMade' = keysMade /\ saved' = saved /\ keysOf' = keysOf /\ parts'["here"] = parts["here"]
      BY <1>7, <2>2 DEF SetUpCopy, PartsHereOK, Copies
    <3> QED
      BY <3>1 DEF KeysInv, KeysKept
  <2> QED
    BY <2>1, <2>2
<1>8. ASSUME DeleteFolder PROVE KeysInv'
  <2>1. un' = un /\ keysMade' = keysMade /\ saved' = saved /\ keysOf' = keysOf
    BY <1>8 DEF DeleteFolder, unState
  <2>2. "env" \in parts'["here"] <=> "env" \in parts["here"]
    BY <1>8 DEF DeleteFolder, PartsHereOK, Copies
  <2> QED
    BY <2>1, <2>2 DEF KeysInv, KeysKept
<1>9. ASSUME NEW yes \in BOOLEAN, NEW root \in BOOLEAN, ScanInstall(yes, root) PROVE KeysInv'
  <2>1. UNCHANGED <<parts, keysMade, saved, keysOf>>
    BY <1>9 DEF ScanInstall, disks
  <2> QED
    BY <1>9, <2>1, ScanIs DEF Scanned, KeysInv, KeysKept
<1>10. ASSUME DecideRemoval PROVE KeysInv'
  <2>1. UNCHANGED <<parts, keysMade, saved, keysOf>>
    BY <1>10 DEF DecideRemoval, disks
  <2> QED
    BY <1>10, <2>1, DecideIs DEF Decided, KeysInv, KeysKept
<1>11. ASSUME CancelUninstall PROVE KeysInv'
  <2>1. UNCHANGED <<parts, keysMade, saved, keysOf>>
    BY <1>11 DEF CancelUninstall, disks
  <2> QED
    BY <1>11, <2>1, QuietIs DEF CancelUninstall, AskedNothing, KeysInv, KeysKept
<1>12. ASSUME UninstallerDies PROVE KeysInv'
  <2>1. UNCHANGED <<parts, keysMade, saved, keysOf>>
    BY <1>12 DEF UninstallerDies, disks
  <2> QED
    BY <1>12, <2>1, QuietIs DEF UninstallerDies, AskedNothing, KeysInv, KeysKept
<1>13. ASSUME RunAction PROVE KeysInv'
  <2>1. Advanced
    BY <1>13, AdvanceIs DEF RunAction
  <2>2. CASE NextRemoval = "env"
    <3>1. saved' = saved \cup {keysOf} /\ keysOf' = 0 /\ keysMade' = keysMade /\ "env" \notin parts'["here"]
      BY <1>13, <2>2 DEF RunAction, Unload, SignalHost, RemoveContainers, RemoveImage, RemoveLink,
         DeleteVaultAgent, BackupEnv, DeletePath, BackedUp, PartsHereOK, Copies, VaultAgents,
         DataParts, RuntimeParts, UserParts
    <3>2. keysOf # 0 /\ keysOf \in 1 .. keysMade
      BY <2>1, <2>2 DEF Advanced, KeysInv
    <3> QED
      BY <2>1, <2>2, <3>1, <3>2 DEF Advanced, KeysInv, KeysKept
  <2>3. CASE NextRemoval # "env"
    <3>1. keysMade' = keysMade /\ saved' = saved /\ keysOf' = keysOf /\ ("env" \in parts'["here"] <=> "env" \in parts["here"])
      BY <1>13, <2>3 DEF RunAction, Unload, SignalHost, RemoveContainers, RemoveImage, RemoveLink,
         DeleteVaultAgent, BackupEnv, DeletePath, disks, PartsHereOK, Copies
    <3> QED
      BY <2>1, <3>1 DEF Advanced, KeysInv, KeysKept
  <2> QED
    BY <2>2, <2>3
<1>14. ASSUME ActionFails PROVE KeysInv'
  <2>1. Advanced
    BY <1>14, AdvanceIs DEF ActionFails
  <2>2. UNCHANGED <<parts, keysMade, keysOf>>
    BY <1>14 DEF ActionFails
  <2>3. saved' = saved \/ (NextRemoval = "env" /\ saved' = saved \cup {keysOf})
    BY <1>14 DEF ActionFails, BackedUp
  <2>4. NextRemoval = "env" => keysOf \in 1 .. keysMade
    BY <2>1 DEF Advanced, KeysInv
  <2> QED
    BY <2>1, <2>2, <2>3, <2>4 DEF Advanced, KeysInv, KeysKept
<1>15. ASSUME CommandFails PROVE KeysInv'
  <2>1. Advanced
    BY <1>15, AdvanceIs DEF CommandFails
  <2>2. UNCHANGED <<parts, keysMade, keysOf, saved>>
    BY <1>15 DEF CommandFails, disks
  <2> QED
    BY <2>1, <2>2 DEF Advanced, KeysInv, KeysKept
<1>16. CASE UNCHANGED unVars
  BY <1>16 DEF unVars, KeysInv, KeysKept
<1> QED
  BY <1>1, <1>2, <1>3, <1>4, <1>5, <1>6, <1>7, <1>8, <1>9, <1>10, <1>11, <1>12, <1>13, <1>14, <1>15,
     <1>16 DEF NextUninstall

LEMMA OthersStep ==
  ASSUME OthersInv, CopiesOK, BoxesOK, PartsHereOK, AgentsKnownOK, UninstallerOK, UnNotesOK, [NextUninstall]_unVars
  PROVE  OthersInv'
<1>1. ASSUME HostSpawns PROVE OthersInv'
  <2>1. un' = un /\ consented' = consented /\ vaultHas \subseteq vaultHas'
    BY <1>1 DEF HostSpawns, unState, disks
  <2>2. unitOf' = unitOf /\ parts'["there"] = parts["there"]
    BY <1>1 DEF HostSpawns, disks, machine, PartsHereOK, Copies
  <2> QED
    BY <2>1, <2>2 DEF OthersInv, OthersKept, CanRun
<1>2. ASSUME HostMakesAgent PROVE OthersInv'
  <2>1. un' = un /\ consented' = consented /\ vaultHas \subseteq vaultHas'
    BY <1>2 DEF HostMakesAgent, unState, disks
  <2>2. unitOf' = unitOf /\ parts'["there"] = parts["there"]
    BY <1>2 DEF HostMakesAgent, disks, machine, PartsHereOK, Copies
  <2> QED
    BY <2>1, <2>2 DEF OthersInv, OthersKept, CanRun
<1>3. ASSUME BoxEnds PROVE OthersInv'
  <2>1. un' = un /\ consented' = consented /\ vaultHas \subseteq vaultHas'
    BY <1>3 DEF BoxEnds, unState, disks
  <2>2. unitOf' = unitOf /\ parts'["there"] = parts["there"]
    BY <1>3 DEF BoxEnds, disks, machine, PartsHereOK, Copies
  <2> QED
    BY <2>1, <2>2 DEF OthersInv, OthersKept, CanRun
<1>4. ASSUME HostEnds PROVE OthersInv'
  <2>1. un' = un /\ consented' = consented /\ vaultHas \subseteq vaultHas'
    BY <1>4 DEF HostEnds, unState, disks
  <2>2. unitOf' = unitOf /\ parts'["there"] = parts["there"]
    BY <1>4 DEF HostEnds, disks, machine, PartsHereOK, Copies
  <2> QED
    BY <2>1, <2>2 DEF OthersInv, OthersKept, CanRun
<1>5. ASSUME UnitRestarts PROVE OthersInv'
  <2>1. un' = un /\ consented' = consented /\ vaultHas \subseteq vaultHas'
    BY <1>5 DEF UnitRestarts, unState, disks
  <2>2. unitOf' = unitOf /\ parts'["there"] = parts["there"]
    BY <1>5 DEF UnitRestarts, disks, machine, PartsHereOK, Copies
  <2> QED
    BY <2>1, <2>2 DEF OthersInv, OthersKept, CanRun
<1>6. ASSUME StartByHand PROVE OthersInv'
  <2>1. un' = un /\ consented' = consented /\ vaultHas \subseteq vaultHas'
    BY <1>6 DEF StartByHand, unState, disks
  <2>2. unitOf' = unitOf /\ parts'["there"] = parts["there"]
    BY <1>6 DEF StartByHand, disks, machine, PartsHereOK, Copies
  <2> QED
    BY <2>1, <2>2 DEF OthersInv, OthersKept, CanRun
<1>7. ASSUME NEW c \in Copies, SetUpCopy(c) PROVE OthersInv'
  <2>1. vaultHas' = vaultHas /\ consented' = consented
    BY <1>7 DEF SetUpCopy
  <2>2. un'.plan = un.plan \/ un'.plan = {}
    BY <1>7, QuietIs DEF SetUpCopy, AskedNothing
  <2>3. PICK reaped, disabled \in SUBSET Copies : CleanUpPeers(c, reaped, disabled)
    BY <1>7 DEF SetUpCopy
  <2>4. c = "there" => unitOf'["there"] = "on"
    BY <2>3 DEF CleanUpPeers, Peers, UnitMade, CopiesOK, Copies
  <2>5. CASE c # "there"
    <3>1. parts'["there"] = parts["there"]
      BY <1>7, <2>5 DEF SetUpCopy, PartsHereOK, Copies
    <3>2. "there" \notin reaped \/ ~CanRun("there")
      BY <2>3 DEF CleanUpPeers, Dead, CanRun, RuntimeParts
    <3>3. "there" \notin disabled \/ ~CanRun("there")
      BY <2>3 DEF CleanUpPeers, Unhealthy, CanRun
    <3>4. CanRun("there") => unitOf'["there"] = unitOf["there"]
      BY <2>3, <2>5, <3>2, <3>3 DEF CleanUpPeers, Copies
    <3> QED
      BY <2>1, <2>2, <3>1, <3>4 DEF OthersInv, OthersKept, CanRun
  <2>6. CASE c = "there" /\ unitOf'["there"] = "on"
    BY <2>1, <2>2, <2>6 DEF OthersInv, OthersKept
  <2> QED
    BY <2>4, <2>5, <2>6
<1>8. ASSUME DeleteFolder PROVE OthersInv'
  <2>1. un' = un /\ consented' = consented /\ vaultHas' = vaultHas /\ unitOf' = unitOf
    BY <1>8 DEF DeleteFolder, unState
  <2>2. parts'["there"] \subseteq parts["there"]
    BY <1>8 DEF DeleteFolder, PartsHereOK, Copies
  <2> QED
    BY <2>1, <2>2 DEF OthersInv, OthersKept, CanRun
<1>9. ASSUME NEW yes \in BOOLEAN, NEW root \in BOOLEAN, ScanInstall(yes, root) PROVE OthersInv'
  <2>1. consented' = consented /\ vaultHas' = vaultHas /\ unitOf' = unitOf /\ parts' = parts
    BY <1>9 DEF ScanInstall, machine, disks
  <2>2. un'.plan = {}
    BY <1>9, ScanIs DEF Scanned
  <2> QED
    BY <2>1, <2>2 DEF OthersInv, OthersKept, CanRun
<1>10. ASSUME DecideRemoval PROVE OthersInv'
  <2>1. vaultHas' = vaultHas /\ unitOf' = unitOf /\ parts' = parts
    BY <1>10 DEF DecideRemoval, machine, disks
  <2> QED
    BY <1>10, <2>1, DecideIs DEF Decided, OthersInv, OthersKept, CanRun
<1>11. ASSUME CancelUninstall PROVE OthersInv'
  <2>1. consented' = consented /\ vaultHas' = vaultHas /\ unitOf' = unitOf /\ parts' = parts
    BY <1>11 DEF CancelUninstall, machine, disks
  <2>2. un'.plan = {}
    BY <1>11, QuietIs DEF CancelUninstall, AskedNothing
  <2> QED
    BY <2>1, <2>2 DEF OthersInv, OthersKept, CanRun
<1>12. ASSUME UninstallerDies PROVE OthersInv'
  <2>1. consented' = consented /\ vaultHas' = vaultHas /\ unitOf' = unitOf /\ parts' = parts
    BY <1>12 DEF UninstallerDies, machine, disks
  <2>2. un'.plan = {}
    BY <1>12, QuietIs DEF UninstallerDies, AskedNothing
  <2> QED
    BY <2>1, <2>2 DEF OthersInv, OthersKept, CanRun
<1>13. ASSUME RunAction PROVE OthersInv'
  <2>1. Advanced
    BY <1>13, AdvanceIs DEF RunAction
  <2>2. consented' = consented /\ parts'["there"] = parts["there"] /\ unitOf'["there"] = unitOf["there"]
    BY <1>13 DEF RunAction, UnFault, UnCommand, machine, disks, unState, Noted, Unload, SignalHost,
       RemoveContainers, RemoveImage, RemoveLink, DeleteVaultAgent, BackupEnv, DeletePath,
       PartsHereOK, CopiesOK, Copies
  <2>3. vaultHas' = vaultHas \/ vaultHas' = vaultHas \ {NextRemoval}
    BY <1>13 DEF RunAction, UnFault, UnCommand, machine, disks, unState, Noted, Unload, SignalHost,
       RemoveContainers, RemoveImage, RemoveLink, DeleteVaultAgent, BackupEnv, DeletePath
  <2> QED
    BY <2>1, <2>2, <2>3 DEF Advanced, OthersInv, OthersKept, CanRun
<1>14. ASSUME ActionFails PROVE OthersInv'
  <2>1. Advanced
    BY <1>14, AdvanceIs DEF ActionFails
  <2>2. consented' = consented /\ parts'["there"] = parts["there"] /\ unitOf'["there"] = unitOf["there"]
    BY <1>14 DEF ActionFails, UnFault, UnCommand, machine, disks, unState, Noted, PartsHereOK,
       CopiesOK, Copies
  <2>3. vaultHas' = vaultHas \/ vaultHas' = vaultHas \ {NextRemoval}
    BY <1>14 DEF ActionFails, UnFault, UnCommand, machine, disks, unState, Noted
  <2> QED
    BY <2>1, <2>2, <2>3 DEF Advanced, OthersInv, OthersKept, CanRun
<1>15. ASSUME CommandFails PROVE OthersInv'
  <2>1. Advanced
    BY <1>15, AdvanceIs DEF CommandFails
  <2>2. consented' = consented /\ parts'["there"] = parts["there"] /\ unitOf'["there"] = unitOf["there"]
    BY <1>15 DEF CommandFails, UnFault, UnCommand, machine, disks, unState, PartsHereOK, CopiesOK,
       Copies
  <2>3. vaultHas' = vaultHas \/ vaultHas' = vaultHas \ {NextRemoval}
    BY <1>15 DEF CommandFails, UnFault, UnCommand, machine, disks, unState
  <2> QED
    BY <2>1, <2>2, <2>3 DEF Advanced, OthersInv, OthersKept, CanRun
<1>16. CASE UNCHANGED unVars
  BY <1>16 DEF unVars, OthersInv, OthersKept, CanRun
<1> QED
  BY <1>1, <1>2, <1>3, <1>4, <1>5, <1>6, <1>7, <1>8, <1>9, <1>10, <1>11, <1>12, <1>13, <1>14, <1>15,
     <1>16 DEF NextUninstall

LEMMA StoppedStep ==
  ASSUME StoppedInv, CopiesOK, BoxesOK, PartsHereOK, AgentsKnownOK, UninstallerOK, UnNotesOK, [NextUninstall]_unVars
  PROVE  StoppedInv'
<1>1. ASSUME HostSpawns PROVE StoppedInv'
  <2>1. un' = un /\ unNotes' = unNotes /\ silent' = silent /\ flavor' = flavor /\ unitOf' = unitOf
    BY <1>1 DEF HostSpawns, unState, machine
  <2>2. hostOf'["here"] = hostOf["here"] \/ hostOf'["here"] = "down" \/ flavor["here"] = "nohup" \/ unitOf["here"] = "on"
    BY <1>1 DEF HostSpawns, machine, CopiesOK, Copies
  <2>3. boxes' => boxes \/ hostOf["here"] # "down"
    BY <1>1 DEF HostSpawns, machine
  <2> QED
    BY <2>1, <2>2, <2>3 DEF StoppedInv
<1>2. ASSUME HostMakesAgent PROVE StoppedInv'
  <2>1. un' = un /\ unNotes' = unNotes /\ silent' = silent /\ flavor' = flavor /\ unitOf' = unitOf
    BY <1>2 DEF HostMakesAgent, unState, machine
  <2>2. hostOf'["here"] = hostOf["here"] \/ hostOf'["here"] = "down" \/ flavor["here"] = "nohup" \/ unitOf["here"] = "on"
    BY <1>2 DEF HostMakesAgent, machine, CopiesOK, Copies
  <2>3. boxes' => boxes \/ hostOf["here"] # "down"
    BY <1>2 DEF HostMakesAgent, machine
  <2> QED
    BY <2>1, <2>2, <2>3 DEF StoppedInv
<1>3. ASSUME BoxEnds PROVE StoppedInv'
  <2>1. un' = un /\ unNotes' = unNotes /\ silent' = silent /\ flavor' = flavor /\ unitOf' = unitOf
    BY <1>3 DEF BoxEnds, unState, machine
  <2>2. hostOf'["here"] = hostOf["here"] \/ hostOf'["here"] = "down" \/ flavor["here"] = "nohup" \/ unitOf["here"] = "on"
    BY <1>3 DEF BoxEnds, machine, CopiesOK, Copies
  <2>3. boxes' => boxes \/ hostOf["here"] # "down"
    BY <1>3 DEF BoxEnds, machine
  <2> QED
    BY <2>1, <2>2, <2>3 DEF StoppedInv
<1>4. ASSUME HostEnds PROVE StoppedInv'
  <2>1. un' = un /\ unNotes' = unNotes /\ silent' = silent /\ flavor' = flavor /\ unitOf' = unitOf
    BY <1>4 DEF HostEnds, unState, machine
  <2>2. hostOf'["here"] = hostOf["here"] \/ hostOf'["here"] = "down" \/ flavor["here"] = "nohup" \/ unitOf["here"] = "on"
    BY <1>4 DEF HostEnds, machine, CopiesOK, Copies
  <2>3. boxes' => boxes \/ hostOf["here"] # "down"
    BY <1>4 DEF HostEnds, machine
  <2> QED
    BY <2>1, <2>2, <2>3 DEF StoppedInv
<1>5. ASSUME UnitRestarts PROVE StoppedInv'
  <2>1. un' = un /\ unNotes' = unNotes /\ silent' = silent /\ flavor' = flavor /\ unitOf' = unitOf
    BY <1>5 DEF UnitRestarts, unState, machine
  <2>2. hostOf'["here"] = hostOf["here"] \/ hostOf'["here"] = "down" \/ flavor["here"] = "nohup" \/ unitOf["here"] = "on"
    BY <1>5 DEF UnitRestarts, machine, CopiesOK, Copies
  <2>3. boxes' => boxes \/ hostOf["here"] # "down"
    BY <1>5 DEF UnitRestarts, machine
  <2> QED
    BY <2>1, <2>2, <2>3 DEF StoppedInv
<1>6. ASSUME StartByHand PROVE StoppedInv'
  <2>1. un' = un /\ unNotes' = unNotes /\ silent' = silent /\ flavor' = flavor /\ unitOf' = unitOf
    BY <1>6 DEF StartByHand, unState, machine
  <2>2. hostOf'["here"] = hostOf["here"] \/ hostOf'["here"] = "down" \/ flavor["here"] = "nohup" \/ unitOf["here"] = "on"
    BY <1>6 DEF StartByHand, machine, CopiesOK, Copies
  <2>3. boxes' => boxes \/ hostOf["here"] # "down"
    BY <1>6 DEF StartByHand, machine
  <2> QED
    BY <2>1, <2>2, <2>3 DEF StoppedInv
<1>7. ASSUME NEW c \in Copies, SetUpCopy(c) PROVE StoppedInv'
  <2>1. CASE c = "here"
    <3>1. AskedNothing
      BY <1>7, <2>1, QuietIs DEF SetUpCopy
    <3> QED
      BY <3>1 DEF AskedNothing, StoppedInv
  <2>2. CASE c # "here"
    <3>1. un' = un /\ unNotes' = unNotes /\ silent' = silent /\ flavor' = flavor /\ boxes' = boxes
      BY <1>7, <2>2 DEF SetUpCopy
    <3>2. PICK reaped, disabled \in SUBSET Copies : CleanUpPeers(c, reaped, disabled)
      BY <1>7 DEF SetUpCopy
    <3>3. hostOf'["here"] \in {hostOf["here"], "down"} /\ unitOf'["here"] \in {unitOf["here"], "none", "off"}
      BY <2>2, <3>2 DEF CleanUpPeers, Copies
    <3> QED
      BY <3>1, <3>3 DEF StoppedInv
  <2> QED
    BY <2>1, <2>2
<1>8. ASSUME DeleteFolder PROVE StoppedInv'
  <2>1. un' = un /\ unNotes' = unNotes /\ silent' = silent /\ flavor' = flavor /\ unitOf' = unitOf
    BY <1>8 DEF DeleteFolder, unState, machine
  <2>2. hostOf'["here"] = hostOf["here"] \/ hostOf'["here"] = "down" \/ flavor["here"] = "nohup" \/ unitOf["here"] = "on"
    BY <1>8 DEF DeleteFolder, machine, CopiesOK, Copies
  <2>3. boxes' => boxes \/ hostOf["here"] # "down"
    BY <1>8 DEF DeleteFolder, machine
  <2> QED
    BY <2>1, <2>2, <2>3 DEF StoppedInv
<1>9. ASSUME NEW yes \in BOOLEAN, NEW root \in BOOLEAN, ScanInstall(yes, root) PROVE StoppedInv'
  <2>1. flavor' = flavor /\ Scanned
    BY <1>9, ScanIs DEF ScanInstall
  <2> QED
    BY <2>1 DEF Scanned, StoppedInv, CopiesOK
<1>10. ASSUME DecideRemoval PROVE StoppedInv'
  <2>1. flavor' = flavor /\ Decided
    BY <1>10, DecideIs DEF DecideRemoval
  <2> QED
    BY <2>1 DEF Decided, StoppedInv
<1>11. ASSUME CancelUninstall PROVE StoppedInv'
  <2>1. AskedNothing
    BY <1>11, QuietIs DEF CancelUninstall
  <2> QED
    BY <2>1 DEF AskedNothing, StoppedInv
<1>12. ASSUME UninstallerDies PROVE StoppedInv'
  <2>1. AskedNothing
    BY <1>12, QuietIs DEF UninstallerDies
  <2> QED
    BY <2>1 DEF AskedNothing, StoppedInv
<1>13. ASSUME RunAction PROVE StoppedInv'
  <2>1. Advanced /\ flavor' = flavor /\ silent' = silent
    BY <1>13, AdvanceIs DEF RunAction
  <2>2. unNotes \subseteq unNotes'
    BY <1>13 DEF RunAction, Noted, Unload, SignalHost, RemoveContainers, RemoveImage, RemoveLink,
       DeleteVaultAgent, BackupEnv, DeletePath
  <2>3. NextRemoval = "unload" /\ unNotes' = {} => hostOf'["here"] = "down" /\ unitOf'["here"] = "none"
    BY <1>13 DEF RunAction, Noted, Unload, SignalHost, RemoveContainers, RemoveImage, RemoveLink,
       DeleteVaultAgent, BackupEnv, DeletePath,
       VaultAgents, DataParts, RuntimeParts, UserParts, CopiesOK, Copies
  <2>4. NextRemoval # "unload" => unitOf' = unitOf /\ (hostOf["here"] = "down" => hostOf'["here"] = "down")
    BY <1>13 DEF RunAction, Unload, SignalHost, RemoveContainers, RemoveImage, RemoveLink,
       DeleteVaultAgent, BackupEnv, DeletePath, machine,
       CopiesOK, Copies
  <2>5. (boxes' => boxes) /\ (NextRemoval = "rm-containers" => ~boxes')
    BY <1>13 DEF RunAction, Unload, SignalHost, RemoveContainers, RemoveImage, RemoveLink,
       DeleteVaultAgent, BackupEnv, DeletePath, machine,
       VaultAgents, DataParts, RuntimeParts, UserParts
  <2> QED
    BY <2>1, <2>2, <2>3, <2>4, <2>5 DEF Advanced, StoppedInv
<1>14. ASSUME ActionFails PROVE StoppedInv'
  <2>1. Advanced /\ flavor' = flavor
    BY <1>14, AdvanceIs DEF ActionFails
  <2>2. unNotes' # {}
    BY <1>14 DEF ActionFails, Noted
  <2> QED
    BY <2>1, <2>2 DEF Advanced, StoppedInv
<1>15. ASSUME CommandFails PROVE StoppedInv'
  <2>1. Advanced /\ flavor' = flavor
    BY <1>15, AdvanceIs DEF CommandFails
  <2>2. silent' # {}
    BY <1>15 DEF CommandFails, Noted
  <2> QED
    BY <2>1, <2>2 DEF Advanced, StoppedInv
<1>16. CASE UNCHANGED unVars
  BY <1>16 DEF unVars, StoppedInv
<1> QED
  BY <1>1, <1>2, <1>3, <1>4, <1>5, <1>6, <1>7, <1>8, <1>9, <1>10, <1>11, <1>12, <1>13, <1>14, <1>15,
     <1>16 DEF NextUninstall

LEMMA GoneStep ==
  ASSUME GoneInv, CopiesOK, BoxesOK, PartsHereOK, AgentsKnownOK, UninstallerOK, UnNotesOK, [NextUninstall]_unVars
  PROVE  GoneInv'
<1>1. ASSUME HostSpawns PROVE GoneInv'
  <2>1. un' = un /\ unNotes' = unNotes /\ silent' = silent /\ rows' = rows /\ moved \subseteq moved'
    BY <1>1 DEF HostSpawns, unState
  <2>2. parts'["here"] \subseteq parts["here"] \cup moved' /\ vaultHas' \subseteq vaultHas \cup moved'
    BY <1>1 DEF HostSpawns, PartsHereOK, Copies
  <2> QED
    BY <2>1, <2>2 DEF GoneInv
<1>2. ASSUME HostMakesAgent PROVE GoneInv'
  <2>1. un' = un /\ unNotes' = unNotes /\ silent' = silent /\ moved' = moved /\ parts' = parts
    BY <1>2 DEF HostMakesAgent, unState
  <2>2. rows' = rows \cup {"a2"} /\ vaultHas' = vaultHas \cup {"a2"} /\ "a2" \notin rows /\ rows # {}
    BY <1>2 DEF HostMakesAgent
  <2> QED
    BY <2>1, <2>2 DEF GoneInv
<1>3. ASSUME BoxEnds PROVE GoneInv'
  BY <1>3 DEF BoxEnds, unState, disks, GoneInv
<1>4. ASSUME HostEnds PROVE GoneInv'
  BY <1>4 DEF HostEnds, unState, disks, GoneInv
<1>5. ASSUME UnitRestarts PROVE GoneInv'
  BY <1>5 DEF UnitRestarts, unState, disks, GoneInv
<1>6. ASSUME StartByHand PROVE GoneInv'
  <2>1. un' = un /\ unNotes' = unNotes /\ silent' = silent /\ rows' = rows /\ vaultHas' = vaultHas /\ moved' = moved \cup {"pid"}
    BY <1>6 DEF StartByHand, unState
  <2>2. parts'["here"] \subseteq parts["here"] \cup {"pid"}
    BY <1>6 DEF StartByHand, PartsHereOK, Copies
  <2> QED
    BY <2>1, <2>2 DEF GoneInv
<1>7. ASSUME NEW c \in Copies, SetUpCopy(c) PROVE GoneInv'
  <2>1. CASE c = "here"
    <3>1. AskedNothing
      BY <1>7, <2>1, QuietIs DEF SetUpCopy
    <3> QED
      BY <3>1 DEF AskedNothing, GoneInv
  <2>2. CASE c # "here"
    <3>1. un' = un /\ unNotes' = unNotes /\ silent' = silent /\ rows' = rows /\ vaultHas' = vaultHas /\ moved \subseteq moved'
      BY <1>7, <2>2 DEF SetUpCopy
    <3>2. parts'["here"] = parts["here"]
      BY <1>7, <2>2 DEF SetUpCopy, PartsHereOK, Copies
    <3> QED
      BY <3>1, <3>2 DEF GoneInv
  <2> QED
    BY <2>1, <2>2
<1>8. ASSUME DeleteFolder PROVE GoneInv'
  <2>1. un' = un /\ unNotes' = unNotes /\ silent' = silent /\ rows' = rows /\ vaultHas' = vaultHas /\ moved' = moved
    BY <1>8 DEF DeleteFolder, unState
  <2>2. parts'["here"] = parts["here"]
    BY <1>8 DEF DeleteFolder, PartsHereOK, Copies
  <2> QED
    BY <2>1, <2>2 DEF GoneInv
<1>9. ASSUME NEW yes \in BOOLEAN, NEW root \in BOOLEAN, ScanInstall(yes, root) PROVE GoneInv'
  <2>1. rows' = rows /\ Scanned
    BY <1>9, ScanIs DEF ScanInstall, disks
  <2> QED
    BY <2>1 DEF Scanned, GoneInv
<1>10. ASSUME DecideRemoval PROVE GoneInv'
  <2>1. rows' = rows /\ parts' = parts /\ vaultHas' = vaultHas /\ Decided
    BY <1>10, DecideIs DEF DecideRemoval, disks
  <2> QED
    BY <2>1 DEF Decided, GoneInv
<1>11. ASSUME CancelUninstall PROVE GoneInv'
  <2>1. AskedNothing
    BY <1>11, QuietIs DEF CancelUninstall
  <2> QED
    BY <2>1 DEF AskedNothing, GoneInv
<1>12. ASSUME UninstallerDies PROVE GoneInv'
  <2>1. AskedNothing
    BY <1>12, QuietIs DEF UninstallerDies
  <2> QED
    BY <2>1 DEF AskedNothing, GoneInv
<1>13. ASSUME RunAction PROVE GoneInv'
  <2>1. Advanced /\ silent' = silent /\ moved' = moved
    BY <1>13, AdvanceIs DEF RunAction
  <2>2. unNotes \subseteq unNotes'
    BY <1>13 DEF RunAction, Noted, Unload, SignalHost, RemoveContainers, RemoveImage, RemoveLink,
       DeleteVaultAgent, BackupEnv, DeletePath
  <2>3. rows' \in {rows, {}}
    BY <1>13 DEF RunAction, Unload, SignalHost, RemoveContainers, RemoveImage, RemoveLink,
       DeleteVaultAgent, BackupEnv, DeletePath, disks
  <2>4. /\ parts'["here"] \subseteq parts["here"] /\ vaultHas' \subseteq vaultHas
        /\ NextRemoval \in AllParts => NextRemoval \notin parts'["here"]
        /\ NextRemoval \in VaultAgents => NextRemoval \notin vaultHas'
    BY <1>13 DEF RunAction, Unload, SignalHost, RemoveContainers, RemoveImage, RemoveLink,
       DeleteVaultAgent, BackupEnv, DeletePath, disks,
       AllParts, VaultAgents, DataParts, RuntimeParts, UserParts, PartsHereOK, Copies
  <2>5. un.inv.kept \subseteq AllParts /\ un.inv.mine \subseteq VaultAgents
    BY DEF UninstallerOK, Inventories, VaultAgents
  <2>6. ASSUME un.yes, NEW x \in (parts'["here"] \cap un.inv.kept) \cup (un.inv.mine \cap vaultHas')
        PROVE  x \in un'.plan \cup unNotes' \cup silent \cup moved
    <3>1. x # NextRemoval
      BY <2>4, <2>5, <2>6 DEF AllParts, VaultAgents, DataParts, RuntimeParts, UserParts
    <3>2. x \in un.plan \cup unNotes \cup silent \cup moved
      BY <2>1, <2>4, <2>6 DEF Advanced, GoneInv
    <3> QED
      BY <2>1, <2>2, <3>1, <3>2 DEF Advanced
  <2> QED
    BY <2>1, <2>3, <2>6 DEF Advanced, GoneInv
<1>14. ASSUME ActionFails PROVE GoneInv'
  <2>1. Advanced /\ moved' = moved /\ silent' = silent /\ rows' = rows /\ parts' = parts /\ vaultHas' = vaultHas
    BY <1>14, AdvanceIs DEF ActionFails, disks
  <2>2. unNotes' = unNotes \cup {NextRemoval}
    BY <1>14 DEF ActionFails, Noted
  <2> QED
    BY <2>1, <2>2 DEF Advanced, GoneInv
<1>15. ASSUME CommandFails PROVE GoneInv'
  <2>1. Advanced /\ moved' = moved /\ unNotes' = unNotes /\ rows' = rows /\ parts' = parts /\ vaultHas' = vaultHas
    BY <1>15, AdvanceIs DEF CommandFails, disks
  <2>2. silent' = silent \cup {NextRemoval}
    BY <1>15 DEF CommandFails, Noted
  <2> QED
    BY <2>1, <2>2 DEF Advanced, GoneInv
<1>16. CASE UNCHANGED unVars
  BY <1>16 DEF unVars, GoneInv
<1> QED
  BY <1>1, <1>2, <1>3, <1>4, <1>5, <1>6, <1>7, <1>8, <1>9, <1>10, <1>11, <1>12, <1>13, <1>14, <1>15,
     <1>16 DEF NextUninstall

LEMMA UnStarts == InitUninstall => UnInv
<1> SUFFICES ASSUME InitUninstall PROVE UnInv
  OBVIOUS
<1>1. un.step = "idle" /\ un.plan = {} /\ un.inv.unit = FALSE /\ un.inv.kept = {} /\ un.inv.mine = {} /\ UninstallerOK
  <2>1. un = [step |-> "idle", yes |-> FALSE, inv |-> NothingFound, plan |-> {}, service |-> FALSE]
    BY DEF InitUninstall, UnQuiet
  <2>2. NothingFound \in Inventories /\ NothingFound.unit = FALSE /\ NothingFound.kept = {} /\ NothingFound.mine = {}
    BY DEF NothingFound, Inventories
  <2> HIDE DEF NothingFound
  <2> QED
    BY <2>1, <2>2 DEF UninstallerOK
<1>2. CopiesOK
  BY DEF InitUninstall, CopiesOK, Copies, UnitMade
<1>3. BoxesOK
  BY DEF InitUninstall, BoxesOK, Copies
<1>4. PartsHereOK /\ parts["here"] \cap {"env"} = {"env"} /\ CanRun("there")
  BY DEF InitUninstall, PartsHereOK, Copies, AllParts, DataParts, RuntimeParts, UserParts,
     InstalledParts, CanRun
<1>5. AgentsKnownOK
  BY DEF InitUninstall, AgentsKnownOK, VaultAgents
<1>6. UnNotesOK
  BY DEF InitUninstall, UnNotesOK
<1>7. UnTriesOK
  <2>1. ASSUME NEW m \in Nat PROVE m \in 0 .. m
    OBVIOUS
  <2> QED
    BY <2>1, UnNat, Zenon DEF InitUninstall, UnTriesOK
<1>8. KeysInv
  <2>1. keysOf = 2 /\ keysMade = 2 /\ saved = {1}
    BY DEF InitUninstall
  <2> QED
    BY <1>1, <1>4, <2>1 DEF KeysInv, KeysKept
<1>9. OthersInv
  <2>1. "b1" \in vaultHas /\ unitOf["there"] = "on"
    BY DEF InitUninstall, UnitMade, Copies
  <2> QED
    BY <1>1, <2>1 DEF OthersInv, OthersKept
<1>10. StoppedInv /\ GoneInv
  BY <1>1 DEF StoppedInv, GoneInv
<1> QED
  BY <1>1, <1>2, <1>3, <1>4, <1>5, <1>6, <1>7, <1>8, <1>9, <1>10 DEF UnInv

LEMMA UnStep == UnInv /\ [NextUninstall]_unVars => UnInv'
BY CopiesStep, BoxesStep, PartsHereStep, AgentsStep, UninstallerStep, UnNotesStep, UnTriesStep,
   KeysStep, OthersStep,
   StoppedStep, GoneStep DEF UnInv

\* The inductive invariant of the removal of a copy.
THEOREM UninstallInvariant == UninstallSpec => []UnInv
BY UnStarts, UnStep, PTL DEF UninstallSpec

\* No keys are lost; another copy keeps its agents and its service; a service
\* that was removed runs no more, nor do its containers; what was found is gone
\* or explained.
THEOREM UninstallIsSafe == UninstallSpec => []UninstallSafety
BY UninstallInvariant, UnInvIsSafe, PTL
=============================================================================
