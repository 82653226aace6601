------------------------------ MODULE MCTooling ------------------------------
(* The tools that set an installation up and change it, one behaviour of one  *)
(* tool at a time: a skill that is applied, the account an image is pulled    *)
(* with, an agent made from a plugin, the move from version 1, the setup      *)
(* wizard, the tables that say which agent speaks where, the removal of a     *)
(* copy from the machine, and the pull of the image.                          *)
EXTENDS SkillApply, RegistryAccount, MCRestamp, MigrateV2, SetupWizard, Wirings, Uninstall,
        ImagePull, TLC

CONSTANTS
  t1, t2, t3, i1, i2,                \* three tokens and two ids of a machine
  s1, s2, hand                       \* two scripts that pull, and a pull by hand

VARIABLE part

\* A skill with every kind of directive: a copy from a branch, the line of the
\* barrel and another, a package, a token that is asked for and checked, a
\* command that says who the owner is, credentials, a guarded note, a list
\* element, the wiring, the restart and a clean-up at every refresh.
Directive(k, b, v, g, e) ==
  [kind |-> k, body |-> b, binds |-> v, when |-> g, effect |-> e, branch |-> k = "copy"]
Step(k, b) == Directive(k, b, NoVar, <<>>, "")
Command(e, x) == Directive("run", <<x>>, NoVar, <<>>, e)
Document == <<
  Step("copy", <<"f1", "f2">>), Step("append", <<"l1", "l2">>), Step("dep", <<"pkg">>),
  Directive("prompt", <<>>, "token", <<>>, ""),
  Command("check", "probe"),
  Directive("run", <<"call">>, "owner", <<>>, "external"),
  Step("env-set", <<"key", "home">>),
  Directive("operator", <<"note">>, NoVar, <<"token", "a">>, ""),
  Step("json-merge", <<"elem">>),
  Command("wire", "wire"), Command("restart", "restart"), Command("refresh", "clean")>>
Named == UNION {ToSet(Document[i].body) : i \in DOMAIN Document}
Reads == [x \in Named |-> IF x \in {"probe", "key"} THEN "token"
                          ELSE IF x \in {"wire", "home"} THEN "owner" ELSE NoVar]
Says == [v \in {"token", "owner"} |-> IF v = "token" THEN {"a", "b"} ELSE {"a"}]

toolVars == <<skillVars, raVars, rsVars, mgVars, wizVars, wiringVars, unVars, ipVars>>

InitTooling ==
  /\ part \in {"skill", "account", "restamp", "migrate", "wizard", "wirings", "uninstall", "pull"}
  /\ InitSkill /\ (part # "skill" => \A x \in Items : disk[x] = "none")
  /\ InitRegistry
  /\ InitRestamp
  /\ InitMigrate /\ (part # "migrate" => have = {} /\ ~old)
  /\ InitWizard
  /\ InitWirings
  /\ InitUninstall /\ (part # "uninstall" => flavor["here"] = "nohup")
  /\ InitImagePull /\ (part # "pull" => \A d \in Dirs : helperIn[d] = "none")

NextTooling ==
  /\ UNCHANGED part
  /\ \/ /\ part = "skill" /\ NextSkill
        /\ UNCHANGED <<raVars, rsVars, mgVars, wizVars, wiringVars, unVars, ipVars>>
     \/ /\ part = "account" /\ NextRegistry
        /\ UNCHANGED <<skillVars, rsVars, mgVars, wizVars, wiringVars, unVars, ipVars>>
     \/ /\ part = "restamp" /\ NextRestamp
        /\ UNCHANGED <<skillVars, raVars, mgVars, wizVars, wiringVars, unVars, ipVars>>
     \/ /\ part = "migrate" /\ NextMigrate
        /\ UNCHANGED <<skillVars, raVars, rsVars, wizVars, wiringVars, unVars, ipVars>>
     \/ /\ part = "wizard" /\ NextWizard
        /\ UNCHANGED <<skillVars, raVars, rsVars, mgVars, wiringVars, unVars, ipVars>>
     \/ /\ part = "wirings" /\ NextWirings
        /\ UNCHANGED <<skillVars, raVars, rsVars, mgVars, wizVars, unVars, ipVars>>
     \/ /\ part = "uninstall" /\ NextUninstall
        /\ UNCHANGED <<skillVars, raVars, rsVars, mgVars, wizVars, wiringVars, ipVars>>
     \/ /\ part = "pull" /\ NextImagePull
        /\ UNCHANGED <<skillVars, raVars, rsVars, mgVars, wizVars, wiringVars, unVars>>

ToolingSpec == InitTooling /\ [][NextTooling]_<<part, toolVars>>

\* Of the parts that stand still nothing has to be looked at.
ToolingTypeOK ==
  CASE part = "skill" -> SkTypeOK [] part = "account" -> RaTypeOK [] part = "restamp" -> RsTypeOK
    [] part = "migrate" -> MgTypeOK [] part = "wizard" -> WzTypeOK
    [] part = "wirings" -> WiTypeOK [] part = "uninstall" -> UnTypeOK [] part = "pull" -> IpTypeOK

\* A skill that reports itself applied is applied, an install that is set to
\* pull its image can, with the token its account file names, and an update of
\* an agent that reports itself applied is, at nobody's expense; a run of the
\* move leaves alone what people changed, and one of the two hosts serves; a
\* template that was picked is not lost, and the default provider can run; an
\* agent that is wired to a chat has one name for it.  The removal of a copy
\* loses no keys and takes nothing of another; a pull that could be let in is.
ToolingSafety ==
  CASE part = "skill" -> SkillSafety [] part = "account" -> RegistrySafety
    [] part = "restamp" -> RestampSafety [] part = "migrate" -> MigrateSafety
    [] part = "wizard" -> WizardSafety [] part = "wirings" -> WiringSafety
    [] part = "uninstall" -> UninstallSafety [] part = "pull" -> PullSafety
=============================================================================
