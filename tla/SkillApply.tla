------------------------------ MODULE SkillApply ------------------------------
(***************************************************************************)
(* The engine that applies a skill (scripts/skill-apply.ts): the directives *)
(* of a SKILL.md are carried out in document order; what cannot be done is  *)
(* deferred, for want of an answer, or bounced to an agent, and the run     *)
(* goes on.  An installation may be repeated, by the wizard or a rebuild;   *)
(* an update refreshes what is installed (scripts/update-skills.ts); the    *)
(* journal of a run played backwards removes it.                            *)
(*                                                                         *)
(* A directive is [kind, body, binds, when, effect, branch]: its items, the *)
(* variable it binds, a guard <<variable, value>> or <<>>, the effect of a  *)
(* run, and whether a copy comes from a registry branch.                    *)
(***************************************************************************)
EXTENDS Naturals, Sequences, SequencesExt

CONSTANTS
  Skill,       \* the directives of the document
  Items,       \* files, lines, packages, keys, elements and commands they name
  Needs,       \* [Items -> variable in its text, or NoVar]
  Reversible,   \* commands with a remove: attribute
  Barrel,      \* the import line by which an update finds the skill
  Found,       \* items that may be there before the first run
  SkVars, NoVar,
  Answers,     \* [SkVars -> values it may get]
  MaxSkRuns, MaxSkFaults  \* bounds: runs; failures, handlers that throw and deaths

ASSUME SkillConstants == Needs \in [Items -> SkVars \cup {NoVar}] /\ MaxSkRuns \in Nat /\ MaxSkFaults \in Nat

VARIABLES
  \* the installation
  disk,      \* [Items -> "none", or: a file or pin "v1", "v2" or "empty", a line "once" or
             \*  "twice", a key its value, a command "done"]
  ver,       \* version of the document and of the registry branch
  \* one run
  skMode,    \* "install" or "refresh"; "idle" between runs
  owned,     \* skipEffects: effects the caller performs itself
  step,      \* index of the directive
  doing,     \* applyOne is at work
  sub,       \* items of the directive that are done
  bound,     \* [SkVars -> value or "unbound"]
  deferred, bounced,  \* directives left for want of an input, and left to an agent
  passed,    \* directives passed over by mode, guard, owner or an earlier failure
  journal,
  report,    \* the result: "complete", "gaps", "removing", "removed"; "none" before there is one
  \* bounds and history
  before,    \* the installation when the run began
  fired,     \* runs carried out in this run
  torn,      \* directives broken off half-way and not carried out since
  skRuns, skFaults

results == <<deferred, bounced, passed, journal, fired>>
place == <<skMode, owned, step, doing, sub>>
skillVars == <<disk, ver, place, bound, results, report, before, torn, skRuns, skFaults>>

Values == UNION {Answers[v] : v \in SkVars}
Here == Skill[step]
IsThere(x) == disk[x] # "none"
Unresolved(x) == Needs[x] # NoVar /\ bound[Needs[x]] = "unbound"
Fault == skFaults < MaxSkFaults /\ skFaults' = skFaults + 1

InitSkill ==
  /\ \E F \in SUBSET Found :
       disk = [x \in Items |-> IF x \notin F THEN "none"
                               ELSE IF Needs[x] = NoVar THEN "once" ELSE "a"]
  /\ ver = "v1"
  /\ skMode = "idle" /\ owned = {} /\ step = 1 /\ doing = FALSE /\ sub = 0
  /\ bound = [v \in SkVars |-> "unbound"]
  /\ deferred = {} /\ bounced = {} /\ passed = {} /\ journal = <<>> /\ fired = {}
  /\ report = "none" /\ before = disk /\ torn = {} /\ skRuns = 0 /\ skFaults = 0

-----------------------------------------------------------------------------
(* A run. *)

\* detectInstalledSkills: an update refreshes the skills whose import line is there.
Detected == IsThere(Barrel)

\* runSkill, applyProviderSkill or refreshInstalledSkills calls applySkill.
BeginRun(m, own) ==
  /\ skMode = "idle" /\ report # "removing" /\ skRuns < MaxSkRuns
  /\ m = "refresh" => Detected /\ own = {}
  /\ skRuns' = skRuns + 1
  /\ skMode' = m /\ owned' = own /\ step' = 1 /\ doing' = FALSE /\ sub' = 0
  /\ bound' = [v \in SkVars |-> "unbound"]
  /\ deferred' = {} /\ bounced' = {} /\ passed' = {} /\ journal' = <<>> /\ fired' = {}
  /\ report' = "none" /\ before' = disk
  /\ UNCHANGED <<disk, ver, torn, skFaults>>

Running == skMode # "idle" /\ step <= Len(Skill)
Looking == Running /\ ~doing
Working == Running /\ doing

NextDirectiveBug ==  \* mutant: the place within a directive is kept
  step' = step + 1 /\ doing' = FALSE /\ sub' = sub /\ UNCHANGED <<skMode, owned>>
NextDirective == step' = step + 1 /\ doing' = FALSE /\ sub' = 0 /\ UNCHANGED <<skMode, owned>>
Defer == deferred' = deferred \cup {step} /\ UNCHANGED <<bounced, passed, journal, fired>>
Bounce == bounced' = bounced \cup {step} /\ UNCHANGED <<deferred, passed, journal, fired>>
Pass == passed' = passed \cup {step} /\ UNCHANGED <<deferred, bounced, journal, fired>>

\* A refresh leaves credentials, walkthroughs, wiring and restarts untouched.
NotRefreshed(d) ==
  skMode = "refresh" /\ (d.kind \in {"prompt", "operator", "env-set"}
                         \/ (d.kind = "run" /\ d.effect # "refresh"))
WhenMet(d) == d.when = <<>> \/ bound[d.when[1]] = d.when[2]
Blocked == bounced # {}
SideEffects == {"restart", "step", "wire"}

PassesOver(d) ==
  \/ NotRefreshed(d)
  \/ ~WhenMet(d)
  \/ d.kind = "operator" /\ Blocked
  \/ d.kind = "run" /\ d.effect \in owned

PassOver ==
  /\ Looking /\ PassesOver(Here)
  /\ Pass /\ NextDirective
  /\ UNCHANGED <<disk, ver, bound, report, before, torn, skRuns, skFaults>>

\* From the inputs or the resolver; none, or one that does not match validate:,
\* defers the prompt.
AskInput ==
  /\ Looking /\ ~PassesOver(Here) /\ Here.kind = "prompt"
  /\ \/ /\ \E v \in Answers[Here.binds] : bound' = [bound EXCEPT ![Here.binds] = v]
        /\ UNCHANGED results
     \/ Defer /\ UNCHANGED bound
  /\ NextDirective
  /\ UNCHANGED <<disk, ver, report, before, torn, skRuns, skFaults>>

\* The operator is shown the text and the consumer awaited; it may throw.
ShowOperator ==
  /\ Looking /\ ~PassesOver(Here) /\ Here.kind = "operator"
  /\ IF Unresolved(Here.body[1])
     THEN Defer /\ UNCHANGED skFaults
     ELSE (UNCHANGED <<results, skFaults>>) \/ (Bounce /\ Fault)
  /\ NextDirective
  /\ UNCHANGED <<disk, ver, bound, report, before, torn, skRuns>>

\* The run-health gate.
Gated(d) == d.kind = "run" /\ d.effect \in SideEffects /\ Blocked
GateRun ==
  /\ Looking /\ ~PassesOver(Here) /\ Gated(Here)
  /\ Bounce /\ NextDirective
  /\ UNCHANGED <<disk, ver, bound, report, before, torn, skRuns, skFaults>>

\* selfStatus: the probe of an append looks at the first line only; a file that
\* is there counts, whatever is in it; a refresh reapplies code.
Owed(d) ==
  CASE d.kind = "run" -> TRUE
    [] d.kind = "append" -> ~IsThere(d.body[1])
    [] OTHER -> skMode = "refresh" \/ \E i \in DOMAIN d.body : ~IsThere(d.body[i])

Mutating(d) == d.kind \notin {"prompt", "operator"} /\ ~PassesOver(d) /\ ~Gated(d)

SkipDone ==
  /\ Looking /\ Mutating(Here) /\ ~Owed(Here)
  /\ NextDirective
  /\ UNCHANGED <<disk, ver, bound, results, report, before, torn, skRuns, skFaults>>

\* step-start, and applyOne.
StartStep ==
  /\ Looking /\ Mutating(Here) /\ Owed(Here)
  /\ \/ doing' = TRUE /\ UNCHANGED <<skMode, owned, step, sub, results, skFaults>>
     \/ Bounce /\ Fault /\ NextDirective
  /\ UNCHANGED <<disk, ver, bound, report, before, torn, skRuns>>

-----------------------------------------------------------------------------
(* applyOne, an item at a time. *)

More == sub < Len(Here.body)
Item == Here.body[sub + 1]
ItemDone == sub' = sub + 1 /\ UNCHANGED <<skMode, owned, step, doing>>
Entry(op, xs, was) == [op |-> op, xs |-> xs, was |-> was]
Log(e) == journal' = Append(journal, e) /\ UNCHANGED <<deferred, bounced, passed>>
Set(x, v) == disk' = [disk EXCEPT ![x] = v]

CopyFile ==
  /\ Working /\ Here.kind = "copy" /\ More
  /\ Set(Item, ver) /\ ItemDone
  /\ UNCHANGED <<ver, bound, results, report, before, torn, skRuns, skFaults>>

AppendLine ==
  /\ Working /\ Here.kind = "append" /\ More
  /\ Set(Item, IF IsThere(Item) THEN "twice" ELSE "once") /\ ItemDone
  /\ Log(Entry("appended", {Item}, "none")) /\ UNCHANGED fired
  /\ UNCHANGED <<ver, bound, report, before, torn, skRuns, skFaults>>

\* One command for all packages.
AddPackages ==
  /\ Working /\ Here.kind = "dep" /\ More
  /\ disk' = [x \in Items |-> IF x \in ToSet(Here.body) THEN ver ELSE disk[x]]
  /\ sub' = Len(Here.body) /\ UNCHANGED <<skMode, owned, step, doing>>
  /\ Log(Entry("ran", ToSet(Here.body), "none")) /\ UNCHANGED fired
  /\ UNCHANGED <<ver, bound, report, before, torn, skRuns, skFaults>>

SetKey ==
  /\ Working /\ Here.kind = "env-set" /\ More /\ ~Unresolved(Item)
  /\ IF IsThere(Item) THEN UNCHANGED <<disk, results>>
     ELSE /\ Set(Item, bound[Needs[Item]])
          /\ Log(Entry("set-env", {Item}, "none")) /\ UNCHANGED fired
  /\ ItemDone
  /\ UNCHANGED <<ver, bound, report, before, torn, skRuns, skFaults>>

MergeElement ==
  /\ Working /\ Here.kind = "json-merge" /\ More
  /\ IF ~IsThere(Item) \/ (skMode = "refresh" /\ disk[Item] # ver)
     THEN Set(Item, ver) /\ Log(Entry("merged", {Item}, disk[Item])) /\ UNCHANGED fired
     ELSE UNCHANGED <<disk, results>>
  /\ ItemDone
  /\ UNCHANGED <<ver, bound, report, before, torn, skRuns, skFaults>>

\* A check leaves nothing behind; a capture binds what the command says.
RunCommand ==
  /\ Working /\ Here.kind = "run" /\ More /\ ~Unresolved(Item)
  /\ fired' = fired \cup {step}
  /\ IF Here.effect = "check"
     THEN UNCHANGED <<disk, deferred, bounced, passed, journal>>
     ELSE Set(Item, "done") /\ Log(Entry("ran", {Item}, "none"))
  /\ IF Here.binds = NoVar THEN UNCHANGED bound
     ELSE \E v \in Answers[Here.binds] : bound' = [bound EXCEPT ![Here.binds] = v]
  /\ ItemDone
  /\ UNCHANGED <<ver, report, before, torn, skRuns, skFaults>>

\* A variable without a value defers the directive.
Unanswered ==
  /\ Working /\ Here.kind \in {"run", "env-set"} /\ More /\ Unresolved(Item)
  /\ Defer /\ NextDirective
  /\ torn' = IF sub = 0 THEN torn ELSE torn \cup {step}
  /\ UNCHANGED <<disk, ver, bound, report, before, skRuns, skFaults>>

\* A command fails, a marker is missing, a capture does not match what the command
\* that was carried out says: bounced.  The shell creates the file before git show fails.
Fails ==
  /\ Working /\ More
  /\ Fault /\ Bounce /\ NextDirective
  /\ torn' = torn \cup {step}
  /\ \/ UNCHANGED disk
     \/ Here.kind = "copy" /\ Here.branch /\ Set(Item, "empty")
     \/ Here.kind = "run" /\ Here.effect # "check" /\ ~Unresolved(Item) /\ Set(Item, "done")
  /\ UNCHANGED <<ver, bound, report, before, skRuns>>

\* The journal of a copy is written when all is copied; step-end, whose
\* consumer may throw although the work is done.
FinishStep ==
  /\ Working /\ ~More
  /\ journal' = IF Here.kind = "copy" THEN Append(journal, Entry("wrote", ToSet(Here.body), "none"))
                ELSE journal
  /\ torn' = torn \ {step}
  /\ \/ UNCHANGED <<bounced, skFaults>>
     \/ bounced' = bounced \cup {step} /\ Fault
  /\ NextDirective
  /\ UNCHANGED <<disk, ver, bound, deferred, passed, fired, report, before, skRuns>>

LeaveRun ==
  /\ skMode' = "idle" /\ owned' = {} /\ step' = 1 /\ doing' = FALSE /\ sub' = 0
  /\ bound' = [v \in SkVars |-> "unbound"] /\ fired' = {}

\* fullyApplied.
EndRun ==
  /\ skMode # "idle" /\ step > Len(Skill)
  /\ report' = IF deferred = {} /\ bounced = {} THEN "complete" ELSE "gaps"
  /\ LeaveRun
  /\ UNCHANGED <<disk, ver, deferred, bounced, passed, journal, before, torn, skRuns, skFaults>>

\* The process ends in the middle of a run; nothing of it was written down.
RunDies ==
  /\ Running /\ Fault
  /\ LeaveRun
  /\ torn' = IF doing THEN torn \cup {step} ELSE torn
  /\ journal' = <<>> /\ deferred' = {} /\ bounced' = {} /\ passed' = {}
  /\ UNCHANGED <<disk, ver, report, before, skRuns>>

-----------------------------------------------------------------------------
(* Between runs. *)

\* An agent carries the bounced directives out from the prose, in their order.
AgentApplies(i) ==
  /\ skMode = "idle" /\ report = "gaps" /\ i \in bounced /\ \A j \in bounced : i <= j
  /\ disk' = [x \in Items |->
       IF x \notin ToSet(Skill[i].body) THEN disk[x]
       ELSE IF Skill[i].kind \in {"copy", "dep", "json-merge"} THEN ver
       ELSE IF Skill[i].kind = "append" THEN (IF IsThere(x) THEN disk[x] ELSE "once")
       ELSE IF Skill[i].kind = "run" THEN "done" ELSE disk[x]]
  /\ bounced' = bounced \ {i} /\ torn' = torn \ {i}
  /\ UNCHANGED <<ver, place, bound, deferred, passed, journal, fired, report, before, skRuns, skFaults>>

\* The checkout and its registry branch move on.
NewVersion ==
  /\ skMode = "idle" /\ report \in {"complete", "gaps"} /\ ver = "v1" /\ skRuns < MaxSkRuns
  /\ ver' = "v2"
  /\ UNCHANGED <<disk, place, bound, results, report, before, torn, skRuns, skFaults>>

\* removeSkill: the last entry first.
Undone(e, x) ==
  IF e.op = "merged" THEN e.was
  ELSE IF e.op = "ran" /\ disk[x] = "done" /\ x \notin Reversible THEN disk[x] ELSE "none"
RemoveEntry ==
  /\ skMode = "idle" /\ journal # <<>> /\ report \in {"complete", "removing"}
  /\ disk' = [x \in Items |-> IF x \in Last(journal).xs THEN Undone(Last(journal), x) ELSE disk[x]]
  /\ journal' = Front(journal)
  /\ report' = IF journal' = <<>> THEN "removed" ELSE "removing"
  /\ UNCHANGED <<ver, place, bound, deferred, bounced, passed, fired, before, torn, skRuns, skFaults>>

EngineStep ==
  \/ PassOver \/ AskInput \/ ShowOperator \/ GateRun \/ SkipDone \/ StartStep
  \/ CopyFile \/ AppendLine \/ AddPackages \/ SetKey \/ MergeElement \/ RunCommand
  \/ Unanswered \/ Fails \/ FinishStep \/ EndRun
NextSkill ==
  \/ EngineStep
  \/ \E m \in {"install", "refresh"}, own \in {{}, {"restart"}} : BeginRun(m, own)
  \/ RunDies
  \/ \E i \in DOMAIN Skill : AgentApplies(i)
  \/ NewVersion \/ RemoveEntry
SkillSpec == InitSkill /\ [][NextSkill]_skillVars

-----------------------------------------------------------------------------
(* Properties. *)

\* The values of every variable.
SkTypeOK ==
  /\ \A x \in Items : disk[x] \in {"none", "empty", "v1", "v2", "once", "twice", "done"} \cup Values
  /\ ver \in {"v1", "v2"} /\ skMode \in {"idle", "install", "refresh"} /\ owned \subseteq {"restart"}
  /\ step \in 1 .. Len(Skill) + 1 /\ doing \in BOOLEAN
  /\ sub \in 0 .. (IF step > Len(Skill) THEN 0 ELSE Len(Here.body))
  /\ bound \in [SkVars -> Values \cup {"unbound"}]
  /\ deferred \subseteq DOMAIN Skill /\ bounced \subseteq DOMAIN Skill /\ passed \subseteq DOMAIN Skill
  /\ fired \subseteq DOMAIN Skill /\ torn \subseteq DOMAIN Skill
  /\ report \in {"none", "complete", "gaps", "removing", "removed"}
  /\ skRuns \in 0 .. MaxSkRuns /\ skFaults \in 0 .. MaxSkFaults

Whole(i) == \A x \in ToSet(Skill[i].body) : Skill[i].effect # "check" => disk[x] \notin {"none", "empty"}
\* What a second run takes for done although the first was broken off: a copy
\* whose fetch left an empty file, an append of which the first line is there.
Overlooked(i) ==
  i \in torn /\ ((Skill[i].kind = "copy" /\ Skill[i].branch) \/ (Skill[i].kind = "append" /\ Len(Skill[i].body) > 1))

\* A run that reports a complete application has left nothing undone, however
\* often runs before it failed, except for what Overlooked names
\* (skill-apply.ts:320-327, 124-187).
CompleteIsWhole ==
  report = "complete" =>
    \A i \in DOMAIN Skill \ passed : Skill[i].kind \notin {"prompt", "operator"} =>
      Whole(i) \/ Overlooked(i) \/ (Skill[i].kind = "append" /\ before[Skill[i].body[1]] # "none")

\* No repetition adds a line twice, unless it was there before the first run.
NothingTwice == \A x \in Items \ Found : disk[x] # "twice"

\* No restart, pairing or wiring after a directive of the same run was given
\* to an agent (skill-apply.ts:841-852).
NoDoomedEffect ==
  skMode # "idle" => \A i \in fired, j \in bounced : Skill[i].effect \in SideEffects => i <= j

\* A refresh without gaps has brought all code to the version of the document
\* and carried out nothing else (update-skills.ts:165-190), and no run changes
\* a credential that is set.
RefreshIsWhole ==
  /\ skMode = "refresh" /\ step > Len(Skill) /\ deferred = {} /\ bounced = {} =>
       \A i \in DOMAIN Skill \ passed : Skill[i].kind \in {"copy", "dep", "json-merge"} =>
         \A x \in ToSet(Skill[i].body) : disk[x] = ver
  /\ skMode = "refresh" => \A i \in fired : Skill[i].effect = "refresh"
  /\ skMode # "idle" => \A x \in Items : before[x] \in Values => disk[x] = before[x]

\* Removing a skill after a complete run leaves nothing of what that run
\* brought, but the commands that name no way back, and gives an element it
\* replaced back (skill-apply.ts:1025-1068).
RemoveUndoes ==
  report = "removed" =>
    /\ \A x \in Items : before[x] = "none" /\ disk[x] # "done" => disk[x] = "none"
    /\ \A i \in DOMAIN Skill, x \in Items :
         Skill[i].kind = "json-merge" /\ x \in ToSet(Skill[i].body) => disk[x] = before[x]

SkillSafety == CompleteIsWhole /\ NothingTwice /\ NoDoomedEffect /\ RefreshIsWhole /\ RemoveUndoes
=============================================================================
