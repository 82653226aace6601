----------------------- MODULE ContainerRegistryProofs -----------------------
(***************************************************************************)
(* Proofs about ContainerRegistry, for any number of runtimes and faults:  *)
(* the types, the inductive invariant RInv, and the properties of the      *)
(* registry that follow from it.                                           *)
(***************************************************************************)
EXTENDS ContainerRegistry, TLAPS

-----------------------------------------------------------------------------
(* Types.                                                                  *)

\* What trackPrepared starts with, and what a restarted host knows.
LEMMA KeyTypes == NoKey \in KeyStates /\ FreshKey \in KeyStates
  BY DEF NoKey, FreshKey, KeyStates

\* A fault is within its bound.
LEMMA FaultType == ASSUME TypeOK, Fault \/ UNCHANGED faults PROVE faults' \in 0 .. MaxFaults
  BY RegistryAssumption DEF TypeOK, Fault

\* The end of a container, as every action that ends it uses it.
LEMMA EndsType == ASSUME TypeOK, NEW b \in {"none", "exited"}, Ends(b)
   PROVE /\ box' \in {"none", "created", "running", "exited"} /\ polled' \in BOOLEAN
         /\ row' \in {"none", "pending", "taken"} /\ hint' \in BOOLEAN
  BY DEF TypeOK, Ends

\* finishAndResolve touches the entry and the phases alone.
LEMMA FinishType ==
  ASSUME TypeOK, FinishAndResolve
  PROVE /\ entry' \in Runtimes \cup {NoRuntime}
        /\ phase' \in [Runtimes -> {"free", "active", "finishing", "finished", "dropped"}]
  BY DEF TypeOK, FinishAndResolve

\* A truth read of the hub.
LEMMA ReadStatusType ==
  ASSUME TypeOK, ReadStatus
  PROVE /\ hub' \in KeyStates
        /\ faults' \in 0 .. MaxFaults /\ misled' \in BOOLEAN
<1>1. hub' \in KeyStates
  BY ZenonT(60) DEF KeyStates, TypeOK, ReadStatus, Truth
<1>2. Fault \/ UNCHANGED faults
  BY DEF ReadStatus, history
<1>3. misled' = misled \/ misled' = (misled \/ (box # "exited" /\ Truth(FALSE) = "gone"))
  BY DEF ReadStatus, history
<1> QED
  BY <1>1, <1>2, <1>3, FaultType DEF TypeOK

\* killContainer, whether docker obeys or not.
LEMMA KillType ==
  ASSUME TypeOK, NEW calls \in BOOLEAN, NEW refused \in BOOLEAN, KillContainer(calls, refused)
  PROVE /\ box' \in {"none", "created", "running", "exited"} /\ polled' \in BOOLEAN
        /\ attach' \in {"none", "pending", "starting", "attached", "exited"}
        /\ hint' \in BOOLEAN /\ row' \in {"none", "pending", "taken"}
        /\ hub' \in KeyStates
        /\ onExit' \in SUBSET Runtimes /\ stopping' \in SUBSET Runtimes
        /\ misled' \in BOOLEAN
        /\ UNCHANGED <<stream, stale, entry, phase, wake, respawn, host, status>>
<1>1. entry \in Runtimes
  BY DEF TypeOK, KillContainer, Tracked
<1>2. hub' \in KeyStates
  BY DEF KeyStates, TypeOK, KillContainer
<1>3. onExit' \in SUBSET Runtimes /\ stopping' \in SUBSET Runtimes
  BY <1>1 DEF TypeOK, KillContainer
<1>4. UNCHANGED <<stream, stale, entry, phase, wake, respawn, host, status>>
  BY DEF KillContainer
<1>5. CASE refused
  <2>1. attach' \in {"none", "pending", "starting", "attached", "exited"}
    BY <1>5 DEF TypeOK, KillContainer
  <2>2. hint' \in BOOLEAN /\ misled' \in BOOLEAN
    BY <1>5 DEF TypeOK, KillContainer
  <2>3. UNCHANGED <<box, polled, row>>
    BY <1>5 DEF KillContainer
  <2> QED
    BY <1>2, <1>3, <1>4, <2>1, <2>2, <2>3 DEF TypeOK
<1>6. CASE ~refused
  <2>1. Ends("none") /\ UNCHANGED <<attach, misled>>
    BY <1>6 DEF KillContainer
  <2> QED
    BY <1>2, <1>3, <1>4, <2>1, EndsType DEF TypeOK
<1> QED
  BY <1>5, <1>6

\* Every step keeps the types: one step of the proof per action.
LEMMA TypeStep == TypeOK /\ [Next]_vars => TypeOK'
<1> SUFFICES ASSUME TypeOK, [Next]_vars PROVE TypeOK'
  OBVIOUS
<1> USE RegistryAssumption DEF docker, events, registry, history
<1>1. CASE BoxStarts
  BY <1>1 DEF TypeOK, BoxStarts
<1>2. CASE StartRefused
  <2>1. box' \in {"none", "created", "running", "exited"}
    BY <1>2 DEF TypeOK, StartRefused
  <2>2. (Fault \/ UNCHANGED faults) /\ misled' \in BOOLEAN
    BY <1>2 DEF TypeOK, StartRefused
  <2>3. /\ attach' = "exited" /\ hint' \in BOOLEAN
        /\ UNCHANGED <<polled, stream, events, registry, restart, host, status, row>>
    BY <1>2 DEF StartRefused
  <2> QED
    BY <2>1, <2>2, <2>3, FaultType DEF TypeOK
<1>3. CASE BoxExits
  <2>1. Ends("exited") /\ Fault
    BY <1>3 DEF BoxExits
  <2> QED
    BY <1>3, <2>1, EndsType, FaultType DEF TypeOK, BoxExits
<1>4. CASE BoxRemoved
  <2>1. Ends("none")
    BY <1>4 DEF BoxRemoved
  <2> QED
    BY <1>4, <2>1, EndsType DEF TypeOK, BoxRemoved
<1>5. CASE AttachExits
  BY <1>5 DEF TypeOK, AttachExits
<1>6. CASE Replay
  BY <1>6 DEF TypeOK, Replay
<1>7. CASE Subscribed
  BY <1>7 DEF TypeOK, Subscribed
<1>8. CASE StreamDrops
  BY <1>8 DEF TypeOK, StreamDrops, Fault
<1>9. CASE Reconnect
  <2>1. hint' \in BOOLEAN
    BY <1>9 DEF TypeOK, Reconnect
  <2>2. Fault \/ UNCHANGED faults
    BY <1>9 DEF Reconnect
  <2>3. /\ stream' = "connecting"
        /\ UNCHANGED <<box, polled, attach, events, registry, restart, host, status, row, misled>>
    BY <1>9 DEF Reconnect
  <2> QED
    BY <2>1, <2>2, <2>3, FaultType DEF TypeOK
<1>10. CASE OtherArms
  BY <1>10 DEF TypeOK, OtherArms
<1>11. CASE FirstPoll
  <2>1. row' \in {row, "taken"} /\ (Fault \/ UNCHANGED faults)
    BY <1>11 DEF FirstPoll
  <2> QED
    BY <1>11, <2>1, FaultType DEF TypeOK, FirstPoll
<1>12. CASE RowDone
  BY <1>12 DEF TypeOK, RowDone
<1>13. CASE Respawn
  <2>1. wake' \in [Runtimes -> {"idle", "preparing", "prepared", "marking", "failed"}]
    BY <1>13 DEF TypeOK, Respawn
  <2>2. /\ respawn' \in BOOLEAN
        /\ UNCHANGED <<docker, hint, events, entry, phase, onExit, stopping,
                       restart, host, status, row, history>>
    BY <1>13 DEF Respawn
  <2> QED
    BY <2>1, <2>2 DEF TypeOK
<1>14. CASE Hinted
  <2>1. /\ hint' \in BOOLEAN
        /\ UNCHANGED <<docker, stale, registry, restart, host, status, row>>
    BY <1>14 DEF Hinted
  <2>2. CASE ReadStatus
    BY <2>1, <2>2, ReadStatusType DEF TypeOK
  <2>3. CASE hub' \in {hub, Queued} /\ UNCHANGED history
    <3>1. hub' \in KeyStates
      BY <2>3 DEF TypeOK, Queued, KeyStates
    <3> QED
      BY <2>1, <2>3, <3>1 DEF TypeOK
  <2> QED
    BY <1>14, <2>2, <2>3 DEF Hinted
<1>15. CASE Verified
  <2>1. hub' \in KeyStates
    BY <1>15 DEF KeyStates, TypeOK, Verified
  <2>2. FinishAndResolve \/ UNCHANGED <<entry, phase>>
    BY <1>15 DEF Verified
  <2>3. UNCHANGED <<docker, hint, stale, onExit, stopping, wake, respawn,
                    restart, host, status, row, history>>
    BY <1>15 DEF Verified
  <2> QED
    BY <2>1, <2>2, <2>3, FinishType DEF TypeOK
<1>16. CASE StillAlive
  <2>1. UNCHANGED <<docker, hint, stale, registry, restart, host, status, row>>
    BY <1>16 DEF StillAlive
  <2>2. CASE ReadStatus
    BY <2>1, <2>2, ReadStatusType DEF TypeOK
  <2>3. CASE hub' = [hub EXCEPT !.read = "no"] /\ UNCHANGED history
    <3>1. hub' \in KeyStates
      BY <2>3 DEF TypeOK, KeyStates
    <3> QED
      BY <2>1, <2>3, <3>1 DEF TypeOK
  <2> QED
    BY <1>16, <2>2, <2>3 DEF StillAlive
<1>17. CASE StaleReturns
  BY <1>17, FinishType DEF TypeOK, StaleReturns
<1>18. CASE RestartWrites
  BY <1>18 DEF TypeOK, RestartWrites
<1>19. CASE RestartKills
  <2>1. CASE ~Tracked /\ UNCHANGED <<docker, hint, events, registry, status, row, history>>
    BY <1>19, <2>1 DEF TypeOK, RestartKills
  <2>2. ASSUME NEW refused \in BOOLEAN, KillContainer(TRUE, refused), Fault \/ UNCHANGED faults
        PROVE  TypeOK'
    <3>1. restart' = "idle"
      BY <1>19 DEF RestartKills
    <3> QED
      BY ZenonT(60), <2>2, <3>1, KillType, FaultType DEF TypeOK
  <2> QED
    BY <1>19, <2>1, <2>2 DEF RestartKills
<1>20. CASE SweepKills
  <2>1. ASSUME NEW refused \in BOOLEAN, KillContainer(FALSE, refused), Fault \/ UNCHANGED faults
        PROVE  TypeOK'
    BY ZenonT(60), <1>20, <2>1, KillType, FaultType DEF TypeOK, SweepKills
  <2> QED
    BY <1>20, <2>1 DEF SweepKills
<1>21. CASE HostRestart
  <2>1. faults' \in 0 .. MaxFaults
    BY <1>21, FaultType DEF HostRestart
  <2>2. hub' \in KeyStates
    BY <1>21 DEF KeyStates, HostRestart, NoKey
  <2> QED
    BY <1>21, <2>1, <2>2 DEF TypeOK, HostRestart
<1>22. CASE AdoptLists
  <2>1. hub' \in KeyStates
    <3>1. hub' \in {hub, NoKey, FreshKey}
      BY <1>22 DEF AdoptLists
    <3> QED
      BY <3>1, KeyTypes DEF TypeOK
  <2>2. faults' \in 0 .. MaxFaults
    BY <1>22, FaultType DEF AdoptLists
  <2>3. Ends("none") \/ UNCHANGED <<box, polled, row, hint>>
    BY <1>22 DEF AdoptLists
  <2>4. misled' \in BOOLEAN
    BY <1>22 DEF TypeOK, AdoptLists
  <2>5. host' \in {"adopting", "up"} /\ UNCHANGED <<attach, stream, stale, registry, restart, status>>
    BY <1>22 DEF AdoptLists
  <2> QED
    BY <2>1, <2>2, <2>3, <2>4, <2>5, EndsType DEF TypeOK
<1>23. CASE AdoptMarks
  BY <1>23 DEF TypeOK, AdoptMarks
<1>24. CASE Resync
  <2>1. hint' \in BOOLEAN
    BY <1>24 DEF TypeOK, Resync
  <2>2. faults' \in 0 .. MaxFaults
    BY <1>24, FaultType DEF Resync
  <2>3. /\ host' = "up"
        /\ box' \in {box, "none"}
        /\ UNCHANGED <<polled, attach, stream, events, registry, restart, status, row, misled>>
    BY <1>24 DEF Resync
  <2> QED
    BY <2>1, <2>2, <2>3 DEF TypeOK
<1>25. CASE UNCHANGED vars
  BY <1>25 DEF TypeOK, vars
<1>26. ASSUME NEW r \in Runtimes, WakeContainer(r) PROVE TypeOK'
  BY <1>26 DEF TypeOK, WakeContainer
<1>27. ASSUME NEW r \in Runtimes, WakeFails(r) PROVE TypeOK'
  <2>1. Ends("none") \/ UNCHANGED <<box, polled, row, hint>>
    BY <1>27 DEF WakeFails
  <2>2. wake' \in [Runtimes -> {"idle", "preparing", "prepared", "marking", "failed"}]
    BY <1>27 DEF TypeOK, WakeFails
  <2>3. Fault /\ UNCHANGED <<attach, stream, events, entry, phase, onExit, stopping, respawn,
                             restart, host, status, misled>>
    BY <1>27 DEF WakeFails
  <2> QED
    BY <2>1, <2>2, <2>3, EndsType, FaultType DEF TypeOK
<1>28. ASSUME NEW r \in Runtimes, Prepare(r) PROVE TypeOK'
  <2>1. hub' \in KeyStates
    BY <1>28 DEF Prepare, KeyStates, NoKey, FreshKey
  <2>2. wake' \in [Runtimes -> {"idle", "preparing", "prepared", "marking", "failed"}]
    BY <1>28 DEF TypeOK, Prepare
  <2>3. stale' \in {"no", "recheck", "gone"}
    BY <1>28 DEF TypeOK, Prepare
  <2>4. /\ box' \in {box, "created"} /\ attach' \in {"pending", "none"}
        /\ UNCHANGED <<polled, stream, hint, entry, phase, onExit, stopping, respawn,
                       restart, host, status, row, history>>
    BY <1>28 DEF Prepare
  <2> QED
    BY <2>1, <2>2, <2>3, <2>4 DEF TypeOK
<1>29. ASSUME NEW r \in Runtimes, Start(r) PROVE TypeOK'
  <2>1. hub' \in KeyStates
    BY <1>29 DEF KeyStates, TypeOK, Start
  <2>2. /\ phase' \in [Runtimes -> {"free", "active", "finishing", "finished", "dropped"}]
        /\ wake' \in [Runtimes -> {"idle", "preparing", "prepared", "marking", "failed"}]
    BY <1>29 DEF TypeOK, Start
  <2> QED
    BY <1>29, <2>1, <2>2 DEF TypeOK, Start
<1>30. ASSUME NEW r \in Runtimes, Marked(r) PROVE TypeOK'
  BY <1>30 DEF TypeOK, Marked
<1>31. ASSUME NEW r \in Runtimes, FailedEnds(r) PROVE TypeOK'
  BY <1>31 DEF TypeOK, FailedEnds
<1>32. ASSUME NEW r \in Runtimes, MarkFails(r) PROVE TypeOK'
  <2>1. /\ phase' \in [Runtimes -> {"free", "active", "finishing", "finished", "dropped"}]
        /\ wake' \in [Runtimes -> {"idle", "preparing", "prepared", "marking", "failed"}]
    BY <1>32 DEF TypeOK, MarkFails
  <2>2. /\ entry' \in Runtimes \cup {NoRuntime} /\ onExit' \in SUBSET Runtimes /\ misled' \in BOOLEAN
    BY <1>32 DEF TypeOK, MarkFails
  <2>3. Fault /\ UNCHANGED <<docker, hint, events, stopping, respawn, restart, host, status, row>>
    BY <1>32 DEF MarkFails
  <2> QED
    BY <2>1, <2>2, <2>3, FaultType DEF TypeOK
<1>33. ASSUME NEW r \in Runtimes, FinishWrites(r) PROVE TypeOK'
  BY <1>33, FaultType DEF TypeOK, FinishWrites
<1>34. ASSUME NEW r \in Runtimes, FinishDrops(r) PROVE TypeOK'
  BY <1>34 DEF TypeOK, FinishDrops
<1>35. ASSUME NEW r \in Runtimes, KillSettles(r) PROVE TypeOK'
  BY <1>35, FinishType DEF TypeOK, KillSettles
<1>36. ASSUME NEW r \in Runtimes, Adopt(r) PROVE TypeOK'
  <2>1. hub' \in KeyStates
    BY <1>36 DEF KeyStates, TypeOK, Adopt
  <2>2. phase' \in [Runtimes -> {"free", "active", "finishing", "finished", "dropped"}]
    BY <1>36 DEF TypeOK, Adopt
  <2> QED
    BY <1>36, <2>1, <2>2 DEF TypeOK, Adopt
<1> QED
  BY <1>1, <1>2, <1>3, <1>4, <1>5, <1>6, <1>7, <1>8, <1>9, <1>10, <1>11, <1>12, <1>13,
     <1>14, <1>15, <1>16, <1>17, <1>18, <1>19, <1>20, <1>21, <1>22, <1>23, <1>24, <1>25,
     <1>26, <1>27, <1>28, <1>29, <1>30, <1>31, <1>32, <1>33, <1>34, <1>35, <1>36
  DEF Next, Spawning, Ending, Hub, Adoption

-----------------------------------------------------------------------------
(* The inductive invariant.                                                *)

\* A truth read changes nothing of a KeyState but what it has read; it sees an
\* end that has happened, once no attach process is left to deny it, and an end
\* that has not happened only if it misleads the host.
LEMMA ReadStatusKeeps ==
  ASSUME TypeOK, ReadStatus
  PROVE /\ hub'.known = hub.known /\ hub'.armed = hub.armed /\ hub'.intent = hub.intent
        /\ hub'.fired = hub.fired /\ hub'.pending = hub.pending
        /\ Gone => hub'.read = "gone" \/ attach \in {"pending", "starting", "attached"}
        /\ hub'.read = "gone" => Gone \/ misled'
        /\ misled => misled'
<1>1. PICK truth \in {"alive", "gone"} : hub' = [hub EXCEPT !.read = truth, !.recheck = FALSE]
  BY DEF ReadStatus, Truth
<1>2. /\ hub'.known = hub.known /\ hub'.armed = hub.armed /\ hub'.intent = hub.intent
      /\ hub'.fired = hub.fired /\ hub'.pending = hub.pending /\ hub'.read = truth
  BY <1>1 DEF TypeOK, KeyStates
<1>3. CASE hub' = [hub EXCEPT !.read = Truth(box # "none"), !.recheck = FALSE] /\ UNCHANGED history
  <2>1. truth = Truth(box # "none")
    BY <1>2, <1>3 DEF TypeOK, KeyStates
  <2> QED
    BY <1>2, <1>3, <2>1 DEF TypeOK, Truth, Gone, history
<1>4. CASE /\ box # "none"
           /\ hub' = [hub EXCEPT !.read = Truth(FALSE), !.recheck = FALSE]
           /\ misled' = (misled \/ (box # "exited" /\ Truth(FALSE) = "gone"))
  <2>1. truth = Truth(FALSE)
    BY <1>2, <1>4 DEF TypeOK, KeyStates
  <2> QED
    BY <1>2, <1>4, <2>1 DEF TypeOK, Truth, Gone
<1> QED
  BY <1>3, <1>4 DEF ReadStatus

\* killContainer: its intent closes the key for this runtime and the next, and
\* its stop() answers for the end nobody will hear of.
LEMMA KillStep ==
  ASSUME RInv, TypeOK', NEW calls \in BOOLEAN, NEW refused \in BOOLEAN,
         KillContainer(calls, refused), host = "up"
  PROVE  RInv'
<1> USE DEF RInv, TypeOK, KillContainer, Ends, Tracked
<1>1. Tracked /\ entry \in stopping' /\ hub'.intent /\ hub'.known /\ hub'.armed
  BY DEF KeyStates, KeyIsTheEntrys
<1>2. UNCHANGED <<entry, phase, wake, respawn, host, status, stream, stale>>
  OBVIOUS
<1>3. OneWake' /\ WakesKnow' /\ EntryIsLive'
  BY <1>1, <1>2 DEF KeyStates, OneWake, WakesKnow, EntryIsLive
<1>4. StartsAlone' /\ RunningIsWritten'
  BY <1>2 DEF StartsAlone, RunningIsWritten, NoWake
<1>5. KeyIsTheEntrys'
  BY <1>1, <1>2 DEF KeyStates, KeyIsTheEntrys
<1>6. EndsAreTrue'
  BY <1>1, <1>2 DEF KeyStates, EndsAreTrue, KeyIsTheEntrys, Closed, Gone
<1>7. EndIsOnItsWay'
  BY <1>1, <1>2 DEF EndIsOnItsWay
<1> QED
  BY <1>3, <1>4, <1>5, <1>6, <1>7

\* Every step keeps the invariant.
LEMMA Step == RInv /\ TypeOK' /\ [Next]_vars => RInv'
<1> SUFFICES ASSUME RInv, TypeOK', [Next]_vars PROVE RInv'
  OBVIOUS
<1>0. ASSUME NEW refused \in BOOLEAN, KillContainer(TRUE, refused), host = "up"
      PROVE  RInv'
  BY <1>0, KillStep
<1> USE RegistryAssumption DEF RInv, TypeOK, OneWake, WakesKnow, EntryIsLive, StartsAlone,
        KeyIsTheEntrys, EndsAreTrue, RunningIsWritten, EndIsOnItsWay, Tracked, Closed, Gone, NoWake,
        docker, events, registry, history
<1>1. CASE BoxStarts
  BY <1>1 DEF BoxStarts
<1>2. CASE StartRefused
  BY <1>2 DEF StartRefused, Fault
<1>3. CASE BoxExits
  BY <1>3 DEF BoxExits, Fault, Ends
<1>4. CASE BoxRemoved
  BY <1>4 DEF BoxRemoved, Ends
<1>5. CASE AttachExits
  BY <1>5 DEF AttachExits
<1>6. CASE Replay
  BY <1>6 DEF Replay
<1>7. CASE Subscribed
  BY <1>7 DEF Subscribed
<1>8. CASE StreamDrops
  BY <1>8 DEF StreamDrops, Fault
<1>9. CASE Reconnect
  BY <1>9 DEF Reconnect, Fault
<1>10. CASE OtherArms
  BY <1>10 DEF OtherArms
<1>11. CASE FirstPoll
  BY <1>11 DEF FirstPoll, Fault
<1>12. CASE RowDone
  BY <1>12 DEF RowDone
<1>13. CASE Respawn
  BY <1>13 DEF Respawn, CanSpawn, Free
<1>14. CASE Hinted
  <2>1. CASE Closed /\ UNCHANGED <<hub, history>>
    BY <1>14, <2>1 DEF Hinted
  <2>2. CASE ~Closed /\ hub.read # "no" /\ hub' = Queued /\ UNCHANGED history
    BY <1>14, <2>2 DEF Hinted, Queued, KeyStates, NoKey
  <2>3. CASE ~Closed /\ hub.read = "no" /\ ReadStatus
    BY <1>14, <2>3, ReadStatusKeeps DEF Hinted, NoKey
  <2> QED
    BY <1>14, <2>1, <2>2, <2>3 DEF Hinted
<1>15. CASE Verified
  <2>1. /\ hub.known /\ hub'.known /\ hub'.read = "no"
        /\ hub'.armed = hub.armed /\ hub'.intent = hub.intent
        /\ hub'.fired = (hub.fired \/ ~hub.intent)
        /\ hub'.pending = (hub.pending \/ ~(Closed \/ hub.armed))
    BY <1>15 DEF Verified, KeyStates, NoKey
  <2>2. CASE ~Closed /\ hub.armed /\ FinishAndResolve
    BY ZenonT(60), <1>15, <2>1, <2>2 DEF Verified, FinishAndResolve
  <2>3. CASE (Closed \/ ~hub.armed) /\ UNCHANGED <<entry, phase>>
    BY ZenonT(60), <1>15, <2>1, <2>3 DEF Verified
  <2> QED
    BY <1>15, <2>2, <2>3 DEF Verified
<1>16. CASE StillAlive
  <2>1. CASE ~Closed /\ ReadStatus
    BY <1>16, <2>1, ReadStatusKeeps DEF StillAlive, NoKey
  <2>2. CASE ~(hub.recheck /\ ~Closed) /\ hub' = [hub EXCEPT !.read = "no"] /\ UNCHANGED history
    BY <1>16, <2>2 DEF StillAlive, KeyStates, NoKey
  <2> QED
    BY <1>16, <2>1, <2>2 DEF StillAlive
<1>17. CASE StaleReturns
  BY <1>17 DEF StaleReturns, FinishAndResolve
<1>18. CASE RestartWrites
  BY <1>18 DEF RestartWrites
<1>19. CASE RestartKills
  <2>0. host = "up"
    BY <1>19 DEF RestartKills
  <2>1. CASE ~Tracked /\ UNCHANGED <<docker, hint, events, registry, status, row, history>>
    BY <1>19, <2>1 DEF RestartKills
  <2>2. CASE \E refused \in BOOLEAN : KillContainer(TRUE, refused)
    <3>1. PICK refused \in BOOLEAN : KillContainer(TRUE, refused)
      BY <2>2
    <3> QED
      BY <1>0, <2>0, <3>1
  <2> QED
    BY <1>19, <2>1, <2>2 DEF RestartKills
<1>20. CASE SweepKills
  <2>1. PICK refused \in BOOLEAN : KillContainer(FALSE, refused)
    BY <1>20 DEF SweepKills
  <2> QED
    BY <1>20, <2>1, KillStep DEF SweepKills
<1>21. CASE HostRestart
  BY <1>21 DEF HostRestart, Fault, NoKey
<1>22. CASE AdoptLists
  <2>1. CASE box = "running" /\ hub' = FreshKey /\ UNCHANGED <<box, polled, row, hint, history>>
    BY <1>22, <2>1 DEF AdoptLists, FreshKey, NoKey
  <2>2. CASE box # "running" /\ Ends("none") /\ hub' = NoKey /\ UNCHANGED history
    BY <1>22, <2>2 DEF AdoptLists, NoKey, Ends
  <2>3. CASE Fault /\ UNCHANGED hub
    BY <1>22, <2>3 DEF AdoptLists, Fault, Ends
  <2> QED
    BY <1>22, <2>1, <2>2, <2>3 DEF AdoptLists
<1>23. CASE AdoptMarks
  BY <1>23 DEF AdoptMarks
<1>24. CASE Resync
  BY <1>24 DEF Resync, Fault
<1>25. CASE UNCHANGED vars
  BY <1>25 DEF vars
<1>26. ASSUME NEW r \in Runtimes, WakeContainer(r) PROVE RInv'
  BY <1>26 DEF WakeContainer, CanSpawn, Free
<1>27. ASSUME NEW r \in Runtimes, WakeFails(r) PROVE RInv'
  BY <1>27 DEF WakeFails, Fault, Ends
<1>28. ASSUME NEW r \in Runtimes, Prepare(r) PROVE RInv'
  BY <1>28 DEF Prepare, FreshKey, NoKey
<1>29. ASSUME NEW r \in Runtimes, Start(r) PROVE RInv'
  BY <1>29 DEF Start
<1>30. ASSUME NEW r \in Runtimes, Marked(r) PROVE RInv'
  BY <1>30 DEF Marked
<1>31. ASSUME NEW r \in Runtimes, FailedEnds(r) PROVE RInv'
  BY <1>31 DEF FailedEnds
<1>32. ASSUME NEW r \in Runtimes, MarkFails(r) PROVE RInv'
  BY <1>32 DEF MarkFails, Fault
<1>33. ASSUME NEW r \in Runtimes, FinishWrites(r) PROVE RInv'
  BY <1>33 DEF FinishWrites, Fault
<1>34. ASSUME NEW r \in Runtimes, FinishDrops(r) PROVE RInv'
  BY <1>34 DEF FinishDrops
<1>35. ASSUME NEW r \in Runtimes, KillSettles(r) PROVE RInv'
  <2>1. CASE phase[r] = "active" /\ FinishAndResolve
    BY <1>35, <2>1 DEF KillSettles, FinishAndResolve
  <2>2. CASE phase[r] = "dropped"
    BY <1>35, <2>2 DEF KillSettles
  <2>3. CASE phase[r] \in {"free", "finishing", "finished"} /\ UNCHANGED <<entry, phase>>
    BY <1>35, <2>3 DEF KillSettles
  <2> QED
    BY <1>35, <2>1, <2>2, <2>3 DEF KillSettles
<1>36. ASSUME NEW r \in Runtimes, Adopt(r) PROVE RInv'
  BY <1>36 DEF Adopt
<1> QED
  BY <1>1, <1>2, <1>3, <1>4, <1>5, <1>6, <1>7, <1>8, <1>9, <1>10, <1>11, <1>12, <1>13,
     <1>14, <1>15, <1>16, <1>17, <1>18, <1>19, <1>20, <1>21, <1>22, <1>23, <1>24, <1>25,
     <1>26, <1>27, <1>28, <1>29, <1>30, <1>31, <1>32, <1>33, <1>34, <1>35, <1>36
  DEF Next, Spawning, Ending, Hub, Adoption

\* The registry, the hub and the database start empty.
LEMMA StartsTrue == Init => RInv
<1> SUFFICES ASSUME Init PROVE RInv
  OBVIOUS
<1> USE RegistryAssumption DEF Init
<1>1. TypeOK
  <2>1. faults \in 0 .. MaxFaults /\ hub \in KeyStates
    BY KeyTypes
  <2> QED
    BY <2>1 DEF TypeOK
<1>2. OneWake /\ WakesKnow /\ EntryIsLive /\ StartsAlone /\ EndIsOnItsWay /\ RunningIsWritten
  BY DEF OneWake, WakesKnow, EntryIsLive, StartsAlone, EndIsOnItsWay, RunningIsWritten, Tracked
<1>3. KeyIsTheEntrys /\ EndsAreTrue
  BY DEF KeyIsTheEntrys, EndsAreTrue, Tracked, Closed, Gone, NoKey
<1> QED
  BY <1>1, <1>2, <1>3 DEF RInv

\* RInv always holds: the registry, the hub's KeyState, the attach process and
\* container_status agree as far as the code relies on it, whatever docker and
\* the stream do.
THEOREM Inductive == Spec => []RInv
<1>1. RInv /\ [Next]_vars => RInv'
  BY TypeStep, Step DEF RInv
<1> QED
  BY StartsTrue, <1>1, PTL DEF Spec

-----------------------------------------------------------------------------
(* What follows from it.                                                   *)

\* Every variable keeps its type.
THEOREM TypeCorrect == Spec => []TypeOK
<1>1. RInv => TypeOK
  BY DEF RInv
<1> QED
  BY Inductive, <1>1, PTL

\* registerRuntime never replaces an entry (container-runner.ts:268): the two
\* who call it, a spawn and the adoption, find none.
THEOREM NoEntryReplaced == Spec => NeverReplaced
<1>1. ASSUME RInv, [Next]_vars, entry' # entry, entry' # NoRuntime
      PROVE  entry = NoRuntime
  <2> USE <1>1 DEF docker, events, registry, history
  <2>1. \/ \E r \in Runtimes : Start(r) \/ Adopt(r)
        \/ entry' = NoRuntime \/ UNCHANGED entry
    BY DEF Next, Spawning, Ending, Hub, Adoption, vars, BoxStarts, StartRefused, BoxExits,
           BoxRemoved, AttachExits, Replay, Subscribed, StreamDrops, Reconnect, OtherArms,
           FirstPoll, RowDone, Respawn, Hinted, Verified, StillAlive, StaleReturns,
           RestartWrites, RestartKills, SweepKills, KillContainer, HostRestart, AdoptLists,
           AdoptMarks, Resync, WakeContainer, WakeFails, Prepare, Marked, FailedEnds,
           MarkFails, FinishWrites, FinishDrops, KillSettles, FinishAndResolve
  <2>2. ASSUME NEW r \in Runtimes, Start(r)
        PROVE  ~Tracked
    BY <2>2 DEF RInv, WakesKnow, Start
  <2>3. ASSUME NEW r \in Runtimes, Adopt(r)
        PROVE  ~Tracked
    BY <2>3 DEF RInv, StartsAlone, Adopt
  <2> QED
    BY <2>1, <2>2, <2>3 DEF Tracked
<1>2. RInv /\ [Next]_vars => [entry' # entry /\ entry' # NoRuntime => entry = NoRuntime]_vars
  BY <1>1
<1> QED
  BY Inductive, <1>2, PTL DEF Spec, NeverReplaced

\* A running container is tracked (container-runner.ts:99), unless the host was
\* misled: no end that has not happened is believed.
THEOREM RunningIsTracked == Spec => []LiveIsTracked
<1>1. RInv => LiveIsTracked
  BY DEF RInv, EndsAreTrue, LiveIsTracked
<1> QED
  BY Inductive, <1>1, PTL

\* The active delivery poll finds every session whose container is up
\* (delivery.ts:150 over container_status).
THEOREM RunningIsListed == Spec => []ListedForDelivery
<1>1. RInv => ListedForDelivery
  BY DEF RInv, RunningIsWritten, ListedForDelivery
<1> QED
  BY Inductive, <1>1, PTL

\* A runtime this host started hears of its container's end
\* (session-events.ts, docker-driver.ts:457).
THEOREM EndIsHeard == Spec => []EndIsOnItsWay
<1>1. RInv => EndIsOnItsWay
  BY DEF RInv
<1> QED
  BY Inductive, <1>1, PTL
=============================================================================
