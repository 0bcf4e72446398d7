--------------------------- MODULE IoLifecycle_proofs ---------------------------
(***************************************************************************)
(* Proofs about IoLifecycle, with and without an eventfd.                   *)
(***************************************************************************)
EXTENDS IoLifecycle, TLAPS

Ending == {"awaitDone", "deleteTask", "clearHandle", "unregister", "closeFd", "close", "freed"}

\* How far the destructor is, and how far the I/O task.
EndInv ==
    /\ app = "off" <=> io = "none"
    /\ app \in {"off", "loop"} => ~stopping
    /\ app \in Ending => stopping
    /\ ioTaskDone => io = "suspended"
    /\ app = "deleteTask" => io = "suspended" /\ ~ioTaskDone
    /\ app \in {"clearHandle", "unregister", "closeFd", "close", "freed"} <=> io = "deleted"
    /\ io \notin {"none", "entry", "deleted"} => ioTaskHandle

\* The portal serves while the I/O task is in its loop, and the HTTP task runs
\* while the portal serves.
ServerInv ==
    /\ io \in {"none", "entry", "init", "initIo", "leave", "suspended", "deleted"} =>
           ~httpServer
    /\ http # "idle" => httpServer
    /\ flow = "Provisioning" /\ ~portalActive =>
           \/ io \in {"leave", "suspended", "deleted"}
           \/ io = "join" /\ afterJoin # "flow"

\* The event task runs a handler only while it is registered.
HandlerInv ==
    /\ net # "idle" => handlers
    /\ app \in {"closeFd", "close", "freed"} => ~handlers

\* A descriptor that a task has loaded is still the Runtime's, and open.
FdInv ==
    /\ wakeFd => fdOpen
    /\ io \in {"none", "entry", "init"} => ~wakeFd
    /\ app \in {"close", "freed"} => ~wakeFd
    /\ \A p \in Posters : seen[p] => At(p) = "signal" /\ wakeFd

\* A wake-up has arrived or is on its way.
Woken == (IF wakeFd THEN signalled ELSE notified) \/ WakeOnItsWay

\* The I/O task has tested stopping_, and then has taken its orders, and has not
\* slept since.
HasTested ==
    io \in {"orders", "flow", "compute", "asleep"} \/ (io = "join" /\ afterJoin # "leave")
HasTaken == HasTested /\ io # "orders"

\* What the I/O task has looked at in this pass, and what came after its look.
LoopInv ==
    /\ HasTested /\ stopping => Woken
    /\ HasTaken =>
           /\ "reset" \in work => Woken
           /\ "fatal" \in work /\ (flow # "Error" \/ io = "join") => Woken
    /\ io \in {"compute", "asleep"} /\ handlers =>
           /\ flow = "Joining" /\ wifiUp => Woken
           /\ flow \in Linking /\ ~wifiUp => Woken

\* What it has left for after an idle sleep.
IdleInv ==
    io = "asleep" /\ wait = "idle" =>
        /\ flow = "Provisioning" /\ Pending => Woken
        /\ flow = "Joining" => handlers
        /\ flow = "Active" =>
               /\ wakeFd /\ received # "decrypted"
               /\ work \cap {"port", "result"} # {} => Woken

LifeInv == TypeOK /\ EndInv /\ ServerInv /\ HandlerInv /\ FdInv /\ LoopInv /\ IdleInv
--------------------------------------------------------------------------------
(***************************************************************************)
(* Types.                                                                   *)
(***************************************************************************)

FlagsOK ==
    /\ stopping \in BOOLEAN /\ ioTaskHandle \in BOOLEAN /\ ioTaskDone \in BOOLEAN
    /\ wakeFd \in BOOLEAN /\ fdOpen \in BOOLEAN
    /\ signalled \in BOOLEAN /\ notified \in BOOLEAN
    /\ portalActive \in BOOLEAN /\ httpServer \in BOOLEAN
    /\ handlers \in BOOLEAN /\ wifiUp \in BOOLEAN /\ resetHandled \in BOOLEAN
    /\ seen \in [Posters -> BOOLEAN]

\* Where the tasks are.
StagesOK ==
    /\ io \in {"none", "entry", "init", "initIo", "test", "orders", "flow", "compute",
               "asleep", "join", "leave", "suspended", "deleted"}
    /\ afterJoin \in {"erase", "flow", "radio", "leave"}
    /\ wait \in {"short", "idle"}
    /\ app \in {"off", "loop", "load", "signal", "awaitDone",
                "deleteTask", "clearHandle", "unregister", "closeFd", "close", "freed"}
    /\ http \in {"idle", "load", "signal"}
    /\ net \in {"idle", "load", "signal", "notify"}

DataOK ==
    flow \in Flows /\ work \subseteq IoWork /\ received \in {"none", "wire", "decrypted"}

LEMMA TypeParts == TypeOK <=> FlagsOK /\ StagesOK /\ DataOK
    BY DEF TypeOK, FlagsOK, StagesOK, DataOK

LEMMA FlagsStepLemma ==
    ASSUME FlagsOK, [Next]_vars
    PROVE  FlagsOK'
<1> USE DEF FlagsOK, vars, ioVars, posters, wakeVars, endVars, portalVars
<1>1. CASE Begin
    BY <1>1 DEF Begin
<1>2. CASE HoldResetButton
    BY <1>2 DEF HoldResetButton, AppOnly
<1>3. CASE PublishPort
    BY <1>3 DEF PublishPort, AppOnly
<1>4. CASE FinishTool
    BY <1>4 DEF FinishTool, AppOnly
<1>5. CASE Destroy
    BY <1>5 DEF Destroy, AppOnly
<1>6. CASE TakeDone
    BY <1>6 DEF TakeDone, DoneGiven, DestructorRest
<1>7. CASE DeleteTask
    BY <1>7 DEF DeleteTask, DestructorRest
<1>7a. CASE ClearHandle
    BY <1>7a DEF ClearHandle, DestructorRest
<1>8. CASE removeNetworkEventHandlers
    BY <1>8 DEF removeNetworkEventHandlers, HandlersQuiet, DestructorRest
<1>9. CASE TakeWakeFd
    BY <1>9 DEF TakeWakeFd, DestructorRest
<1>10. CASE CloseAndFree
    BY <1>10 DEF CloseAndFree, DestructorRest
<1>11. ASSUME NEW p \in Posters, LoadWakeFd(p) PROVE FlagsOK'
    BY <1>11 DEF LoadWakeFd, Posters, Goes, At
<1>12. ASSUME NEW p \in Posters, SignalIo(p) PROVE FlagsOK'
    BY <1>12 DEF SignalIo, Resumes, Posters, Goes, At
<1>12a. CASE NotifyIo
    BY <1>12a DEF NotifyIo, Resumes, Posters, Goes, At
<1>13. CASE HttpAccept
    BY <1>13 DEF HttpAccept
<1>14. CASE HandoffEnds
    BY <1>14 DEF HandoffEnds
<1>15. CASE StationEvent
    BY <1>15 DEF StationEvent
<1>16. CASE HubSends
    BY <1>16 DEF HubSends
<1>17. CASE IoEntry
    BY <1>17 DEF IoEntry, IoOnly
<1>18. CASE initializeWakeFd
  <2>1. wakeFd' \in BOOLEAN /\ fdOpen' \in BOOLEAN /\ notified' \in BOOLEAN
      BY <1>18 DEF initializeWakeFd
  <2> QED
      BY <1>18, <2>1 DEF initializeWakeFd, IoOnly
<1>19. CASE initializeIo
  <2>1. handlers' \in BOOLEAN /\ wifiUp' \in BOOLEAN
      BY <1>19 DEF initializeIo, startProvisioning, startRuntimeWifi, EnsureHandlers
  <2>2. portalActive' \in BOOLEAN /\ httpServer' \in BOOLEAN
      BY <1>19 DEF initializeIo, startProvisioning, portalBegin
  <2>3. ioTaskDone' \in BOOLEAN
      BY <1>19 DEF initializeIo, SignalDone
  <2> QED
      BY <1>19, <2>1, <2>2, <2>3 DEF initializeIo, IoOnly
<1>20. CASE TestStopping
  <2>1. portalActive' \in BOOLEAN
      BY <1>20 DEF TestStopping, StopPortal
  <2> QED
      BY <1>20, <2>1 DEF TestStopping, LoopTop, IoOnly
<1>21. CASE TakeOrders
  <2>1. portalActive' \in BOOLEAN
      BY <1>21 DEF TakeOrders, StopPortal
  <2> QED
      BY <1>21, <2>1 DEF TakeOrders, LoopTop, IoOnly
<1>22. CASE PortalLoop
    BY <1>22 DEF PortalLoop, StopPortal, LoopTop, IoOnly
<1>23. CASE PortalStopped
    BY <1>23 DEF PortalStopped, JoinHttp, HttpJoined, IoOnly, Unpend
<1>24. CASE EraseEnrollment
  <2>1. portalActive' \in BOOLEAN /\ httpServer' \in BOOLEAN
      BY <1>24 DEF EraseEnrollment, portalBegin
  <2>2. handlers' \in BOOLEAN /\ wifiUp' \in BOOLEAN
      BY <1>24 DEF EraseEnrollment, EnsureHandlers
  <2> QED
      BY <1>24, <2>1, <2>2 DEF EraseEnrollment, JoinHttp, IoOnly
<1>25. CASE StoppedWithoutRadio
    BY <1>25 DEF StoppedWithoutRadio, JoinHttp, HttpJoined, IoOnly, Unpend
<1>26. CASE Idles
    BY <1>26 DEF Idles, InFlow, Pass, IoOnly
<1>27. CASE TakeRequest
  <2>1. handlers' \in BOOLEAN /\ wifiUp' \in BOOLEAN /\ portalActive' \in BOOLEAN
      BY <1>27 DEF TakeRequest, EnsureHandlers, StopPortal
  <2>2. UNCHANGED <<stopping, ioTaskHandle, ioTaskDone, wakeFd, fdOpen, signalled, notified>>
      BY <1>27 DEF TakeRequest, Pass, IoOnly
  <2>3. UNCHANGED <<httpServer, seen, resetHandled>>
      BY <1>27 DEF TakeRequest, Pass, IoOnly
  <2> QED
      BY <2>1, <2>2, <2>3
<1>28. CASE Joined
    BY <1>28 DEF Joined, InFlow, Pass, IoOnly
<1>29. CASE JoinTimedOut
    BY <1>29 DEF JoinTimedOut, InFlow, Pass, IoOnly
<1>30. CASE LinkLost
  <2>1. handlers' \in BOOLEAN /\ wifiUp' \in BOOLEAN
      BY <1>30 DEF LinkLost, startRuntimeWifi, EnsureHandlers
  <2> QED
      BY <1>30, <2>1 DEF LinkLost, Pass, IoOnly
<1>31. CASE Connects
    BY <1>31 DEF Connects, InFlow, Pass, IoOnly, GiveUp
<1>32. CASE ActivePass
    BY <1>32 DEF ActivePass, InFlow, Pass, IoOnly, GiveUp, Receive, Undirty
<1>33. CASE ComputeWait
    BY <1>33 DEF ComputeWait, IoOnly, millisecondsUntilNextIoWork
<1>34. CASE IoWoken
    BY <1>34 DEF IoWoken, Wakes, WaitOver, IoOnly
<1>35. CASE PollTimesOut
    BY <1>35 DEF PollTimesOut, Wakes, IoOnly
<1>36. CASE IdleTimesOut
    BY <1>36 DEF IdleTimesOut, Wakes, IoOnly
<1>37. CASE Leave
    BY <1>37 DEF Leave, SignalDone, IoOnly
<1>38. CASE UNCHANGED vars
    BY <1>38 DEF vars
<1> QED
    BY <1>1, <1>2, <1>3, <1>4, <1>5, <1>6, <1>7, <1>7a, <1>8, <1>9, <1>10, <1>11, <1>12,
      <1>12a, <1>13,
      <1>14, <1>15, <1>16, <1>17, <1>18, <1>19, <1>20, <1>21, <1>22, <1>23, <1>24, <1>25,
      <1>26, <1>27, <1>28, <1>29, <1>30, <1>31, <1>32, <1>33, <1>34, <1>35, <1>36, <1>37,
      <1>38
    DEF Next, AppTask, Destructor, Wake, WakeIo, Others, IoStep, LinkPass

LEMMA StagesStepLemma ==
    ASSUME StagesOK, [Next]_vars
    PROVE  StagesOK'
<1> USE DEF StagesOK, vars, ioVars, posters, wakeVars, endVars, portalVars
<1>1. CASE Begin
    BY <1>1 DEF Begin
<1>2. CASE HoldResetButton
    BY <1>2 DEF HoldResetButton, AppOnly
<1>3. CASE PublishPort
    BY <1>3 DEF PublishPort, AppOnly
<1>4. CASE FinishTool
    BY <1>4 DEF FinishTool, AppOnly
<1>5. CASE Destroy
    BY <1>5 DEF Destroy, AppOnly
<1>6. CASE TakeDone
    BY <1>6 DEF TakeDone, DoneGiven, DestructorRest
<1>7. CASE DeleteTask
    BY <1>7 DEF DeleteTask, DestructorRest
<1>7a. CASE ClearHandle
    BY <1>7a DEF ClearHandle, DestructorRest
<1>8. CASE removeNetworkEventHandlers
    BY <1>8 DEF removeNetworkEventHandlers, HandlersQuiet, DestructorRest
<1>9. CASE TakeWakeFd
    BY <1>9 DEF TakeWakeFd, DestructorRest
<1>10. CASE CloseAndFree
    BY <1>10 DEF CloseAndFree, DestructorRest
<1>11. ASSUME NEW p \in Posters, LoadWakeFd(p) PROVE StagesOK'
    BY <1>11 DEF LoadWakeFd, Posters, Goes, At
<1>12. ASSUME NEW p \in Posters, SignalIo(p) PROVE StagesOK'
    BY <1>12 DEF SignalIo, Resumes, Posters, Goes, At
<1>12a. CASE NotifyIo
    BY <1>12a DEF NotifyIo, Resumes, Posters, Goes, At
<1>13. CASE HttpAccept
    BY <1>13 DEF HttpAccept
<1>14. CASE HandoffEnds
    BY <1>14 DEF HandoffEnds
<1>15. CASE StationEvent
    BY <1>15 DEF StationEvent
<1>16. CASE HubSends
    BY <1>16 DEF HubSends
<1>17. CASE IoEntry
    BY <1>17 DEF IoEntry, IoOnly
<1>18. CASE initializeWakeFd
    BY <1>18 DEF initializeWakeFd, IoOnly
<1>19. CASE initializeIo
    BY <1>19 DEF initializeIo, IoOnly, SignalDone, startProvisioning, startRuntimeWifi,
      portalBegin, EnsureHandlers, Undirty, Flows, Linking
<1>20. CASE TestStopping
    BY <1>20 DEF TestStopping, StopPortal, LoopTop, IoOnly
<1>21. CASE TakeOrders
    BY <1>21 DEF TakeOrders, StopPortal, LoopTop, IoOnly, Undirty, Flows, Linking
<1>22. CASE PortalLoop
    BY <1>22 DEF PortalLoop, StopPortal, LoopTop, IoOnly
<1>23. CASE PortalStopped
    BY <1>23 DEF PortalStopped, JoinHttp, HttpJoined, IoOnly, Unpend
<1>24. CASE EraseEnrollment
    BY <1>24 DEF EraseEnrollment, JoinHttp, HttpJoined, IoOnly, Unpend, Undirty,
      portalBegin, EnsureHandlers, Flows, Linking
<1>25. CASE StoppedWithoutRadio
    BY <1>25 DEF StoppedWithoutRadio, JoinHttp, HttpJoined, IoOnly, Unpend, Flows, Linking
<1>26. CASE Idles
    BY <1>26 DEF Idles, InFlow, Pass, IoOnly
<1>27. CASE TakeRequest
    BY <1>27 DEF TakeRequest, InFlow, Pass, IoOnly, EnsureHandlers, StopPortal, Flows,
      Linking
<1>28. CASE Joined
    BY <1>28 DEF Joined, InFlow, Pass, IoOnly, Flows, Linking
<1>29. CASE JoinTimedOut
    BY <1>29 DEF JoinTimedOut, InFlow, Pass, IoOnly, Flows, Linking
<1>30. CASE LinkLost
    BY <1>30 DEF LinkLost, InFlow, Pass, IoOnly, startRuntimeWifi, EnsureHandlers, Undirty,
      Flows, Linking
<1>31. CASE Connects
    BY <1>31 DEF Connects, InFlow, Pass, IoOnly, GiveUp, Flows, Linking
<1>32. CASE ActivePass
    BY <1>32 DEF ActivePass, InFlow, Pass, IoOnly, GiveUp, Receive, Undirty, Flows, Linking
<1>33. CASE ComputeWait
    BY <1>33 DEF ComputeWait, IoOnly, millisecondsUntilNextIoWork
<1>34. CASE IoWoken
    BY <1>34 DEF IoWoken, Wakes, WaitOver, IoOnly
<1>35. CASE PollTimesOut
    BY <1>35 DEF PollTimesOut, Wakes, IoOnly
<1>36. CASE IdleTimesOut
    BY <1>36 DEF IdleTimesOut, Wakes, IoOnly
<1>37. CASE Leave
    BY <1>37 DEF Leave, SignalDone, IoOnly
<1>38. CASE UNCHANGED vars
    BY <1>38 DEF vars
<1> QED
    BY <1>1, <1>2, <1>3, <1>4, <1>5, <1>6, <1>7, <1>7a, <1>8, <1>9, <1>10, <1>11, <1>12,
      <1>12a, <1>13,
      <1>14, <1>15, <1>16, <1>17, <1>18, <1>19, <1>20, <1>21, <1>22, <1>23, <1>24, <1>25,
      <1>26, <1>27, <1>28, <1>29, <1>30, <1>31, <1>32, <1>33, <1>34, <1>35, <1>36, <1>37,
      <1>38
    DEF Next, AppTask, Destructor, Wake, WakeIo, Others, IoStep, LinkPass

LEMMA DataStepLemma ==
    ASSUME DataOK, [Next]_vars
    PROVE  DataOK'
<1> USE DEF DataOK, IoWork, vars, ioVars, posters, wakeVars, endVars, portalVars
<1>1. CASE Begin
    BY <1>1 DEF Begin
<1>2. CASE HoldResetButton
    BY <1>2 DEF HoldResetButton, AppOnly
<1>3. CASE PublishPort
    BY <1>3 DEF PublishPort, AppOnly
<1>4. CASE FinishTool
    BY <1>4 DEF FinishTool, AppOnly
<1>5. CASE Destroy
    BY <1>5 DEF Destroy, AppOnly
<1>6. CASE TakeDone
    BY <1>6 DEF TakeDone, DoneGiven, DestructorRest
<1>7. CASE DeleteTask
    BY <1>7 DEF DeleteTask, DestructorRest
<1>7a. CASE ClearHandle
    BY <1>7a DEF ClearHandle, DestructorRest
<1>8. CASE removeNetworkEventHandlers
    BY <1>8 DEF removeNetworkEventHandlers, HandlersQuiet, DestructorRest
<1>9. CASE TakeWakeFd
    BY <1>9 DEF TakeWakeFd, DestructorRest
<1>10. CASE CloseAndFree
    BY <1>10 DEF CloseAndFree, DestructorRest
<1>11. ASSUME NEW p \in Posters, LoadWakeFd(p) PROVE DataOK'
    BY <1>11 DEF LoadWakeFd, Posters, Goes, At
<1>12. ASSUME NEW p \in Posters, SignalIo(p) PROVE DataOK'
    BY <1>12 DEF SignalIo, Resumes, Posters, Goes, At
<1>12a. CASE NotifyIo
    BY <1>12a DEF NotifyIo, Resumes, Posters, Goes, At
<1>13. CASE HttpAccept
    BY <1>13 DEF HttpAccept
<1>14. CASE HandoffEnds
    BY <1>14 DEF HandoffEnds
<1>15. CASE StationEvent
    BY <1>15 DEF StationEvent
<1>16. CASE HubSends
    BY <1>16 DEF HubSends
<1>17. CASE IoEntry
    BY <1>17 DEF IoEntry, IoOnly
<1>18. CASE initializeWakeFd
    BY <1>18 DEF initializeWakeFd, IoOnly
<1>19. CASE initializeIo
    BY <1>19 DEF initializeIo, IoOnly, SignalDone, startProvisioning, startRuntimeWifi,
      portalBegin, EnsureHandlers, Undirty, Flows, Linking
<1>20. CASE TestStopping
    BY <1>20 DEF TestStopping, StopPortal, LoopTop, IoOnly
<1>21. CASE TakeOrders
    BY <1>21 DEF TakeOrders, StopPortal, LoopTop, IoOnly, Undirty, Flows, Linking
<1>22. CASE PortalLoop
    BY <1>22 DEF PortalLoop, StopPortal, LoopTop, IoOnly
<1>23. CASE PortalStopped
    BY <1>23 DEF PortalStopped, JoinHttp, HttpJoined, IoOnly, Unpend
<1>24. CASE EraseEnrollment
    BY <1>24 DEF EraseEnrollment, JoinHttp, HttpJoined, IoOnly, Unpend, Undirty,
      portalBegin, EnsureHandlers, Flows, Linking
<1>25. CASE StoppedWithoutRadio
    BY <1>25 DEF StoppedWithoutRadio, JoinHttp, HttpJoined, IoOnly, Unpend, Flows, Linking
<1>26. CASE Idles
    BY <1>26 DEF Idles, InFlow, Pass, IoOnly
<1>27. CASE TakeRequest
    BY <1>27 DEF TakeRequest, InFlow, Pass, IoOnly, EnsureHandlers, StopPortal, Flows,
      Linking
<1>28. CASE Joined
    BY <1>28 DEF Joined, InFlow, Pass, IoOnly, Flows, Linking
<1>29. CASE JoinTimedOut
    BY <1>29 DEF JoinTimedOut, InFlow, Pass, IoOnly, Flows, Linking
<1>30. CASE LinkLost
    BY <1>30 DEF LinkLost, InFlow, Pass, IoOnly, startRuntimeWifi, EnsureHandlers, Undirty,
      Flows, Linking
<1>31. CASE Connects
    BY <1>31 DEF Connects, InFlow, Pass, IoOnly, GiveUp, Flows, Linking
<1>32. CASE ActivePass
    BY <1>32 DEF ActivePass, InFlow, Pass, IoOnly, GiveUp, Receive, Undirty, Flows, Linking
<1>33. CASE ComputeWait
    BY <1>33 DEF ComputeWait, IoOnly, millisecondsUntilNextIoWork
<1>34. CASE IoWoken
    BY <1>34 DEF IoWoken, Wakes, WaitOver, IoOnly
<1>35. CASE PollTimesOut
    BY <1>35 DEF PollTimesOut, Wakes, IoOnly
<1>36. CASE IdleTimesOut
    BY <1>36 DEF IdleTimesOut, Wakes, IoOnly
<1>37. CASE Leave
    BY <1>37 DEF Leave, SignalDone, IoOnly
<1>38. CASE UNCHANGED vars
    BY <1>38 DEF vars
<1> QED
    BY <1>1, <1>2, <1>3, <1>4, <1>5, <1>6, <1>7, <1>7a, <1>8, <1>9, <1>10, <1>11, <1>12,
      <1>12a, <1>13,
      <1>14, <1>15, <1>16, <1>17, <1>18, <1>19, <1>20, <1>21, <1>22, <1>23, <1>24, <1>25,
      <1>26, <1>27, <1>28, <1>29, <1>30, <1>31, <1>32, <1>33, <1>34, <1>35, <1>36, <1>37,
      <1>38
    DEF Next, AppTask, Destructor, Wake, WakeIo, Others, IoStep, LinkPass
--------------------------------------------------------------------------------
(***************************************************************************)
(* The end of a Runtime.                                                    *)
(***************************************************************************)

\* What the steps with many outcomes do.
LEMMA TakeRequestShape ==
    ASSUME TakeRequest
    PROVE  /\ io = "flow" /\ flow = "Provisioning" /\ work' = work \ {"ready"}
           /\ \/ io' = "compute" /\ flow' = "Joining" /\ wifiUp' = FALSE
                 /\ UNCHANGED <<afterJoin, portalActive>>
              \/ io' = "join" /\ afterJoin' = "radio" /\ UNCHANGED <<flow, wifiUp>>
           /\ handlers' \in {handlers, TRUE}
           /\ UNCHANGED <<app, http, net, seen, stopping, ioTaskHandle, ioTaskDone, wakeFd,
                          fdOpen, signalled, notified, httpServer, received, wait>>
    BY DEF TakeRequest, InFlow, Pass, IoOnly, EnsureHandlers, StopPortal, wakeVars

LEMMA InitializeIoShape ==
    ASSUME initializeIo
    PROVE  /\ io = "initIo" /\ io' \in {"suspended", "test"}
           /\ flow' = "Error" => io' = "suspended" /\ UNCHANGED <<httpServer, portalActive>>
           /\ flow' # "Error" => io' = "test" /\ UNCHANGED ioTaskDone
           /\ ioTaskDone' \in {ioTaskDone, TRUE}
           /\ flow' = "Provisioning" => portalActive' = TRUE
           /\ handlers' \in {handlers, TRUE}
           /\ httpServer' \in {httpServer, TRUE}
           /\ UNCHANGED <<app, http, net, seen, stopping, ioTaskHandle, wakeFd,
                          fdOpen, signalled, notified, afterJoin, received, wait>>
<1>1. /\ io = "initIo" /\ io' \in {"suspended", "test"}
      /\ flow' = "Error" => io' = "suspended"
      /\ flow' # "Error" => io' = "test" /\ UNCHANGED ioTaskDone
      /\ ioTaskDone' \in {ioTaskDone, TRUE}
    BY DEF initializeIo, SignalDone
<1>2. /\ flow' = "Error" => UNCHANGED <<httpServer, portalActive>>
      /\ flow' = "Provisioning" => portalActive' = TRUE
      /\ httpServer' \in {httpServer, TRUE}
    BY DEF initializeIo, startProvisioning, startRuntimeWifi, portalBegin, portalVars
<1>3. handlers' \in {handlers, TRUE}
    BY DEF initializeIo, startProvisioning, startRuntimeWifi, EnsureHandlers
<1>4. UNCHANGED <<app, http, net, seen, stopping, ioTaskHandle, wakeFd,
                  fdOpen, signalled, notified, afterJoin, received, wait>>
    BY DEF initializeIo, IoOnly, wakeVars
<1> QED
    BY <1>1, <1>2, <1>3, <1>4

LEMMA EndStepLemma ==
    ASSUME EndInv, [Next]_vars
    PROVE  EndInv'
<1> USE DEF EndInv, Ending, vars, ioVars, posters, wakeVars, endVars, portalVars
<1>1. CASE Begin
    BY <1>1 DEF Begin
<1>2. CASE HoldResetButton
    BY <1>2 DEF HoldResetButton, AppOnly
<1>3. CASE PublishPort
    BY <1>3 DEF PublishPort, AppOnly
<1>4. CASE FinishTool
    BY <1>4 DEF FinishTool, AppOnly
<1>5. CASE Destroy
    BY <1>5 DEF Destroy, AppOnly
<1>6. CASE TakeDone
    BY <1>6 DEF TakeDone, DoneGiven, DestructorRest
<1>7. CASE DeleteTask
    BY <1>7 DEF DeleteTask, DestructorRest
<1>7a. CASE ClearHandle
    BY <1>7a DEF ClearHandle, DestructorRest
<1>8. CASE removeNetworkEventHandlers
    BY <1>8 DEF removeNetworkEventHandlers, HandlersQuiet, DestructorRest
<1>9. CASE TakeWakeFd
    BY <1>9 DEF TakeWakeFd, DestructorRest
<1>10. CASE CloseAndFree
    BY <1>10 DEF CloseAndFree, DestructorRest
<1>11. ASSUME NEW p \in Posters, LoadWakeFd(p) PROVE EndInv'
    BY <1>11 DEF LoadWakeFd, Posters, Goes, At
<1>12. ASSUME NEW p \in Posters, SignalIo(p) PROVE EndInv'
    BY <1>12 DEF SignalIo, Resumes, Posters, Goes, At
<1>12a. CASE NotifyIo
    BY <1>12a DEF NotifyIo, Resumes, Posters, Goes, At
<1>13. CASE HttpAccept
    BY <1>13 DEF HttpAccept
<1>14. CASE HandoffEnds
    BY <1>14 DEF HandoffEnds
<1>15. CASE StationEvent
    BY <1>15 DEF StationEvent
<1>16. CASE HubSends
    BY <1>16 DEF HubSends
<1>17. CASE IoEntry
    BY <1>17 DEF IoEntry, IoOnly
<1>18. CASE initializeWakeFd
    BY <1>18 DEF initializeWakeFd, IoOnly
<1>19. CASE initializeIo
    BY <1>19, InitializeIoShape
<1>20. CASE TestStopping
    BY <1>20 DEF TestStopping, StopPortal, LoopTop, IoOnly
<1>21. CASE TakeOrders
    BY <1>21 DEF TakeOrders, StopPortal, LoopTop, IoOnly, Undirty, Flows, Linking
<1>22. CASE PortalLoop
    BY <1>22 DEF PortalLoop, StopPortal, LoopTop, IoOnly
<1>23. CASE PortalStopped
    BY <1>23 DEF PortalStopped, JoinHttp, HttpJoined, IoOnly, Unpend
<1>24. CASE EraseEnrollment
    BY <1>24 DEF EraseEnrollment, JoinHttp, HttpJoined, IoOnly, Unpend, Undirty,
      portalBegin, EnsureHandlers, Flows, Linking
<1>25. CASE StoppedWithoutRadio
    BY <1>25 DEF StoppedWithoutRadio, JoinHttp, HttpJoined, IoOnly, Unpend, Flows, Linking
<1>26. CASE Idles
    BY <1>26 DEF Idles, InFlow, Pass, IoOnly
<1>27. CASE TakeRequest
  <2>1. /\ io = "flow" /\ io' \in {"compute", "join"}
        /\ UNCHANGED <<app, stopping, ioTaskHandle, ioTaskDone>>
      BY <1>27, TakeRequestShape
  <2> QED
      BY <2>1
<1>28. CASE Joined
    BY <1>28 DEF Joined, InFlow, Pass, IoOnly, Flows, Linking
<1>29. CASE JoinTimedOut
    BY <1>29 DEF JoinTimedOut, InFlow, Pass, IoOnly, Flows, Linking
<1>30. CASE LinkLost
    BY <1>30 DEF LinkLost, InFlow, Pass, IoOnly, startRuntimeWifi, EnsureHandlers, Undirty,
      Flows, Linking
<1>31. CASE Connects
    BY <1>31 DEF Connects, InFlow, Pass, IoOnly, GiveUp, Flows, Linking
<1>32. CASE ActivePass
    BY <1>32 DEF ActivePass, InFlow, Pass, IoOnly, GiveUp, Receive, Undirty, Flows, Linking
<1>33. CASE ComputeWait
    BY <1>33 DEF ComputeWait, IoOnly, millisecondsUntilNextIoWork
<1>34. CASE IoWoken
    BY <1>34 DEF IoWoken, Wakes, WaitOver, IoOnly
<1>35. CASE PollTimesOut
    BY <1>35 DEF PollTimesOut, Wakes, IoOnly
<1>36. CASE IdleTimesOut
    BY <1>36 DEF IdleTimesOut, Wakes, IoOnly
<1>37. CASE Leave
    BY <1>37 DEF Leave, SignalDone, IoOnly
<1>38. CASE UNCHANGED vars
    BY <1>38 DEF vars
<1> QED
    BY <1>1, <1>2, <1>3, <1>4, <1>5, <1>6, <1>7, <1>7a, <1>8, <1>9, <1>10, <1>11, <1>12,
      <1>12a, <1>13,
      <1>14, <1>15, <1>16, <1>17, <1>18, <1>19, <1>20, <1>21, <1>22, <1>23, <1>24, <1>25,
      <1>26, <1>27, <1>28, <1>29, <1>30, <1>31, <1>32, <1>33, <1>34, <1>35, <1>36, <1>37,
      <1>38
    DEF Next, AppTask, Destructor, Wake, WakeIo, Others, IoStep, LinkPass

LEMMA ServerStepLemma ==
    ASSUME EndInv, ServerInv, [Next]_vars
    PROVE  ServerInv'
<1> USE DEF EndInv, ServerInv, vars, ioVars, posters, wakeVars, endVars, portalVars
<1>1. CASE Begin
    BY <1>1 DEF Begin
<1>2. CASE HoldResetButton
    BY <1>2 DEF HoldResetButton, AppOnly
<1>3. CASE PublishPort
    BY <1>3 DEF PublishPort, AppOnly
<1>4. CASE FinishTool
    BY <1>4 DEF FinishTool, AppOnly
<1>5. CASE Destroy
    BY <1>5 DEF Destroy, AppOnly
<1>6. CASE TakeDone
    BY <1>6 DEF TakeDone, DoneGiven, DestructorRest
<1>7. CASE DeleteTask
    BY <1>7 DEF DeleteTask, DestructorRest
<1>7a. CASE ClearHandle
    BY <1>7a DEF ClearHandle, DestructorRest
<1>8. CASE removeNetworkEventHandlers
    BY <1>8 DEF removeNetworkEventHandlers, HandlersQuiet, DestructorRest
<1>9. CASE TakeWakeFd
    BY <1>9 DEF TakeWakeFd, DestructorRest
<1>10. CASE CloseAndFree
    BY <1>10 DEF CloseAndFree, DestructorRest
<1>11. ASSUME NEW p \in Posters, LoadWakeFd(p) PROVE ServerInv'
    BY <1>11 DEF LoadWakeFd, Posters, Goes, At
<1>12. ASSUME NEW p \in Posters, SignalIo(p) PROVE ServerInv'
    BY <1>12 DEF SignalIo, Resumes, Posters, Goes, At
<1>12a. CASE NotifyIo
    BY <1>12a DEF NotifyIo, Resumes, Posters, Goes, At
<1>13. CASE HttpAccept
    BY <1>13 DEF HttpAccept
<1>14. CASE HandoffEnds
    BY <1>14 DEF HandoffEnds
<1>15. CASE StationEvent
    BY <1>15 DEF StationEvent
<1>16. CASE HubSends
    BY <1>16 DEF HubSends
<1>17. CASE IoEntry
    BY <1>17 DEF IoEntry, IoOnly
<1>18. CASE initializeWakeFd
    BY <1>18 DEF initializeWakeFd, IoOnly
<1>19. CASE initializeIo
  <2>1. /\ io = "initIo" /\ io' \in {"suspended", "test"}
        /\ flow' = "Error" => io' = "suspended" /\ httpServer' = httpServer
        /\ flow' # "Error" => io' = "test"
        /\ flow' = "Provisioning" => portalActive' = TRUE
        /\ httpServer' \in {httpServer, TRUE} /\ http' = http
      BY <1>19, InitializeIoShape
  <2> QED
      BY <2>1
<1>20. CASE TestStopping
    BY <1>20 DEF TestStopping, StopPortal, LoopTop, IoOnly
<1>21. CASE TakeOrders
    BY <1>21 DEF TakeOrders, StopPortal, LoopTop, IoOnly, Undirty, Flows, Linking
<1>22. CASE PortalLoop
  <2>1. /\ io = "flow" /\ flow # "Provisioning" /\ io' = "join"
        /\ UNCHANGED <<flow, http, httpServer>>
      BY <1>22 DEF PortalLoop, StopPortal, LoopTop, IoOnly, Linking
  <2> QED
      BY <2>1
<1>23. CASE PortalStopped
    BY <1>23 DEF PortalStopped, JoinHttp, HttpJoined, IoOnly, Unpend
<1>24. CASE EraseEnrollment
    BY <1>24 DEF EraseEnrollment, JoinHttp, HttpJoined, IoOnly, Unpend, Undirty,
      portalBegin, EnsureHandlers, Flows, Linking
<1>25. CASE StoppedWithoutRadio
    BY <1>25 DEF StoppedWithoutRadio, JoinHttp, HttpJoined, IoOnly, Unpend, Flows, Linking
<1>26. CASE Idles
    BY <1>26 DEF Idles, InFlow, Pass, IoOnly
<1>27. CASE TakeRequest
    BY <1>27, TakeRequestShape
<1>28. CASE Joined
    BY <1>28 DEF Joined, InFlow, Pass, IoOnly, Flows, Linking
<1>29. CASE JoinTimedOut
    BY <1>29 DEF JoinTimedOut, InFlow, Pass, IoOnly, Flows, Linking
<1>30. CASE LinkLost
    BY <1>30 DEF LinkLost, InFlow, Pass, IoOnly, startRuntimeWifi, EnsureHandlers, Undirty,
      Flows, Linking
<1>31. CASE Connects
    BY <1>31 DEF Connects, InFlow, Pass, IoOnly, GiveUp, Flows, Linking
<1>32. CASE ActivePass
    BY <1>32 DEF ActivePass, InFlow, Pass, IoOnly, GiveUp, Receive, Undirty, Flows, Linking
<1>33. CASE ComputeWait
    BY <1>33 DEF ComputeWait, IoOnly, millisecondsUntilNextIoWork
<1>34. CASE IoWoken
    BY <1>34 DEF IoWoken, Wakes, WaitOver, IoOnly
<1>35. CASE PollTimesOut
    BY <1>35 DEF PollTimesOut, Wakes, IoOnly
<1>36. CASE IdleTimesOut
    BY <1>36 DEF IdleTimesOut, Wakes, IoOnly
<1>37. CASE Leave
    BY <1>37 DEF Leave, SignalDone, IoOnly
<1>38. CASE UNCHANGED vars
    BY <1>38 DEF vars
<1> QED
    BY <1>1, <1>2, <1>3, <1>4, <1>5, <1>6, <1>7, <1>7a, <1>8, <1>9, <1>10, <1>11, <1>12,
      <1>12a, <1>13,
      <1>14, <1>15, <1>16, <1>17, <1>18, <1>19, <1>20, <1>21, <1>22, <1>23, <1>24, <1>25,
      <1>26, <1>27, <1>28, <1>29, <1>30, <1>31, <1>32, <1>33, <1>34, <1>35, <1>36, <1>37,
      <1>38
    DEF Next, AppTask, Destructor, Wake, WakeIo, Others, IoStep, LinkPass

LEMMA HandlerStepLemma ==
    ASSUME EndInv, HandlerInv, [Next]_vars
    PROVE  HandlerInv'
<1> USE DEF EndInv, HandlerInv, vars, ioVars, posters, wakeVars, endVars, portalVars
<1>1. CASE Begin
    BY <1>1 DEF Begin
<1>2. CASE HoldResetButton
    BY <1>2 DEF HoldResetButton, AppOnly
<1>3. CASE PublishPort
    BY <1>3 DEF PublishPort, AppOnly
<1>4. CASE FinishTool
    BY <1>4 DEF FinishTool, AppOnly
<1>5. CASE Destroy
    BY <1>5 DEF Destroy, AppOnly
<1>6. CASE TakeDone
    BY <1>6 DEF TakeDone, DoneGiven, DestructorRest
<1>7. CASE DeleteTask
    BY <1>7 DEF DeleteTask, DestructorRest
<1>7a. CASE ClearHandle
    BY <1>7a DEF ClearHandle, DestructorRest
<1>8. CASE removeNetworkEventHandlers
    BY <1>8 DEF removeNetworkEventHandlers, HandlersQuiet, DestructorRest
<1>9. CASE TakeWakeFd
    BY <1>9 DEF TakeWakeFd, DestructorRest
<1>10. CASE CloseAndFree
    BY <1>10 DEF CloseAndFree, DestructorRest
<1>11. ASSUME NEW p \in Posters, LoadWakeFd(p) PROVE HandlerInv'
    BY <1>11 DEF LoadWakeFd, Posters, Goes, At
<1>12. ASSUME NEW p \in Posters, SignalIo(p) PROVE HandlerInv'
    BY <1>12 DEF SignalIo, Resumes, Posters, Goes, At
<1>12a. CASE NotifyIo
    BY <1>12a DEF NotifyIo, Resumes, Posters, Goes, At
<1>13. CASE HttpAccept
    BY <1>13 DEF HttpAccept
<1>14. CASE HandoffEnds
    BY <1>14 DEF HandoffEnds
<1>15. CASE StationEvent
    BY <1>15 DEF StationEvent
<1>16. CASE HubSends
    BY <1>16 DEF HubSends
<1>17. CASE IoEntry
    BY <1>17 DEF IoEntry, IoOnly
<1>18. CASE initializeWakeFd
    BY <1>18 DEF initializeWakeFd, IoOnly
<1>19. CASE initializeIo
    BY <1>19, InitializeIoShape
<1>20. CASE TestStopping
    BY <1>20 DEF TestStopping, StopPortal, LoopTop, IoOnly
<1>21. CASE TakeOrders
    BY <1>21 DEF TakeOrders, StopPortal, LoopTop, IoOnly, Undirty, Flows, Linking
<1>22. CASE PortalLoop
    BY <1>22 DEF PortalLoop, StopPortal, LoopTop, IoOnly
<1>23. CASE PortalStopped
    BY <1>23 DEF PortalStopped, JoinHttp, HttpJoined, IoOnly, Unpend
<1>24. CASE EraseEnrollment
    BY <1>24 DEF EraseEnrollment, JoinHttp, HttpJoined, IoOnly, Unpend, Undirty,
      portalBegin, EnsureHandlers, Flows, Linking
<1>25. CASE StoppedWithoutRadio
    BY <1>25 DEF StoppedWithoutRadio, JoinHttp, HttpJoined, IoOnly, Unpend, Flows, Linking
<1>26. CASE Idles
    BY <1>26 DEF Idles, InFlow, Pass, IoOnly
<1>27. CASE TakeRequest
    BY <1>27, TakeRequestShape
<1>28. CASE Joined
    BY <1>28 DEF Joined, InFlow, Pass, IoOnly, Flows, Linking
<1>29. CASE JoinTimedOut
    BY <1>29 DEF JoinTimedOut, InFlow, Pass, IoOnly, Flows, Linking
<1>30. CASE LinkLost
  <2>1. io = "flow" /\ handlers' \in {handlers, TRUE} /\ UNCHANGED <<app, net>>
      BY <1>30 DEF LinkLost, InFlow, Pass, IoOnly, startRuntimeWifi, EnsureHandlers
  <2> QED
      BY <2>1
<1>31. CASE Connects
    BY <1>31 DEF Connects, InFlow, Pass, IoOnly, GiveUp, Flows, Linking
<1>32. CASE ActivePass
    BY <1>32 DEF ActivePass, InFlow, Pass, IoOnly, GiveUp, Receive, Undirty, Flows, Linking
<1>33. CASE ComputeWait
    BY <1>33 DEF ComputeWait, IoOnly, millisecondsUntilNextIoWork
<1>34. CASE IoWoken
    BY <1>34 DEF IoWoken, Wakes, WaitOver, IoOnly
<1>35. CASE PollTimesOut
    BY <1>35 DEF PollTimesOut, Wakes, IoOnly
<1>36. CASE IdleTimesOut
    BY <1>36 DEF IdleTimesOut, Wakes, IoOnly
<1>37. CASE Leave
    BY <1>37 DEF Leave, SignalDone, IoOnly
<1>38. CASE UNCHANGED vars
    BY <1>38 DEF vars
<1> QED
    BY <1>1, <1>2, <1>3, <1>4, <1>5, <1>6, <1>7, <1>7a, <1>8, <1>9, <1>10, <1>11, <1>12,
      <1>12a, <1>13,
      <1>14, <1>15, <1>16, <1>17, <1>18, <1>19, <1>20, <1>21, <1>22, <1>23, <1>24, <1>25,
      <1>26, <1>27, <1>28, <1>29, <1>30, <1>31, <1>32, <1>33, <1>34, <1>35, <1>36, <1>37,
      <1>38
    DEF Next, AppTask, Destructor, Wake, WakeIo, Others, IoStep, LinkPass

LEMMA FdStepLemma ==
    ASSUME FlagsOK, EndInv, ServerInv, HandlerInv, FdInv, [Next]_vars
    PROVE  FdInv'
<1> USE DEF FlagsOK, EndInv, ServerInv, HandlerInv, FdInv, At, Posters, vars, ioVars,
  posters, wakeVars, endVars, portalVars
<1>1. CASE Begin
    BY <1>1 DEF Begin
<1>2. CASE HoldResetButton
    BY <1>2 DEF HoldResetButton, AppOnly
<1>3. CASE PublishPort
    BY <1>3 DEF PublishPort, AppOnly
<1>4. CASE FinishTool
    BY <1>4 DEF FinishTool, AppOnly
<1>5. CASE Destroy
    BY <1>5 DEF Destroy, AppOnly
<1>6. CASE TakeDone
    BY <1>6 DEF TakeDone, DoneGiven, DestructorRest
<1>7. CASE DeleteTask
    BY <1>7 DEF DeleteTask, DestructorRest
<1>7a. CASE ClearHandle
    BY <1>7a DEF ClearHandle, DestructorRest
<1>8. CASE removeNetworkEventHandlers
    BY <1>8 DEF removeNetworkEventHandlers, HandlersQuiet, DestructorRest
<1>9. CASE TakeWakeFd
    BY <1>9 DEF TakeWakeFd, DestructorRest
<1>10. CASE CloseAndFree
    BY <1>10 DEF CloseAndFree, DestructorRest
<1>11. ASSUME NEW p \in Posters, LoadWakeFd(p) PROVE FdInv'
    BY <1>11 DEF LoadWakeFd, Posters, Goes, At
<1>12. ASSUME NEW p \in Posters, SignalIo(p) PROVE FdInv'
    BY <1>12 DEF SignalIo, Resumes, Posters, Goes, At
<1>12a. CASE NotifyIo
    BY <1>12a DEF NotifyIo, Resumes, Posters, Goes, At
<1>13. CASE HttpAccept
    BY <1>13 DEF HttpAccept
<1>14. CASE HandoffEnds
    BY <1>14 DEF HandoffEnds
<1>15. CASE StationEvent
    BY <1>15 DEF StationEvent
<1>16. CASE HubSends
    BY <1>16 DEF HubSends
<1>17. CASE IoEntry
    BY <1>17 DEF IoEntry, IoOnly
<1>18. CASE initializeWakeFd
    BY <1>18 DEF initializeWakeFd, IoOnly
<1>19. CASE initializeIo
    BY <1>19, InitializeIoShape
<1>20. CASE TestStopping
    BY <1>20 DEF TestStopping, StopPortal, LoopTop, IoOnly
<1>21. CASE TakeOrders
    BY <1>21 DEF TakeOrders, StopPortal, LoopTop, IoOnly, Undirty, Flows, Linking
<1>22. CASE PortalLoop
    BY <1>22 DEF PortalLoop, StopPortal, LoopTop, IoOnly
<1>23. CASE PortalStopped
    BY <1>23 DEF PortalStopped, JoinHttp, HttpJoined, IoOnly, Unpend
<1>24. CASE EraseEnrollment
    BY <1>24 DEF EraseEnrollment, JoinHttp, HttpJoined, IoOnly, Unpend, Undirty,
      portalBegin, EnsureHandlers, Flows, Linking
<1>25. CASE StoppedWithoutRadio
    BY <1>25 DEF StoppedWithoutRadio, JoinHttp, HttpJoined, IoOnly, Unpend, Flows, Linking
<1>26. CASE Idles
    BY <1>26 DEF Idles, InFlow, Pass, IoOnly
<1>27. CASE TakeRequest
  <2>1. /\ io = "flow" /\ io' \in {"compute", "join"}
        /\ UNCHANGED <<app, http, net, seen, wakeFd, fdOpen>>
      BY <1>27, TakeRequestShape
  <2> QED
      BY <2>1
<1>28. CASE Joined
    BY <1>28 DEF Joined, InFlow, Pass, IoOnly, Flows, Linking
<1>29. CASE JoinTimedOut
    BY <1>29 DEF JoinTimedOut, InFlow, Pass, IoOnly, Flows, Linking
<1>30. CASE LinkLost
    BY <1>30 DEF LinkLost, InFlow, Pass, IoOnly, startRuntimeWifi, EnsureHandlers, Undirty,
      Flows, Linking
<1>31. CASE Connects
    BY <1>31 DEF Connects, InFlow, Pass, IoOnly, GiveUp, Flows, Linking
<1>32. CASE ActivePass
    BY <1>32 DEF ActivePass, InFlow, Pass, IoOnly, GiveUp, Receive, Undirty, Flows, Linking
<1>33. CASE ComputeWait
    BY <1>33 DEF ComputeWait, IoOnly, millisecondsUntilNextIoWork
<1>34. CASE IoWoken
    BY <1>34 DEF IoWoken, Wakes, WaitOver, IoOnly
<1>35. CASE PollTimesOut
    BY <1>35 DEF PollTimesOut, Wakes, IoOnly
<1>36. CASE IdleTimesOut
    BY <1>36 DEF IdleTimesOut, Wakes, IoOnly
<1>37. CASE Leave
    BY <1>37 DEF Leave, SignalDone, IoOnly
<1>38. CASE UNCHANGED vars
    BY <1>38 DEF vars
<1> QED
    BY <1>1, <1>2, <1>3, <1>4, <1>5, <1>6, <1>7, <1>7a, <1>8, <1>9, <1>10, <1>11, <1>12,
      <1>12a, <1>13,
      <1>14, <1>15, <1>16, <1>17, <1>18, <1>19, <1>20, <1>21, <1>22, <1>23, <1>24, <1>25,
      <1>26, <1>27, <1>28, <1>29, <1>30, <1>31, <1>32, <1>33, <1>34, <1>35, <1>36, <1>37,
      <1>38
    DEF Next, AppTask, Destructor, Wake, WakeIo, Others, IoStep, LinkPass
--------------------------------------------------------------------------------
(***************************************************************************)
(* The sleep.                                                               *)
(***************************************************************************)

\* A wake-up stays on its way or arrives, whoever else takes a step.
LEMMA WokenKept ==
    ASSUME UNCHANGED <<app, http, net, seen, wakeFd, signalled, notified>>, Woken
    PROVE  Woken'
    BY DEF Woken, WakeOnItsWay, At, Posters

LEMMA WokenByLoad ==
    ASSUME "load" \in {app', http', net'}
    PROVE  Woken'
    BY DEF Woken, WakeOnItsWay, At, Posters

\* wakeIo() does what it is for: what it loads is what the I/O task sleeps on.
LEMMA WokenByPoster ==
    ASSUME FlagsOK, FdInv, ioTaskHandle, io # "deleted", Woken,
           NEW p \in Posters, WakeIo(p)
    PROVE  Woken'
<1>1. \A q \in Posters \ {p} : At(q)' = At(q) /\ seen'[q] = seen[q]
    BY DEF WakeIo, LoadWakeFd, SignalIo, NotifyIo, Goes, At, Posters, FlagsOK
<1>2. p # "net" => net' = net
    BY <1>1 DEF At, Posters
<1>3. CASE LoadWakeFd(p)
  <2>1. At(p)' = "signal" /\ seen'[p] = wakeFd' /\ p \in Posters
      BY <1>3 DEF LoadWakeFd, Goes, At, Posters, FlagsOK, wakeVars
  <2> QED
      BY <2>1 DEF Woken, WakeOnItsWay
<1>4. CASE SignalIo(p)
  <2>1. /\ At(p) = "signal" /\ wakeFd' = wakeFd
        /\ (signalled => signalled') /\ (notified => notified')
      BY <1>4 DEF SignalIo
  <2>2. CASE seen[p] /\ wakeFd
    <3>1. signalled'
        BY <1>4, <2>2 DEF SignalIo, FdInv
    <3> QED
        BY <2>1, <2>2, <3>1 DEF Woken
  <2>3. CASE ~seen[p] /\ ~wakeFd
    <3>1. net' = "notify" \/ notified'
        BY <1>4, <2>3 DEF SignalIo, Goes
    <3> QED
        BY <2>1, <2>3, <3>1 DEF Woken, WakeOnItsWay
  <2>4. CASE seen[p] # wakeFd
    <3>1. p = "net" => net # "notify"
        BY <2>1 DEF At
    <3> QED
        BY <1>1, <1>2, <2>1, <2>4, <3>1 DEF Woken, WakeOnItsWay
  <2> QED
      BY <2>2, <2>3, <2>4 DEF FlagsOK
<1>5. CASE p = "net" /\ NotifyIo
  <2>1. /\ At(p) = "notify" /\ UNCHANGED <<wakeFd, signalled>>
        /\ notified => notified'
        /\ ~wakeFd => notified'
      BY <1>5 DEF NotifyIo, At
  <2> QED
      BY <1>1, <2>1 DEF Woken, WakeOnItsWay
<1> QED
    BY <1>3, <1>4, <1>5 DEF WakeIo

LEMMA LoopStepLemma ==
    ASSUME FlagsOK, DataOK, EndInv, FdInv, LoopInv, [Next]_vars
    PROVE  LoopInv'
<1> USE DEF EndInv, LoopInv, HasTested, HasTaken, vars, ioVars, posters, wakeVars, endVars,
  portalVars
<1>1. CASE Begin
    BY <1>1, WokenKept, WokenByLoad DEF Begin
<1>2. CASE HoldResetButton
    BY <1>2, WokenKept, WokenByLoad DEF HoldResetButton, AppOnly
<1>3. CASE PublishPort
    BY <1>3, WokenKept, WokenByLoad DEF PublishPort, AppOnly
<1>4. CASE FinishTool
    BY <1>4, WokenKept, WokenByLoad DEF FinishTool, AppOnly
<1>5. CASE Destroy
    BY <1>5, WokenKept, WokenByLoad DEF Destroy, AppOnly
<1>6. CASE TakeDone
    BY <1>6, WokenKept, WokenByLoad DEF TakeDone, DoneGiven, DestructorRest
<1>7. CASE DeleteTask
    BY <1>7, WokenKept, WokenByLoad DEF DeleteTask, DestructorRest
<1>7a. CASE ClearHandle
    BY <1>7a, WokenKept, WokenByLoad DEF ClearHandle, DestructorRest
<1>8. CASE removeNetworkEventHandlers
    BY <1>8, WokenKept, WokenByLoad
    DEF removeNetworkEventHandlers, HandlersQuiet, DestructorRest
<1>9. CASE TakeWakeFd
    BY <1>9, WokenKept, WokenByLoad DEF TakeWakeFd, DestructorRest
<1>10. CASE CloseAndFree
    BY <1>10, WokenKept, WokenByLoad DEF CloseAndFree, DestructorRest
<1>11. ASSUME NEW p \in Posters, LoadWakeFd(p) PROVE LoopInv'
    BY <1>11, WokenByPoster DEF WakeIo, LoadWakeFd, Posters, Goes, At
<1>12. ASSUME NEW p \in Posters, SignalIo(p) PROVE LoopInv'
    BY <1>12, WokenByPoster DEF WakeIo, SignalIo, Resumes, Posters, Goes, At
<1>12a. CASE NotifyIo
    BY <1>12a, WokenByPoster DEF WakeIo, NotifyIo, Resumes, Posters, Goes, At
<1>13. CASE HttpAccept
    BY <1>13, WokenKept, WokenByLoad DEF HttpAccept
<1>14. CASE HandoffEnds
    BY <1>14, WokenKept, WokenByLoad DEF HandoffEnds
<1>15. CASE StationEvent
    BY <1>15, WokenKept, WokenByLoad DEF StationEvent
<1>16. CASE HubSends
    BY <1>16, WokenKept, WokenByLoad DEF HubSends
<1>17. CASE IoEntry
    BY <1>17, WokenKept, WokenByLoad DEF IoEntry, IoOnly
<1>18. CASE initializeWakeFd
    BY <1>18, WokenKept, WokenByLoad DEF initializeWakeFd, IoOnly
<1>19. CASE initializeIo
    BY <1>19, WokenKept, WokenByLoad
    DEF initializeIo, IoOnly, SignalDone, startProvisioning, startRuntimeWifi,
        portalBegin, EnsureHandlers, Undirty, Flows, Linking
<1>20. CASE TestStopping
    BY <1>20, WokenKept, WokenByLoad DEF TestStopping, StopPortal, LoopTop, IoOnly
<1>21. CASE TakeOrders
    BY <1>21, WokenKept, WokenByLoad
    DEF TakeOrders, StopPortal, LoopTop, IoOnly, Undirty, Flows, Linking
<1>22. CASE PortalLoop
  <2>1. io = "flow" /\ flow # "Error" /\ io' = "join" /\ UNCHANGED <<flow, work, stopping>>
      BY <1>22 DEF PortalLoop, StopPortal, LoopTop, IoOnly, Linking
  <2>2. Woken => Woken'
      BY <1>22, WokenKept DEF PortalLoop, LoopTop, IoOnly
  <2> QED
      BY <2>1, <2>2
<1>23. CASE PortalStopped
    BY <1>23, WokenKept, WokenByLoad DEF PortalStopped, JoinHttp, HttpJoined, IoOnly, Unpend
<1>24. CASE EraseEnrollment
    BY <1>24, WokenKept, WokenByLoad
    DEF EraseEnrollment, JoinHttp, HttpJoined, IoOnly, Unpend, Undirty, portalBegin,
        EnsureHandlers, Flows, Linking
<1>25. CASE StoppedWithoutRadio
    BY <1>25, WokenKept, WokenByLoad
    DEF StoppedWithoutRadio, JoinHttp, HttpJoined, IoOnly, Unpend, Flows, Linking
<1>26. CASE Idles
    BY <1>26, WokenKept, WokenByLoad DEF Idles, InFlow, Pass, IoOnly
<1>27. CASE TakeRequest
  <2>1. /\ io = "flow" /\ flow = "Provisioning"
        /\ work' = work \ {"ready"} /\ stopping' = stopping
        /\ \/ io' = "compute" /\ flow' = "Joining" /\ wifiUp' = FALSE
           \/ io' = "join"
      BY <1>27, TakeRequestShape
  <2>2. Woken => Woken'
      BY <1>27, TakeRequestShape, WokenKept
  <2> QED
      BY <2>1, <2>2 DEF Linking
<1>28. CASE Joined
    BY <1>28, WokenKept, WokenByLoad DEF Joined, InFlow, Pass, IoOnly, Flows, Linking
<1>29. CASE JoinTimedOut
    BY <1>29, WokenKept, WokenByLoad DEF JoinTimedOut, InFlow, Pass, IoOnly, Flows, Linking
<1>30. CASE LinkLost
    BY <1>30, WokenKept, WokenByLoad
    DEF LinkLost, InFlow, Pass, IoOnly, startRuntimeWifi, EnsureHandlers, Undirty, Flows,
        Linking
<1>31. CASE Connects
    BY <1>31, WokenKept, WokenByLoad
    DEF Connects, InFlow, Pass, IoOnly, GiveUp, Flows, Linking
<1>32. CASE ActivePass
    BY <1>32, WokenKept, WokenByLoad
    DEF ActivePass, InFlow, Pass, IoOnly, GiveUp, Receive, Undirty, Flows, Linking
<1>33. CASE ComputeWait
    BY <1>33, WokenKept, WokenByLoad DEF ComputeWait, IoOnly, millisecondsUntilNextIoWork
<1>34. CASE IoWoken
    BY <1>34, WokenKept, WokenByLoad DEF IoWoken, Wakes, WaitOver, IoOnly
<1>35. CASE PollTimesOut
    BY <1>35, WokenKept, WokenByLoad DEF PollTimesOut, Wakes, IoOnly
<1>36. CASE IdleTimesOut
    BY <1>36, WokenKept, WokenByLoad DEF IdleTimesOut, Wakes, IoOnly
<1>37. CASE Leave
    BY <1>37, WokenKept, WokenByLoad DEF Leave, SignalDone, IoOnly
<1>38. CASE UNCHANGED vars
    BY <1>38, WokenKept, WokenByLoad DEF vars
<1> QED
    BY <1>1, <1>2, <1>3, <1>4, <1>5, <1>6, <1>7, <1>7a, <1>8, <1>9, <1>10, <1>11, <1>12,
      <1>12a, <1>13,
      <1>14, <1>15, <1>16, <1>17, <1>18, <1>19, <1>20, <1>21, <1>22, <1>23, <1>24, <1>25,
      <1>26, <1>27, <1>28, <1>29, <1>30, <1>31, <1>32, <1>33, <1>34, <1>35, <1>36, <1>37,
      <1>38
    DEF Next, AppTask, Destructor, Wake, WakeIo, Others, IoStep, LinkPass

LEMMA IdleStepLemma ==
    ASSUME FlagsOK, DataOK, EndInv, ServerInv, FdInv, LoopInv, IdleInv, [Next]_vars
    PROVE  IdleInv'
<1> USE DEF EndInv, IdleInv, vars, ioVars, posters, wakeVars, endVars, portalVars
<1>1. CASE Begin
    BY <1>1, WokenKept, WokenByLoad DEF Begin, Pending
<1>2. CASE HoldResetButton
    BY <1>2, WokenKept, WokenByLoad DEF HoldResetButton, AppOnly, Pending
<1>3. CASE PublishPort
    BY <1>3, WokenKept, WokenByLoad DEF PublishPort, AppOnly, Pending
<1>4. CASE FinishTool
    BY <1>4, WokenKept, WokenByLoad DEF FinishTool, AppOnly, Pending
<1>5. CASE Destroy
    BY <1>5, WokenKept, WokenByLoad DEF Destroy, AppOnly, Pending
<1>6. CASE TakeDone
    BY <1>6, WokenKept, WokenByLoad DEF TakeDone, DoneGiven, DestructorRest, Pending
<1>7. CASE DeleteTask
    BY <1>7, WokenKept, WokenByLoad DEF DeleteTask, DestructorRest, Pending
<1>7a. CASE ClearHandle
    BY <1>7a, WokenKept, WokenByLoad DEF ClearHandle, DestructorRest, Pending
<1>8. CASE removeNetworkEventHandlers
    BY <1>8, WokenKept, WokenByLoad
    DEF removeNetworkEventHandlers, HandlersQuiet, DestructorRest, Pending
<1>9. CASE TakeWakeFd
    BY <1>9, WokenKept, WokenByLoad DEF TakeWakeFd, DestructorRest, Pending
<1>10. CASE CloseAndFree
    BY <1>10, WokenKept, WokenByLoad DEF CloseAndFree, DestructorRest, Pending
<1>11. ASSUME NEW p \in Posters, LoadWakeFd(p) PROVE IdleInv'
    BY <1>11, WokenByPoster DEF WakeIo, LoadWakeFd, Pending, Posters, Goes, At
<1>12. ASSUME NEW p \in Posters, SignalIo(p) PROVE IdleInv'
    BY <1>12, WokenByPoster DEF WakeIo, SignalIo, Resumes, Pending, Posters, Goes, At
<1>12a. CASE NotifyIo
    BY <1>12a, WokenByPoster DEF WakeIo, NotifyIo, Resumes, Pending, Posters, Goes, At
<1>13. CASE HttpAccept
    BY <1>13, WokenKept, WokenByLoad DEF HttpAccept, Pending
<1>14. CASE HandoffEnds
    BY <1>14, WokenKept, WokenByLoad DEF HandoffEnds, Pending
<1>15. CASE StationEvent
    BY <1>15, WokenKept, WokenByLoad DEF StationEvent, Pending
<1>16. CASE HubSends
    BY <1>16, WokenKept, WokenByLoad DEF HubSends, Pending
<1>17. CASE IoEntry
    BY <1>17, WokenKept, WokenByLoad DEF IoEntry, IoOnly, Pending
<1>18. CASE initializeWakeFd
    BY <1>18, WokenKept, WokenByLoad DEF initializeWakeFd, IoOnly, Pending
<1>19. CASE initializeIo
    BY <1>19, WokenKept, WokenByLoad
    DEF initializeIo, IoOnly, SignalDone, startProvisioning, startRuntimeWifi,
        portalBegin, EnsureHandlers, Undirty, Flows, Linking, Pending
<1>20. CASE TestStopping
    BY <1>20, WokenKept, WokenByLoad DEF TestStopping, StopPortal, LoopTop, IoOnly, Pending
<1>21. CASE TakeOrders
    BY <1>21, WokenKept, WokenByLoad
    DEF TakeOrders, StopPortal, LoopTop, IoOnly, Undirty, Flows, Linking, Pending
<1>22. CASE PortalLoop
    BY <1>22, WokenKept, WokenByLoad DEF PortalLoop, StopPortal, LoopTop, IoOnly, Pending
<1>23. CASE PortalStopped
    BY <1>23, WokenKept, WokenByLoad
    DEF PortalStopped, JoinHttp, HttpJoined, IoOnly, Unpend, Pending
<1>24. CASE EraseEnrollment
    BY <1>24, WokenKept, WokenByLoad
    DEF EraseEnrollment, JoinHttp, HttpJoined, IoOnly, Unpend, Undirty, portalBegin,
        EnsureHandlers, Flows, Linking, Pending
<1>25. CASE StoppedWithoutRadio
    BY <1>25, WokenKept, WokenByLoad
    DEF StoppedWithoutRadio, JoinHttp, HttpJoined, IoOnly, Unpend, Flows, Linking, Pending
<1>26. CASE Idles
    BY <1>26, WokenKept, WokenByLoad DEF Idles, InFlow, Pass, IoOnly, Pending
<1>27. CASE TakeRequest
    BY <1>27, WokenKept, WokenByLoad
    DEF TakeRequest, InFlow, Pass, IoOnly, EnsureHandlers, StopPortal, Flows, Linking,
        Pending
<1>28. CASE Joined
    BY <1>28, WokenKept, WokenByLoad
    DEF Joined, InFlow, Pass, IoOnly, Flows, Linking, Pending
<1>29. CASE JoinTimedOut
    BY <1>29, WokenKept, WokenByLoad
    DEF JoinTimedOut, InFlow, Pass, IoOnly, Flows, Linking, Pending
<1>30. CASE LinkLost
    BY <1>30, WokenKept, WokenByLoad
    DEF LinkLost, InFlow, Pass, IoOnly, startRuntimeWifi, EnsureHandlers, Undirty, Flows,
        Linking, Pending
<1>31. CASE Connects
    BY <1>31, WokenKept, WokenByLoad
    DEF Connects, InFlow, Pass, IoOnly, GiveUp, Flows, Linking, Pending
<1>32. CASE ActivePass
    BY <1>32, WokenKept, WokenByLoad
    DEF ActivePass, InFlow, Pass, IoOnly, GiveUp, Receive, Undirty, Flows, Linking,
        Pending
<1>33. CASE ComputeWait
  <2>1. UNCHANGED <<flow, work, handlers, wakeFd, received, portalActive>> /\ io = "compute"
      BY <1>33 DEF ComputeWait, IoOnly
  <2>2. wait' = "idle" => ~DueNow /\ ~Polls
      BY <1>33 DEF ComputeWait, millisecondsUntilNextIoWork
  <2>3. flow = "Provisioning" => portalActive
      BY <2>1 DEF ServerInv
  <2>4. ASSUME ~DueNow, ~Polls
        PROVE  /\ ~(flow = "Provisioning" /\ Pending)
               /\ flow = "Joining" => handlers
               /\ flow = "Active" =>
                      /\ wakeFd /\ received # "decrypted"
                      /\ "port" \notin work /\ "result" \notin work
      BY <2>3, <2>4 DEF DueNow, Polls, PortalDue, outboundPortsDirty
  <2> QED
      BY <2>1, <2>2, <2>4 DEF Pending
<1>34. CASE IoWoken
    BY <1>34, WokenKept, WokenByLoad DEF IoWoken, Wakes, WaitOver, IoOnly, Pending
<1>35. CASE PollTimesOut
    BY <1>35, WokenKept, WokenByLoad DEF PollTimesOut, Wakes, IoOnly, Pending
<1>36. CASE IdleTimesOut
    BY <1>36, WokenKept, WokenByLoad DEF IdleTimesOut, Wakes, IoOnly, Pending
<1>37. CASE Leave
    BY <1>37, WokenKept, WokenByLoad DEF Leave, SignalDone, IoOnly, Pending
<1>38. CASE UNCHANGED vars
  <2>1. UNCHANGED <<io, wait, flow, work, handlers, wakeFd, received>>
      BY <1>38 DEF vars
  <2>2. Woken => Woken'
      BY <1>38, WokenKept DEF vars
  <2> QED
      BY <2>1, <2>2 DEF Pending
<1> QED
    BY <1>1, <1>2, <1>3, <1>4, <1>5, <1>6, <1>7, <1>7a, <1>8, <1>9, <1>10, <1>11, <1>12,
      <1>12a, <1>13,
      <1>14, <1>15, <1>16, <1>17, <1>18, <1>19, <1>20, <1>21, <1>22, <1>23, <1>24, <1>25,
      <1>26, <1>27, <1>28, <1>29, <1>30, <1>31, <1>32, <1>33, <1>34, <1>35, <1>36, <1>37,
      <1>38
    DEF Next, AppTask, Destructor, Wake, WakeIo, Others, IoStep, LinkPass
--------------------------------------------------------------------------------
LEMMA InitLemma == Init => LifeInv
<1> SUFFICES ASSUME Init PROVE LifeInv
    OBVIOUS
<1> USE DEF Init
<1>1. TypeOK
    BY TypeParts DEF FlagsOK, StagesOK, DataOK, Flows
<1>2. EndInv /\ ServerInv /\ HandlerInv
    BY DEF EndInv, ServerInv, HandlerInv, Ending
<1>3. FdInv
    BY DEF FdInv, Posters
<1>4. LoopInv /\ IdleInv
    BY DEF LoopInv, IdleInv, HasTaken, HasTested
<1> QED
    BY <1>1, <1>2, <1>3, <1>4 DEF LifeInv

LEMMA StepLemma == LifeInv /\ [Next]_vars => LifeInv'
<1> SUFFICES ASSUME LifeInv, [Next]_vars PROVE LifeInv'
    OBVIOUS
<1>1. FlagsOK /\ StagesOK /\ DataOK
    BY TypeParts DEF LifeInv
<1>2. FlagsOK' /\ StagesOK' /\ DataOK'
    BY <1>1, FlagsStepLemma, StagesStepLemma, DataStepLemma
<1>3. TypeOK'
    BY <1>2 DEF TypeOK, FlagsOK, StagesOK, DataOK
<1>4. EndInv' /\ ServerInv' /\ HandlerInv'
    BY EndStepLemma, ServerStepLemma, HandlerStepLemma DEF LifeInv
<1>5. FdInv' /\ LoopInv' /\ IdleInv'
    BY <1>1, FdStepLemma, LoopStepLemma, IdleStepLemma DEF LifeInv
<1> QED
    BY <1>3, <1>4, <1>5 DEF LifeInv

LEMMA InvariantLemma == Spec => []LifeInv
    BY InitLemma, StepLemma, PTL DEF Spec

\* Types, with and without an eventfd.
THEOREM TypeCorrect == Spec => []TypeOK
<1>1. LifeInv => TypeOK
    BY DEF LifeInv
<1> QED
    BY InvariantLemma, <1>1, PTL

\* No wake-up of the I/O task is lost, in whatever order the three tasks and the
\* I/O task take their steps (wakeIo, waitForIo and the loop of ioTask).
THEOREM NoWakeIsLost == Spec => []SleepIsSafe
<1>1. LifeInv => SleepIsSafe
  <2> SUFFICES ASSUME LifeInv, io = "asleep", wait = "idle", Awaited
               PROVE  WaitOver \/ WakeOnItsWay
      BY DEF SleepIsSafe
  <2> USE DEF LifeInv
  <2>1. HasTested /\ HasTaken
      BY DEF HasTested, HasTaken
  <2>2. Woken => WaitOver \/ WakeOnItsWay
      BY DEF Woken, WaitOver, Selected
  <2>3. CASE stopping \/ "reset" \in work \/ ("fatal" \in work /\ flow # "Error")
      BY <2>1, <2>2, <2>3 DEF LoopInv
  <2>4. CASE flow = "Provisioning" /\ Pending
      BY <2>2, <2>4 DEF IdleInv
  <2>5. CASE \/ flow = "Joining" /\ wifiUp
             \/ flow \in Linking /\ ~wifiUp /\ handlers
      BY <2>2, <2>5 DEF LoopInv, IdleInv
  <2>6. CASE flow = "Active" /\ work \cap {"port", "result"} # {}
      BY <2>2, <2>6 DEF IdleInv
  <2>7. CASE flow = "Active" /\ received # "none"
    <3>1. received = "wire" /\ wakeFd
        BY <2>7, TypeParts DEF IdleInv, DataOK
    <3> QED
        BY <2>7, <3>1 DEF WaitOver, Selected
  <2> QED
      BY <2>3, <2>4, <2>5, <2>6, <2>7 DEF Awaited
<1> QED
    BY InvariantLemma, <1>1, PTL

\* The HTTP task has left the Runtime when the I/O task is deleted, no task can touch it
\* when it is freed, and no task holds a descriptor that has been closed (~Runtime).
THEOREM NothingIsFreedInUse == Spec => []NothingFreedInUse
<1>1. LifeInv => NothingFreedInUse
  <2> SUFFICES ASSUME LifeInv PROVE NothingFreedInUse
      OBVIOUS
  <2>1. \A p \in Posters : At(p) = "signal" /\ seen[p] => fdOpen
      BY DEF LifeInv, FdInv
  <2>2. /\ io = "deleted" => http = "idle" /\ ~httpServer
        /\ app \in {"closeFd", "close", "freed"} => io = "deleted" /\ net = "idle" /\ ~handlers
      BY DEF LifeInv, EndInv, ServerInv, HandlerInv
  <2> QED
      BY <2>1, <2>2 DEF NothingFreedInUse
<1> QED
    BY InvariantLemma, <1>1, PTL
================================================================================
