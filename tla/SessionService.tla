--------------------------- MODULE SessionService ---------------------------
(****************************************************************************)
(* The session table of UvcStreamingService.kt: which camera sessions       *)
(* exist, under which file descriptor and which camera index they are       *)
(* found.  The threads of initCamera, startStreaming (with its recovery)    *)
(* and stopStreaming run beside the main thread, on which MainActivity.kt   *)
(* refreshes the devices, handles detached ones and closes the application. *)
(*                                                                          *)
(* Whether a camera delivers formats, starts, or reopens is decided below   *)
(* (CameraContext, UvcStream); here each answer is possible.  An access to  *)
(* a concurrent map, a synchronized block is one step.                      *)
(****************************************************************************)
EXTENDS Integers, FiniteSets, Sequences

CONSTANTS
  Devices,      \* device names; a device that is plugged in again has a new one
  Fds,          \* file descriptors the kernel may give out
  Workers,      \* threads that may exist at once
  MaxSessions,  \* bound: sessions created in a behaviour
  MaxUserCalls, \* bound: calls of startStreaming and stopStreaming
  MaxAttempts   \* MAX_START_ATTEMPTS

ASSUME ServiceAssumption == /\ IsFiniteSet(Workers)
                            /\ MaxSessions \in Nat /\ MaxUserCalls \in Nat
                            /\ MaxAttempts \in Nat \ {0}

VARIABLES
  attached,     \* devices on the bus
  detachSent,   \* devices whose ACTION_USB_DEVICE_DETACHED is not handled yet
  opened,       \* open file descriptors
  session,      \* the CameraSession objects, in order of creation
  sessionsByFd, sessionsByIndex, reservedIndices, initializingDevices,
  thr,          \* control state of each worker
  main,         \* control state of the main thread
  todo,         \* file descriptors the main thread still has to release
  userCalls     \* calls of startStreaming and stopStreaming so far

tables == <<session, sessionsByFd, sessionsByIndex, reservedIndices>>
bus    == <<attached, detachSent>>
vars == <<bus, opened, tables, initializingDevices, thr, main, todo, userCalls>>

None    == 0
Indices == 0 .. MaxSessions
Ids     == 1 .. MaxSessions
States  == {"IDLE", "STARTING", "STREAMING", "STOPPING", "RELEASING"}
NoFd    == "none"

Registered == {sessionsByFd[f] : f \in Fds} \ {None}
Of(d)      == {s \in Registered : session[s].dev = d}
FreeFds    == Fds \ opened

\* The first index that is neither reserved nor in use.
FreeIndices  == {i \in Indices : i \notin reservedIndices /\ sessionsByIndex[i] = None}
FirstFree(i) == i \in FreeIndices /\ \A j \in FreeIndices : i <= j

(****************************************************************************)
(* A thread: pc, the session s it works on, the session s0 it was started   *)
(* for, the descriptor it was given or has opened, the index and device of  *)
(* the session it creates, and how often it has tried to start.             *)
(****************************************************************************)
Idle == [pc |-> "idle", s |-> None, s0 |-> None, fd |-> NoFd, dev |-> NoFd,
         idx |-> None, n |-> 0]

WorkerPcs ==
  {"idle", "formats", "byFd", "byIndex",
   "claim", "starting", "unmap", "close", "reopen",
   "setStarting", "giveUp", "failed", "started", "stopMark", "stopping"}

MainPcs == {"idle", "open", "unmap", "close", "dead"}

\* The main thread runs no handler; the activity still exists.
MainFree     == main.pc = "dead" \/ (main.pc = "idle" /\ todo = {} /\ main.n = 0)
ActivityFree == MainFree /\ main.pc = "idle"

Init ==
  /\ attached = Devices /\ detachSent = {} /\ opened = {}
  /\ session = <<>>
  /\ sessionsByFd = [f \in Fds |-> None]
  /\ sessionsByIndex = [i \in Indices |-> None]
  /\ reservedIndices = {} /\ initializingDevices = {}
  /\ thr = [t \in Workers |-> Idle]
  /\ main = Idle /\ todo = {}
  /\ userCalls = 0

(****************************************************************************)
(* The bus                                                                  *)
(****************************************************************************)
Unplug(d) ==
  /\ d \in attached
  /\ attached' = attached \ {d} /\ detachSent' = detachSent \cup {d}
  /\ UNCHANGED <<opened, tables, initializingDevices, thr, main, todo, userCalls>>

(****************************************************************************)
(* refreshDeviceList, one device of processConnectedDevices (or openDevice) *)
(* at a time: look for a session, then open and initCamera.                 *)
(****************************************************************************)
Refresh(d) ==
  /\ ActivityFree /\ d \in attached /\ Of(d) = {}
  /\ main' = [Idle EXCEPT !.pc = "open", !.dev = d]
  /\ UNCHANGED <<bus, opened, tables, initializingDevices, thr, todo, userCalls>>

OpenFails ==
  /\ main.pc = "open"
  /\ main' = Idle
  /\ UNCHANGED <<bus, opened, tables, initializingDevices, thr, todo, userCalls>>

\* The connection is closed again when a thread creates a session already.
InitCameraRefused ==
  /\ main.pc = "open" /\ main.dev \in attached /\ main.dev \in initializingDevices
  /\ FreeFds # {}
  /\ main' = Idle
  /\ UNCHANGED <<bus, opened, tables, initializingDevices, thr, todo, userCalls>>

InitCamera(t, f) ==
  /\ main.pc = "open" /\ main.dev \in attached \ initializingDevices
  /\ f \in FreeFds /\ thr[t].pc = "idle"
  /\ opened' = opened \cup {f}
  /\ initializingDevices' = initializingDevices \cup {main.dev}
  /\ thr' = [thr EXCEPT ![t] = [Idle EXCEPT !.pc = "formats", !.dev = main.dev, !.fd = f]]
  /\ main' = Idle
  /\ UNCHANGED <<bus, tables, todo, userCalls>>

(****************************************************************************)
(* createSession, in a thread of initCamera or of a recovery (s # None)     *)
(****************************************************************************)
Step(t, pc) == thr' = [thr EXCEPT ![t].pc = pc]

\* The end of a thread of initCamera.
EndInit(t) == /\ initializingDevices' = initializingDevices \ {thr[t].dev}
              /\ thr' = [thr EXCEPT ![t] = Idle]

\* Mutant: the connection of a camera without formats stays open.
FormatsMissingKeepsOpen(t) ==
  /\ thr[t].pc = "formats"
  /\ IF thr[t].s # None
     THEN Step(t, "giveUp") /\ UNCHANGED initializingDevices
     ELSE EndInit(t)
  /\ UNCHANGED <<bus, opened, tables, main, todo, userCalls>>

FormatsMissing(t) ==
  /\ thr[t].pc = "formats"
  /\ opened' = opened \ {thr[t].fd}
  /\ IF thr[t].s # None
     THEN Step(t, "giveUp") /\ UNCHANGED initializingDevices
     ELSE EndInit(t)
  /\ UNCHANGED <<bus, tables, main, todo, userCalls>>

\* The bound on the sessions.
Creating == {t \in Workers : thr[t].pc = "byFd"}
Room     == Len(session) + Cardinality(Creating) < MaxSessions

\* allocateCameraIndex.
AllocateIndex(t) ==
  /\ thr[t].pc = "formats" /\ thr[t].s = None /\ Room
  /\ \E i \in Indices :
       /\ FirstFree(i)
       /\ thr' = [thr EXCEPT ![t].pc = "byFd", ![t].idx = i]
       /\ reservedIndices' = reservedIndices \cup {i}
  /\ UNCHANGED <<bus, opened, session, sessionsByFd, sessionsByIndex,
                 initializingDevices, main, todo, userCalls>>

\* The index is the one just reserved or, in a recovery, fixedIndex.
RegisterByFd(t) ==
  /\ thr[t].pc = "byFd" \/ (thr[t].pc = "formats" /\ thr[t].s # None /\ Room)
  /\ session' = Append(session, [dev |-> thr[t].dev, fd |-> thr[t].fd, idx |-> thr[t].idx,
                                 state |-> "IDLE", open |-> TRUE, releases |-> 0])
  /\ sessionsByFd' = [sessionsByFd EXCEPT ![thr[t].fd] = Len(session) + 1]
  /\ thr' = [thr EXCEPT ![t].pc = "byIndex", ![t].s = Len(session) + 1]
  /\ UNCHANGED <<bus, opened, sessionsByIndex, reservedIndices, initializingDevices,
                 main, todo, userCalls>>

\* After it a thread of initCamera (s0 = None) ends; one of a recovery goes on.
RegisterByIndex(t) ==
  /\ thr[t].pc = "byIndex"
  /\ LET s == thr[t].s IN
     /\ sessionsByIndex' = [sessionsByIndex EXCEPT ![thr[t].idx] = s]
     /\ session' = [session EXCEPT ![s].releases = IF @ = 0 THEN 0 ELSE @ + 1]
  /\ IF thr[t].s0 # None
     THEN Step(t, "setStarting") /\ UNCHANGED initializingDevices
     ELSE EndInit(t)
  /\ UNCHANGED <<bus, opened, sessionsByFd, reservedIndices, main, todo, userCalls>>

(****************************************************************************)
(* releaseSession: by a recovery, which keeps the index, and by the main    *)
(* thread, which gives it back.  releaseUVC comes first.  The maps are      *)
(* cleared by key, whatever they hold by then.  What follows the removal    *)
(* from sessionsByFd is one step: to give the index and the descriptor back *)
(* only enables other threads.                                              *)
(****************************************************************************)
Unmap(s)   == sessionsByFd' = [sessionsByFd EXCEPT ![session[s].fd] = None]
Unindex(s) ==
  LET i == session[s].idx
      j == sessionsByIndex[i] IN
  sessionsByIndex' = IF j # None /\ session[j].fd = session[s].fd
                     THEN [sessionsByIndex EXCEPT ![i] = None] ELSE sessionsByIndex

\* UsbDeviceConnection.close closes its descriptor once.
CloseConnection(s) ==
  /\ opened' = IF session[s].open THEN opened \ {session[s].fd} ELSE opened
  /\ session' = [session EXCEPT ![s].open = FALSE]

RecoveryUnmap(t) ==
  /\ thr[t].pc = "unmap"
  /\ Unmap(thr[t].s) /\ Step(t, "close")
  /\ UNCHANGED <<bus, opened, session, sessionsByIndex, reservedIndices, initializingDevices,
                 main, todo, userCalls>>

RecoveryClose(t) ==
  /\ thr[t].pc = "close"
  /\ Unindex(thr[t].s) /\ CloseConnection(thr[t].s) /\ Step(t, "reopen")
  /\ UNCHANGED <<bus, sessionsByFd, reservedIndices, initializingDevices, main, todo, userCalls>>

Reopen(t, f) ==
  /\ thr[t].pc = "reopen"
  /\ LET s == thr[t].s IN
     /\ session[s].dev \in attached /\ f \in FreeFds
     /\ opened' = opened \cup {f}
     /\ thr' = [thr EXCEPT ![t].pc = "formats", ![t].fd = f,
                           ![t].dev = session[s].dev, ![t].idx = session[s].idx]
  /\ UNCHANGED <<bus, tables, initializingDevices, main, todo, userCalls>>

ReopenFails(t) ==
  /\ thr[t].pc = "reopen"
  /\ Step(t, "giveUp")
  /\ UNCHANGED <<bus, opened, tables, initializingDevices, main, todo, userCalls>>

\* Mutant: a failed recovery keeps the index.
RecoveryKeepsIndex(t) ==
  /\ thr[t].pc = "giveUp"
  /\ Step(t, "failed")
  /\ UNCHANGED <<bus, opened, tables, initializingDevices, main, todo, userCalls>>

RecoveryGivesUp(t) ==
  /\ thr[t].pc = "giveUp"
  /\ reservedIndices' = reservedIndices \ {session[thr[t].s].idx}
  /\ Step(t, "failed")
  /\ UNCHANGED <<bus, opened, session, sessionsByFd, sessionsByIndex, initializingDevices,
                 main, todo, userCalls>>

SetState(s, st) == session' = [session EXCEPT ![s].state = st]

\* The replacement is marked without a look at its state.
ReplacementStarts(t) ==
  /\ thr[t].pc = "setStarting"
  /\ SetState(thr[t].s, "STARTING")
  /\ thr' = [thr EXCEPT ![t] = [Idle EXCEPT !.pc = "starting", !.s = thr[t].s,
                                           !.s0 = thr[t].s0, !.n = thr[t].n]]
  /\ UNCHANGED <<bus, opened, sessionsByFd, sessionsByIndex, reservedIndices,
                 initializingDevices, main, todo, userCalls>>

(****************************************************************************)
(* startStreaming and startStreamingWithRecovery                            *)
(****************************************************************************)
\* The thread looks the session up by a descriptor the activity read earlier:
\* any descriptor, at any time.  Without a session it ends.
StartStreaming(t, f) ==
  /\ thr[t].pc = "idle" /\ userCalls < MaxUserCalls /\ sessionsByFd[f] # None
  /\ userCalls' = userCalls + 1
  /\ thr' = [thr EXCEPT ![t] = [Idle EXCEPT !.pc = "claim", !.s = sessionsByFd[f],
                                           !.s0 = sessionsByFd[f], !.n = 1]]
  /\ UNCHANGED <<bus, opened, tables, initializingDevices, main, todo>>

ClaimStart(t) ==
  /\ thr[t].pc = "claim" /\ session[thr[t].s].state = "IDLE"
  /\ SetState(thr[t].s, "STARTING") /\ Step(t, "starting")
  /\ UNCHANGED <<bus, opened, sessionsByFd, sessionsByIndex, reservedIndices,
                 initializingDevices, main, todo, userCalls>>

NothingToStart(t) ==
  /\ thr[t].pc = "claim" /\ session[thr[t].s].state # "IDLE"
  /\ thr' = [thr EXCEPT ![t] = Idle]
  /\ UNCHANGED <<bus, opened, tables, initializingDevices, main, todo, userCalls>>

\* One attempt: settle, startUVC and awaitFirstFrame; stopUVC if no frame came.
AttemptSucceeds(t) ==
  /\ thr[t].pc = "starting"
  /\ Step(t, "started")
  /\ UNCHANGED <<bus, opened, tables, initializingDevices, main, todo, userCalls>>

\* Mutant: repeat makes one attempt too many.
AttemptFailsOffByOne(t) ==
  /\ thr[t].pc = "starting"
  /\ IF thr[t].n > MaxAttempts
     THEN Step(t, "failed") /\ UNCHANGED session
     ELSE /\ thr' = [thr EXCEPT ![t].pc = "unmap", ![t].n = @ + 1]
          /\ session' = [session EXCEPT ![thr[t].s].releases = @ + 1]
  /\ UNCHANGED <<bus, opened, sessionsByFd, sessionsByIndex, reservedIndices,
                 initializingDevices, main, todo, userCalls>>

AttemptFails(t) ==
  /\ thr[t].pc = "starting"
  /\ IF thr[t].n = MaxAttempts
     THEN Step(t, "failed") /\ UNCHANGED session
     ELSE /\ thr' = [thr EXCEPT ![t].pc = "unmap", ![t].n = @ + 1]
          /\ session' = [session EXCEPT ![thr[t].s].releases = @ + 1]
  /\ UNCHANGED <<bus, opened, sessionsByFd, sessionsByIndex, reservedIndices,
                 initializingDevices, main, todo, userCalls>>

\* Mutant of Settled: only a start that succeeded leaves STARTING.
SettledOnSuccess(t, s) ==
  IF s = thr[t].s /\ session[s].state = "STARTING" /\ thr[t].pc = "started"
  THEN [session[s] EXCEPT !.state = "STREAMING"] ELSE session[s]

\* The active session gets the outcome and the first one is reset, each only
\* if it is still STARTING.
Settled(t, s) ==
  LET outcome == IF thr[t].pc = "started" /\ s = thr[t].s THEN "STREAMING" ELSE "IDLE" IN
  IF s \in {thr[t].s, thr[t].s0} /\ session[s].state = "STARTING"
  THEN [session[s] EXCEPT !.state = outcome] ELSE session[s]

StartReturns(t) ==
  /\ thr[t].pc \in {"started", "failed"}
  /\ session' = [s \in DOMAIN session |-> Settled(t, s)]
  /\ thr' = [thr EXCEPT ![t] = Idle]
  /\ UNCHANGED <<bus, opened, sessionsByFd, sessionsByIndex, reservedIndices,
                 initializingDevices, main, todo, userCalls>>

(****************************************************************************)
(* stopStreaming                                                            *)
(****************************************************************************)
StopStreaming(t, f) ==
  /\ thr[t].pc = "idle" /\ userCalls < MaxUserCalls /\ sessionsByFd[f] # None
  /\ userCalls' = userCalls + 1
  /\ thr' = [thr EXCEPT ![t] = [Idle EXCEPT !.pc = "stopMark", !.s = sessionsByFd[f],
                                           !.s0 = sessionsByFd[f]]]
  /\ UNCHANGED <<bus, opened, tables, initializingDevices, main, todo>>

MarkStopping(t) ==
  /\ thr[t].pc = "stopMark" /\ session[thr[t].s].state \in {"STREAMING", "STARTING"}
  /\ SetState(thr[t].s, "STOPPING") /\ Step(t, "stopping")
  /\ UNCHANGED <<bus, opened, sessionsByFd, sessionsByIndex, reservedIndices,
                 initializingDevices, main, todo, userCalls>>

NothingToStop(t) ==
  /\ thr[t].pc = "stopMark" /\ session[thr[t].s].state \notin {"STREAMING", "STARTING"}
  /\ thr' = [thr EXCEPT ![t] = Idle]
  /\ UNCHANGED <<bus, opened, tables, initializingDevices, main, todo, userCalls>>

\* After stopUVC.
StopReturns(t) ==
  /\ thr[t].pc = "stopping"
  /\ session' = IF session[thr[t].s].state = "STOPPING"
                THEN [session EXCEPT ![thr[t].s].state = "IDLE"] ELSE session
  /\ thr' = [thr EXCEPT ![t] = Idle]
  /\ UNCHANGED <<bus, opened, sessionsByFd, sessionsByIndex, reservedIndices,
                 initializingDevices, main, todo, userCalls>>

(****************************************************************************)
(* Release on the main thread: todo holds the descriptors it has yet to     *)
(* release.  main.n tells how far the application has been closed: 1 in     *)
(* stopIfIdle, 2 in stopAllAndExit, 3 in the service's onDestroy.           *)
(****************************************************************************)
Detached(d) ==
  /\ ActivityFree /\ d \in detachSent
  /\ detachSent' = detachSent \ {d}
  /\ IF Of(d) = {} THEN UNCHANGED todo ELSE \E s \in Of(d) : todo' = {session[s].fd}
  /\ UNCHANGED <<attached, opened, tables, initializingDevices, thr, main, userCalls>>

MainStep(pc) == main' = [main EXCEPT !.pc = pc]

ReleaseCamera(f) ==
  /\ main.pc = "idle" /\ f \in todo
  /\ LET s == sessionsByFd[f] IN
     IF s = None \/ session[s].state = "RELEASING"
     THEN todo' = todo \ {f} /\ UNCHANGED <<session, main>>
     ELSE /\ session' = [session EXCEPT ![s].state = "RELEASING", ![s].releases = @ + 1]
          /\ main' = [main EXCEPT !.pc = "unmap", !.s = s] /\ UNCHANGED todo
  /\ UNCHANGED <<bus, opened, sessionsByFd, sessionsByIndex, reservedIndices,
                 initializingDevices, thr, userCalls>>

MainUnmap ==
  /\ main.pc = "unmap"
  /\ Unmap(main.s) /\ MainStep("close")
  /\ UNCHANGED <<bus, opened, session, sessionsByIndex, reservedIndices, initializingDevices,
                 thr, todo, userCalls>>

MainClose ==
  /\ main.pc = "close"
  /\ Unindex(main.s) /\ CloseConnection(main.s)
  /\ reservedIndices' = reservedIndices \ {session[main.s].idx}
  /\ todo' = todo \ {session[main.s].fd}
  /\ main' = [main EXCEPT !.pc = "idle", !.s = None]
  /\ UNCHANGED <<bus, sessionsByFd, initializingDevices, thr, userCalls>>

\* stopIfIdle, from the activity's onDestroy: first what does not stream.
StopIfIdle ==
  /\ ActivityFree
  /\ todo' = {session[s].fd : s \in {r \in Registered : session[r].state # "STREAMING"}}
  /\ main' = [main EXCEPT !.n = 1]
  /\ UNCHANGED <<bus, opened, tables, initializingDevices, thr, userCalls>>

StayInBackground ==
  /\ main.pc = "idle" /\ todo = {} /\ main.n = 1 /\ Registered # {}
  /\ main' = Idle
  /\ UNCHANGED <<bus, opened, tables, initializingDevices, thr, todo, userCalls>>

\* stopAllAndExit (1 -> 2), then onDestroy (2 -> 3): release every key there
\* is at that moment.
ReleaseAll ==
  /\ main.pc = "idle" /\ todo = {}
  /\ main.n \in {1, 2} /\ (main.n = 1 => Registered = {})
  /\ todo' = {session[s].fd : s \in Registered}
  /\ main' = [main EXCEPT !.n = @ + 1]
  /\ UNCHANGED <<bus, opened, tables, initializingDevices, thr, userCalls>>

Destroyed ==
  /\ main.pc = "idle" /\ todo = {} /\ main.n = 3
  /\ MainStep("dead")
  /\ UNCHANGED <<bus, opened, tables, initializingDevices, thr, todo, userCalls>>

(****************************************************************************)
(* Specification                                                            *)
(****************************************************************************)
CreateSteps(t) ==
  FormatsMissing(t) \/ AllocateIndex(t) \/ RegisterByFd(t) \/ RegisterByIndex(t)

RecoverySteps(t) ==
  \/ RecoveryUnmap(t) \/ RecoveryClose(t)
  \/ (\E f \in Fds : Reopen(t, f)) \/ ReopenFails(t)
  \/ RecoveryGivesUp(t) \/ ReplacementStarts(t)

StartSteps(t) ==
  \/ ClaimStart(t) \/ NothingToStart(t)
  \/ AttemptSucceeds(t) \/ AttemptFails(t) \/ StartReturns(t)

StopSteps(t) ==
  MarkStopping(t) \/ NothingToStop(t) \/ StopReturns(t)

WorkerSteps(t) == CreateSteps(t) \/ RecoverySteps(t) \/ StartSteps(t) \/ StopSteps(t)

MainSteps ==
  \/ OpenFails \/ InitCameraRefused
  \/ (\E t \in Workers, f \in Fds : InitCamera(t, f))
  \/ (\E d \in Devices : Detached(d))
  \/ (\E f \in Fds : ReleaseCamera(f))
  \/ MainUnmap \/ MainClose
  \/ StayInBackground \/ ReleaseAll \/ Destroyed

Environment ==
  \/ (\E d \in Devices : Unplug(d) \/ Refresh(d))
  \/ (\E t \in Workers, f \in Fds : StartStreaming(t, f) \/ StopStreaming(t, f))
  \/ StopIfIdle

Next == (\E t \in Workers : WorkerSteps(t)) \/ MainSteps \/ Environment

Spec == Init /\ [][Next]_vars

(****************************************************************************)
(* Properties                                                               *)
(****************************************************************************)
SessionSet == [dev : Devices, fd : Fds, idx : Indices, state : States, open : BOOLEAN,
               releases : Nat]

ThreadSet == [pc : WorkerPcs, s : 0 .. Len(session), s0 : 0 .. Len(session),
              fd : Fds \cup {NoFd}, dev : Devices \cup {NoFd}, idx : Indices,
              n : 0 .. MaxAttempts]

MainSet == [pc : MainPcs, s : 0 .. Len(session), s0 : {None}, fd : {NoFd},
            dev : Devices \cup {NoFd}, idx : {None}, n : 0 .. 3]

\* The variables have their types; the tables name sessions that exist, and no start
\* makes more than MAX_START_ATTEMPTS attempts.  (UvcStreamingService)
TypeOK ==
  /\ attached \subseteq Devices /\ detachSent \subseteq Devices
  /\ opened \subseteq Fds
  /\ session \in Seq(SessionSet) /\ Len(session) <= MaxSessions
  /\ sessionsByFd \in [Fds -> 0 .. Len(session)]
  /\ sessionsByIndex \in [Indices -> 0 .. Len(session)]
  /\ reservedIndices \subseteq Indices /\ initializingDevices \subseteq Devices
  /\ thr \in [Workers -> ThreadSet] /\ main \in MainSet
  /\ todo \subseteq Fds
  /\ userCalls \in 0 .. MaxUserCalls

\* No thread and no handler is under way, and no message is waiting.
Quiet == /\ \A t \in Workers : thr[t].pc = "idle"
         /\ MainFree /\ detachSent = {}

\* Ghost: no session has been taken down twice, by a release and a recovery or
\* by two recoveries, or taken down before it was in both maps.
Disjoint == \A s \in DOMAIN session : session[s].releases <= 1

\* No session is left STARTING, STOPPING or RELEASING: the activity offers
\* neither start nor stop for such a session, so it could not be used again.
\* (startStreaming, stopStreaming, recoverSessionForStreaming)
SessionsSettle ==
  Quiet => \A s \in Registered : session[s].state \in {"IDLE", "STREAMING"}

\* Cameras have different indices, /camera/{id} finds each of them and no
\* other, and no index stays reserved for a camera that is gone.
\* (allocateCameraIndex, createSession, releaseSession)
IndicesMatch ==
  Disjoint =>
    /\ \A r, s \in Registered : session[r].idx = session[s].idx => r = s
    /\ Quiet => /\ \A i \in Indices : sessionsByIndex[i] # None
                                      => /\ sessionsByIndex[i] \in Registered
                                         /\ session[sessionsByIndex[i]].idx = i
                /\ reservedIndices = {session[s].idx : s \in Registered}
                /\ \A s \in Registered : sessionsByIndex[session[s].idx] = s

\* A connection is closed, or belongs to a session that can still be found and
\* released, or to a thread that creates one.  (createSession, releaseSession)
NoConnectionLeaks ==
  Disjoint => \A f \in opened :
    \/ sessionsByFd[f] # None /\ session[sessionsByFd[f]].open
    \/ \E t \in Workers : thr[t].fd = f /\ thr[t].pc \in {"formats", "byFd"}
    \/ \E r \in {main} \cup {thr[t] : t \in Workers} :
         r.pc = "close" /\ session[r.s].fd = f
=============================================================================
