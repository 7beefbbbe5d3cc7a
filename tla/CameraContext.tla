---------------------------- MODULE CameraContext ----------------------------
(****************************************************************************)
(* The JNI layer, native-lib.cpp: the map g_camera_map from file descriptor *)
(* to CameraContext, the calls that open, start, stop, release and lock a   *)
(* camera, and frame_callback.  Many threads of the service make these      *)
(* calls at once, and look their context up by file descriptor each time.   *)
(*                                                                          *)
(* A connection (UsbDeviceConnection), the session built on it and the      *)
(* CameraContext that wraps its file descriptor share one number here, as   *)
(* getDeviceSupportedFormats is called once per connection.  The number of  *)
(* a file descriptor is free again once its connection is closed.           *)
(*                                                                          *)
(* Every lock is modelled: g_map_mutex, g_callback_mutex, and per camera    *)
(* uvc_mutex, buffer_mutex and the frameLock of the session.  A stream is   *)
(* what FrameSource says of it: a stop waits for the running callback.      *)
(*                                                                          *)
(* A step of a thread is a stretch of code between two operations other     *)
(* threads can observe.  The labels of its program counter start with the   *)
(* call they belong to: f_ getDeviceSupportedFormats, s_ startUVC, p_       *)
(* stopUVC, r_ releaseUVC, c_ CameraContext::cleanup, rd_ the MJPEG reader, *)
(* k_ the Kotlin code around the calls.                                     *)
(****************************************************************************)
EXTENDS Naturals, FiniteSets

CONSTANTS
  Threads,       \* threads of the service that make JNI calls
  NumFds,        \* bound: numbers a file descriptor can have
  NumContexts,   \* bound: connections opened in a behaviour
  Recovery,      \* may a failed start rebuild its session (UvcStreamingService
                 \* .recoverSessionForStreaming), concurrently with a release?
  NonMjpeg       \* may a camera offer no MJPEG mode?

ASSUME ConstantsAssumption ==
  /\ NumFds \in Nat \ {0} /\ NumContexts \in Nat \ {0}
  /\ Recovery \in BOOLEAN /\ NonMjpeg \in BOOLEAN

Fds      == 1 .. NumFds
Contexts == 1 .. NumContexts
None     == 0

\* Holders of locks: a thread, the callback thread of a context's stream.
Cb(c)  == <<"cb", c>>
Nobody == <<"nobody", 0>>
MapMutex      == <<"map", 0>>
CallbackMutex == <<"callback", 0>>
UvcMutex(c)    == <<"uvc", c>>
BufferMutex(c) == <<"buffer", c>>
FrameLock(c)   == <<"frame", c>>
Locks == {MapMutex, CallbackMutex} \cup
         ({"uvc", "buffer", "frame"} \X Contexts)

ASSUME HoldersAssumption ==
  \A t \in Threads : t # None /\ t # Nobody /\ \A c \in Contexts : t # Cb(c)

VARIABLES
  g_camera_map,  \* fd -> context, or None
  sessionsByFd,  \* fd -> session, or None (the Kotlin map)
  cx,            \* the state of each context, its connection and its stream
  held,          \* lock -> holder, or Nobody
  th,            \* the state of each thread
  cb             \* the state of the callback thread of each context

vars == <<g_camera_map, sessionsByFd, cx, held, th, cb>>

\* conn: the connection.  devh: between uvc_open_internal and uvc_close.
\* ptr: buffer_ptr # nullptr.  served: its session has streamed.  released,
\* recovered: releaseCamera, resp. a recovery, took the session down.
NewContext == [fd |-> None, conn |-> "unused", cleaned_up |-> FALSE,
               devh |-> FALSE, ptr |-> FALSE, stream |-> "stopped",
               served |-> FALSE, released |-> FALSE, recovered |-> FALSE]

\* sess: the session a Kotlin operation works on; ctx: the shared_ptr of the
\* JNI call; ret: where cleanup returns to; k: where the JNI call returns to.
IdleThread == [pc |-> "idle", fd |-> None, sess |-> None, ctx |-> None,
               ret |-> "idle", k |-> "idle"]
IdleCb == [pc |-> "idle", ctx |-> None]

ThreadPcs == {"idle", "f_old", "f_open", "f_publish", "f_modes", "k_close",
              "s_lookup", "s_buffer", "s_lock", "s_stop", "s_relock",
              "s_retry", "k_started", "k_failed", "p_lookup", "p_lock",
              "p_stop", "r_lookup", "r_erase", "c_cas", "c_lock", "c_stop",
              "c_null", "c_drop", "dtor_map", "k_remove", "rd_lookup",
              "rd_lock", "rd_unlock"}
CbPcs == {"idle", "lock", "copy", "recopy", "java", "ready", "pv_lookup",
          "pv_lock", "pv_unlock", "return", "selfjoin"}

\* Where a call dereferences the context it looked up.
DerefPcs == {"f_publish", "f_modes", "s_buffer", "s_lock", "s_stop",
             "s_relock", "s_retry", "p_lock", "p_stop", "r_erase", "c_cas",
             "c_lock", "c_stop", "c_null", "rd_lock"}

TypeOK ==
  /\ g_camera_map \in [Fds -> Contexts \cup {None}]
  /\ sessionsByFd \in [Fds -> Contexts \cup {None}]
  /\ cx \in [Contexts ->
       [fd : Fds \cup {None}, conn : {"unused", "open", "closed"},
        cleaned_up : BOOLEAN, devh : BOOLEAN, ptr : BOOLEAN,
        stream : {"stopped", "streaming", "stopping", "draining"},
        served : BOOLEAN, released : BOOLEAN, recovered : BOOLEAN]]
  /\ held \in [Locks -> Threads \cup {Cb(c) : c \in Contexts} \cup {Nobody}]
  /\ th \in [Threads ->
       [pc : ThreadPcs, fd : Fds \cup {None}, sess : Contexts \cup {None},
        ctx : Contexts \cup {None}, ret : ThreadPcs, k : ThreadPcs]]
  /\ cb \in [Contexts -> [pc : CbPcs, ctx : Contexts \cup {None}]]
  /\ \A t \in Threads : th[t].pc \in DerefPcs => th[t].ctx # None
  /\ \A c \in Contexts : cb[c].pc = "pv_lock" => cb[c].ctx # None

Init ==
  /\ g_camera_map = [f \in Fds |-> None]
  /\ sessionsByFd = [f \in Fds |-> None]
  /\ cx = [c \in Contexts |-> NewContext]
  /\ held = [l \in Locks |-> Nobody]
  /\ th = [t \in Threads |-> IdleThread]
  /\ cb = [c \in Contexts |-> IdleCb]

-----------------------------------------------------------------------------
(* Helpers *)

Free(l) == held[l] = Nobody

\* buffer_mutex is recursive: its holder does not wait for it.
FreeFor(l, holder) == held[l] \in {Nobody, holder}

At(t, label) == th[t].pc = label
Goto(t, label) ==
  th' = [th EXCEPT ![t] = IF label = "idle" THEN IdleThread
                          ELSE [@ EXCEPT !.pc = label]]
Begin(t, label, fd, sess, k) ==
  /\ At(t, "idle")
  /\ th' = [th EXCEPT ![t] = [IdleThread EXCEPT !.pc = label, !.fd = fd,
                                                !.sess = sess, !.k = k]]

\* The context a JNI call found is kept in a local shared_ptr.
Found(t, c, label) ==
  th' = [th EXCEPT ![t] = [@ EXCEPT !.pc = label, !.ctx = c]]

\* The thread goes into CameraContext::cleanup of c, and on to label ret.
CleanUp(t, c, ret) ==
  th' = [th EXCEPT ![t] = [@ EXCEPT !.pc = "c_cas", !.ret = ret, !.ctx = c]]

\* The Kotlin code makes its next JNI call, which returns to k.
Call(t, label, k) == th' = [th EXCEPT ![t] = [@ EXCEPT !.pc = label, !.k = k]]

\* The shared_ptr goes out of scope.
Leave(t, k) == IF k = "idle" THEN Goto(t, k) ELSE Found(t, None, k)

\* Is t's shared_ptr (or the map's, for t = None) the last one to c?
Unshared(c, t) ==
  /\ \A u \in Threads \ {t} : th[u].ctx # c
  /\ \A d \in Contexts : cb[d].ctx # c
LastRef(c, t) == Unshared(c, t) /\ \A f \in Fds : g_camera_map[f] # c

\* A JNI call returns: its shared_ptr goes out of scope, and if it was the
\* last one to a context nobody cleaned up, ~CameraContext calls cleanup.
JniReturnTo(t, k) ==
  LET c == th[t].ctx IN
  IF c # None /\ LastRef(c, t) /\ ~cx[c].cleaned_up
    THEN th' = [th EXCEPT ![t] = [@ EXCEPT !.pc = "c_cas", !.ret = "c_drop", !.k = k]]
    ELSE Leave(t, k)
JniReturn(t) == JniReturnTo(t, th[t].k)

\* uvc_stop_streaming begins, on a stream that may not be there.
StopStream(c) ==
  cx' = [cx EXCEPT ![c].stream =
           IF @ = "streaming"
             THEN IF cb[c].pc = "idle" THEN "stopping" ELSE "draining"
             ELSE @]

\* uvc_stop_streaming can return: the callback is not running.  The callback
\* that may have begun late never begins if the thread saw the stop first.
StreamQuiet(c) == cb[c].pc = "idle"

-----------------------------------------------------------------------------
(* initCamera, createSession: open a connection and call                    *)
(* getDeviceSupportedFormats                                                *)

OpenConnection(t) ==
  \E f \in Fds, c \in Contexts :
    /\ cx[c].conn = "unused" /\ \A d \in 1 .. c - 1 : cx[d].conn # "unused"
    /\ \A d \in Contexts : cx[d].conn = "open" => cx[d].fd # f
    /\ Begin(t, "f_old", f, c, "idle")
    /\ cx' = [cx EXCEPT ![c].conn = "open", ![c].fd = f]
    /\ UNCHANGED <<g_camera_map, sessionsByFd, held, cb>>

\* A context left under this number is erased and cleaned up first.
FormatsEraseOld(t) ==
  LET f == th[t].fd IN
  /\ At(t, "f_old") /\ Free(MapMutex)
  /\ g_camera_map' = [g_camera_map EXCEPT ![f] = None]
  /\ IF g_camera_map[f] = None
       THEN Goto(t, "f_open")
       ELSE CleanUp(t, g_camera_map[f], "f_open")
  /\ UNCHANGED <<sessionsByFd, cx, held, cb>>

FormatsOpen(t) ==
  /\ At(t, "f_open")
  /\ cx' = [cx EXCEPT ![th[t].sess].devh = TRUE]
  /\ Found(t, th[t].sess, "f_publish")
  /\ UNCHANGED <<g_camera_map, sessionsByFd, held, cb>>

\* libusb or libuvc refuse the device: the empty context is dropped.
FormatsOpenFails(t) ==
  /\ At(t, "f_open")
  /\ cx' = [cx EXCEPT ![th[t].sess].cleaned_up = TRUE]
  /\ Found(t, None, "k_close")
  /\ UNCHANGED <<g_camera_map, sessionsByFd, held, cb>>

FormatsPublish(t) ==
  /\ At(t, "f_publish") /\ Free(MapMutex)
  /\ g_camera_map' = [g_camera_map EXCEPT ![th[t].fd] = th[t].ctx]
  /\ Goto(t, "f_modes")
  /\ UNCHANGED <<sessionsByFd, cx, held, cb>>

\* The modes are read from devh, without uvc_mutex; createSession then
\* publishes the session.
FormatsModes(t) ==
  /\ At(t, "f_modes")
  /\ sessionsByFd' = [sessionsByFd EXCEPT ![th[t].fd] = th[t].sess]
  /\ JniReturn(t)
  /\ UNCHANGED <<g_camera_map, cx, held, cb>>

\* Without an MJPEG mode the string is empty, and createSession closes the
\* connection; the context stays in g_camera_map.
FormatsNoModes(t) ==
  /\ NonMjpeg /\ At(t, "f_modes")
  /\ JniReturnTo(t, "k_close")
  /\ UNCHANGED <<g_camera_map, sessionsByFd, cx, held, cb>>

CloseConnection(t) ==
  /\ At(t, "k_close")
  /\ cx' = [cx EXCEPT ![th[t].sess].conn = "closed"]
  /\ Goto(t, "idle")
  /\ UNCHANGED <<g_camera_map, sessionsByFd, held, cb>>

-----------------------------------------------------------------------------
(* startUVC *)

BeginStart(t) ==
  /\ \E f \in Fds : /\ sessionsByFd[f] # None
                    /\ Begin(t, "s_lookup", f, sessionsByFd[f], "k_failed")
  /\ UNCHANGED <<g_camera_map, sessionsByFd, cx, held, cb>>

StartLookup(t) ==
  /\ At(t, "s_lookup") /\ Free(MapMutex)
  /\ IF g_camera_map[th[t].fd] = None
       THEN Goto(t, "k_failed")
       ELSE Found(t, g_camera_map[th[t].fd], "s_buffer")
  /\ UNCHANGED <<g_camera_map, sessionsByFd, cx, held, cb>>

\* The buffer is exchanged under buffer_mutex, before cleaned_up is checked.
StartSetBuffer(t) ==
  /\ At(t, "s_buffer") /\ FreeFor(BufferMutex(th[t].ctx), t)
  /\ cx' = [cx EXCEPT ![th[t].ctx].ptr = TRUE]
  /\ Goto(t, "s_lock")
  /\ UNCHANGED <<g_camera_map, sessionsByFd, held, cb>>

Usable(c) == ~cx[c].cleaned_up /\ cx[c].devh

\* Each time uvc_mutex is (re)acquired the context may have been cleaned up.
StartAborts(t) ==
  /\ th[t].pc \in {"s_lock", "s_relock", "s_retry"}
  /\ Free(UvcMutex(th[t].ctx)) /\ ~Usable(th[t].ctx)
  /\ JniReturn(t)
  /\ UNCHANGED <<g_camera_map, sessionsByFd, cx, held, cb>>

StartStopOld(t) ==
  LET c == th[t].ctx IN
  /\ At(t, "s_lock") /\ Free(UvcMutex(c)) /\ Usable(c)
  /\ held' = [held EXCEPT ![UvcMutex(c)] = t]
  /\ StopStream(c)
  /\ Goto(t, "s_stop")
  /\ UNCHANGED <<g_camera_map, sessionsByFd, cb>>

\* The old stream is gone; uvc_mutex is released for the 250 ms of settling.
StartSettle(t) ==
  LET c == th[t].ctx IN
  /\ At(t, "s_stop") /\ StreamQuiet(c)
  /\ cx' = [cx EXCEPT ![c].stream = "stopped"]
  /\ held' = [held EXCEPT ![UvcMutex(c)] = Nobody]
  /\ Goto(t, "s_relock")
  /\ UNCHANGED <<g_camera_map, sessionsByFd, cb>>

\* The first negotiation fails: uvc_mutex is released again for 200 ms.
StartRetry(t) ==
  /\ At(t, "s_relock") /\ Free(UvcMutex(th[t].ctx)) /\ Usable(th[t].ctx)
  /\ Goto(t, "s_retry")
  /\ UNCHANGED <<g_camera_map, sessionsByFd, cx, held, cb>>

\* Mutant: the context is not checked again after the sleep.
StartStreamsUnchecked(t) ==
  LET c == th[t].ctx IN
  /\ th[t].pc \in {"s_relock", "s_retry"}
  /\ Free(UvcMutex(c)) /\ cx[c].stream = "stopped"
  /\ cx' = [cx EXCEPT ![c].stream = "streaming", ![th[t].sess].served = TRUE]
  /\ JniReturnTo(t, "k_started")
  /\ UNCHANGED <<g_camera_map, sessionsByFd, held, cb>>

\* Negotiation succeeds and so does uvc_start_streaming, unless a stream was
\* started in the meantime (UVC_ERROR_BUSY).
StartStreams(t) ==
  LET c == th[t].ctx IN
  /\ th[t].pc \in {"s_relock", "s_retry"}
  /\ Free(UvcMutex(c)) /\ Usable(c) /\ cx[c].stream = "stopped"
  /\ cx' = [cx EXCEPT ![c].stream = "streaming", ![th[t].sess].served = TRUE]
  /\ JniReturnTo(t, "k_started")
  /\ UNCHANGED <<g_camera_map, sessionsByFd, held, cb>>

StartFails(t) ==
  /\ th[t].pc \in {"s_relock", "s_retry"}
  /\ Free(UvcMutex(th[t].ctx)) /\ Usable(th[t].ctx)
  /\ JniReturn(t)
  /\ UNCHANGED <<g_camera_map, sessionsByFd, cx, held, cb>>

\* awaitFirstFrame: a frame arrives, or the stream is stopped again.
FirstFrame(t) ==
  /\ At(t, "k_started")
  /\ \/ Goto(t, "idle")
     \/ Call(t, "p_lookup", "k_failed")
  /\ UNCHANGED <<g_camera_map, sessionsByFd, cx, held, cb>>

\* The start gives up, or rebuilds the session (bound: a session once): it is
\* released, whatever became of it in the meantime; the connection is then
\* reopened (OpenConnection) and the start repeated (BeginStart).
StartFailed(t) ==
  /\ At(t, "k_failed")
  /\ \/ Goto(t, "idle") /\ UNCHANGED cx
     \/ /\ Recovery /\ ~cx[th[t].sess].recovered
        /\ Call(t, "r_lookup", "k_remove")
        /\ cx' = [cx EXCEPT ![th[t].sess].recovered = TRUE]
  /\ UNCHANGED <<g_camera_map, sessionsByFd, held, cb>>

-----------------------------------------------------------------------------
(* stopUVC *)

BeginStop(t) ==
  /\ \E f \in Fds : /\ sessionsByFd[f] # None
                    /\ Begin(t, "p_lookup", f, sessionsByFd[f], "idle")
  /\ UNCHANGED <<g_camera_map, sessionsByFd, cx, held, cb>>

StopLookup(t) ==
  /\ At(t, "p_lookup") /\ Free(MapMutex)
  /\ IF g_camera_map[th[t].fd] = None
       THEN Goto(t, th[t].k)
       ELSE Found(t, g_camera_map[th[t].fd], "p_lock")
  /\ UNCHANGED <<g_camera_map, sessionsByFd, cx, held, cb>>

StopLock(t) ==
  LET c == th[t].ctx IN
  /\ At(t, "p_lock") /\ Free(UvcMutex(c))
  /\ IF Usable(c)
       THEN /\ held' = [held EXCEPT ![UvcMutex(c)] = t]
            /\ StopStream(c)
            /\ Goto(t, "p_stop")
       ELSE JniReturn(t) /\ UNCHANGED <<held, cx>>
  /\ UNCHANGED <<g_camera_map, sessionsByFd, cb>>

StopDone(t) ==
  LET c == th[t].ctx IN
  /\ At(t, "p_stop") /\ StreamQuiet(c)
  /\ cx' = [cx EXCEPT ![c].stream = "stopped"]
  /\ held' = [held EXCEPT ![UvcMutex(c)] = Nobody]
  /\ JniReturn(t)
  /\ UNCHANGED <<g_camera_map, sessionsByFd, cb>>

-----------------------------------------------------------------------------
(* releaseCamera, releaseSession: releaseUVC, then close the connection *)

\* Mutant: the session state is not checked.
BeginReleaseAgain(t) ==
  \E f \in Fds :
    LET s == sessionsByFd[f] IN
    /\ s # None
    /\ Begin(t, "r_lookup", f, s, "k_remove")
    /\ cx' = [cx EXCEPT ![s].released = TRUE]
    /\ UNCHANGED <<g_camera_map, sessionsByFd, held, cb>>

\* Mutant: the connection is closed before releaseUVC is called.
BeginReleaseClosing(t) ==
  \E f \in Fds :
    LET s == sessionsByFd[f] IN
    /\ s # None /\ ~cx[s].released
    /\ Begin(t, "r_lookup", f, s, "k_remove")
    /\ cx' = [cx EXCEPT ![s].released = TRUE, ![s].conn = "closed"]
    /\ UNCHANGED <<g_camera_map, sessionsByFd, held, cb>>

\* The session state lets releaseCamera through once per session.
BeginRelease(t) ==
  \E f \in Fds :
    LET s == sessionsByFd[f] IN
    /\ s # None /\ ~cx[s].released
    /\ Begin(t, "r_lookup", f, s, "k_remove")
    /\ cx' = [cx EXCEPT ![s].released = TRUE]
    /\ UNCHANGED <<g_camera_map, sessionsByFd, held, cb>>

\* Mutant: releaseUVC only erases; the last reference is left to clean up.
ReleaseOnlyErases(t) ==
  LET f == th[t].fd
      c == g_camera_map[f]
  IN
  /\ At(t, "r_lookup") /\ Free(MapMutex)
  /\ g_camera_map' = [g_camera_map EXCEPT ![f] = None]
  /\ IF c # None /\ Unshared(c, None) /\ ~cx[c].cleaned_up
       THEN CleanUp(t, c, "c_drop")
       ELSE Goto(t, "k_remove")
  /\ UNCHANGED <<sessionsByFd, cx, held, cb>>

ReleaseLookup(t) ==
  /\ At(t, "r_lookup") /\ Free(MapMutex)
  /\ IF g_camera_map[th[t].fd] = None
       THEN Goto(t, "k_remove")
       ELSE CleanUp(t, g_camera_map[th[t].fd], "r_erase")
  /\ UNCHANGED <<g_camera_map, sessionsByFd, cx, held, cb>>

\* Mutant: the entry is erased without buffer_mutex.
ReleaseEraseUnlocked(t) ==
  /\ At(t, "r_erase") /\ Free(MapMutex)
  /\ g_camera_map' = [g_camera_map EXCEPT ![th[t].fd] = None]
  /\ Found(t, None, "k_remove")
  /\ UNCHANGED <<sessionsByFd, cx, held, cb>>

\* Under buffer_mutex, so that a reader that locked it can still find the
\* context to unlock it.  What is erased is whatever the number maps to now;
\* if that was the last reference, its destructor runs under g_map_mutex.
ReleaseErase(t) ==
  LET f == th[t].fd
      a == th[t].ctx
      b == g_camera_map[f]
      destroys == b # None /\ b # a /\ Unshared(b, None) /\ ~cx[b].cleaned_up
  IN
  /\ At(t, "r_erase") /\ FreeFor(BufferMutex(a), t) /\ Free(MapMutex)
  /\ g_camera_map' = [g_camera_map EXCEPT ![f] = None]
  /\ IF destroys
       THEN /\ held' = [held EXCEPT ![BufferMutex(a)] = t, ![MapMutex] = t]
            /\ CleanUp(t, b, "dtor_map")
       ELSE Found(t, None, "k_remove") /\ UNCHANGED held
  /\ UNCHANGED <<sessionsByFd, cx, cb>>

DestructorReturns(t) ==
  /\ \/ At(t, "dtor_map") /\ Found(t, None, "k_remove")
     \/ At(t, "c_drop") /\ Leave(t, th[t].k)
  /\ held' = [l \in Locks |->
                IF held[l] = t /\ (l = MapMutex \/ l[1] = "buffer")
                  THEN Nobody ELSE held[l]]
  /\ UNCHANGED <<g_camera_map, sessionsByFd, cx, cb>>

\* The rest of releaseSession; the recovery goes on to reopen the device.  The number
\* cannot be used again between the removal and the close: they are one step.
RemoveSession(t) ==
  /\ At(t, "k_remove")
  /\ sessionsByFd' = [sessionsByFd EXCEPT ![th[t].fd] = None]
  /\ cx' = [cx EXCEPT ![th[t].sess].conn = "closed"]
  /\ Goto(t, "idle")
  /\ UNCHANGED <<g_camera_map, held, cb>>

-----------------------------------------------------------------------------
(* CameraContext::cleanup *)

\* Mutant: the buffer is forgotten first, before the stream is stopped.
CleanupCasForgets(t) ==
  LET c == th[t].ctx IN
  /\ At(t, "c_cas")
  /\ cx' = [cx EXCEPT ![c].cleaned_up = TRUE, ![c].ptr = FALSE]
  /\ IF cx[c].cleaned_up THEN Goto(t, th[t].ret) ELSE Goto(t, "c_lock")
  /\ UNCHANGED <<g_camera_map, sessionsByFd, held, cb>>

\* The compare-and-swap lets one caller through; the others return at once.
CleanupCas(t) ==
  LET c == th[t].ctx IN
  /\ At(t, "c_cas")
  /\ cx' = [cx EXCEPT ![c].cleaned_up = TRUE]
  /\ IF cx[c].cleaned_up THEN Goto(t, th[t].ret) ELSE Goto(t, "c_lock")
  /\ UNCHANGED <<g_camera_map, sessionsByFd, held, cb>>

\* Mutant: buffer_mutex is held while the stream is stopped.
CleanupLockBoth(t) ==
  LET c == th[t].ctx IN
  /\ At(t, "c_lock") /\ Free(UvcMutex(c)) /\ FreeFor(BufferMutex(c), t)
  /\ held' = [held EXCEPT ![UvcMutex(c)] = t, ![BufferMutex(c)] = t]
  /\ StopStream(c)
  /\ Goto(t, "c_stop")
  /\ UNCHANGED <<g_camera_map, sessionsByFd, cb>>

CleanupLock(t) ==
  LET c == th[t].ctx IN
  /\ At(t, "c_lock") /\ Free(UvcMutex(c))
  /\ held' = [held EXCEPT ![UvcMutex(c)] = t]
  /\ StopStream(c)
  /\ Goto(t, "c_stop")
  /\ UNCHANGED <<g_camera_map, sessionsByFd, cb>>

\* The stream is gone: uvc_close, uvc_exit, and uvc_mutex is released.
CleanupClose(t) ==
  LET c == th[t].ctx IN
  /\ At(t, "c_stop") /\ StreamQuiet(c)
  /\ cx' = [cx EXCEPT ![c].stream = "stopped", ![c].devh = FALSE]
  /\ held' = [held EXCEPT ![UvcMutex(c)] = Nobody]
  /\ Goto(t, "c_null")
  /\ UNCHANGED <<g_camera_map, sessionsByFd, cb>>

\* The buffer is forgotten without buffer_mutex.
CleanupForgetBuffer(t) ==
  /\ At(t, "c_null")
  /\ cx' = [cx EXCEPT ![th[t].ctx].ptr = FALSE]
  /\ Goto(t, th[t].ret)
  /\ UNCHANGED <<g_camera_map, sessionsByFd, held, cb>>

-----------------------------------------------------------------------------
(* MjpegInputStream.read: lockBuffer, copy, unlockBuffer, under frameLock *)

\* A reader is created while its session streams, and outlives it.
BeginRead(t) ==
  \E c \in Contexts :
    /\ cx[c].served /\ Free(FrameLock(c))
    /\ Begin(t, "rd_lookup", cx[c].fd, c, "rd_unlock")
    /\ held' = [held EXCEPT ![FrameLock(c)] = t]
    /\ UNCHANGED <<g_camera_map, sessionsByFd, cx, cb>>

\* lockBuffer does nothing if the number has no context.
ReadLookup(t) ==
  /\ At(t, "rd_lookup") /\ Free(MapMutex)
  /\ IF g_camera_map[th[t].fd] = None
       THEN Goto(t, "rd_unlock")
       ELSE Found(t, g_camera_map[th[t].fd], "rd_lock")
  /\ UNCHANGED <<g_camera_map, sessionsByFd, cx, held, cb>>

ReadLock(t) ==
  /\ At(t, "rd_lock") /\ FreeFor(BufferMutex(th[t].ctx), t)
  /\ held' = [held EXCEPT ![BufferMutex(th[t].ctx)] = t]
  /\ JniReturn(t)
  /\ UNCHANGED <<g_camera_map, sessionsByFd, cx, cb>>

\* unlockBuffer looks the number up again; unlocking a mutex another thread
\* owns, or none, fails without effect.
Unlocked(holder, fd) ==
  LET c == g_camera_map[fd] IN
  IF c # None /\ held[BufferMutex(c)] = holder
    THEN [held EXCEPT ![BufferMutex(c)] = Nobody] ELSE held

ReadUnlock(t) ==
  /\ At(t, "rd_unlock") /\ Free(MapMutex)
  /\ held' = [Unlocked(t, th[t].fd) EXCEPT ![FrameLock(th[t].sess)] = Nobody]
  /\ Goto(t, "idle")
  /\ UNCHANGED <<g_camera_map, sessionsByFd, cx, cb>>

-----------------------------------------------------------------------------
(* frame_callback, on the callback thread of the stream of context c *)

CbGoto(c, label) == cb' = [cb EXCEPT ![c] = [pc |-> label, ctx |-> None]]

\* buffer_ptr is read without buffer_mutex.
CallbackEnter(c) ==
  /\ cb[c].pc = "idle" /\ cx[c].stream \in {"streaming", "stopping"}
  /\ cx[c].ptr
  /\ cx' = [cx EXCEPT ![c].stream = IF @ = "stopping" THEN "draining" ELSE @]
  /\ CbGoto(c, "lock")
  /\ UNCHANGED <<g_camera_map, sessionsByFd, held, th>>

\* "recopy": a lock the preview failed to release is taken a second time.
\* Dropped if cleaned up meanwhile, or if the frame is empty or too large.
CallbackDrop(c) ==
  /\ cb[c].pc = "lock" /\ FreeFor(BufferMutex(c), Cb(c))
  /\ CbGoto(c, "idle")
  /\ UNCHANGED <<g_camera_map, sessionsByFd, cx, held, th>>

CallbackCopy(c) ==
  /\ cb[c].pc = "lock" /\ FreeFor(BufferMutex(c), Cb(c))
  /\ ~cx[c].cleaned_up /\ cx[c].ptr
  /\ held' = [held EXCEPT ![BufferMutex(c)] = Cb(c)]
  /\ CbGoto(c, IF Free(BufferMutex(c)) THEN "copy" ELSE "recopy")
  /\ UNCHANGED <<g_camera_map, sessionsByFd, cx, th>>

CallbackCopied(c) ==
  /\ cb[c].pc \in {"copy", "recopy"}
  /\ held' = [held EXCEPT ![BufferMutex(c)] =
                IF cb[c].pc = "copy" THEN Nobody ELSE @]
  /\ CbGoto(c, "java")
  /\ UNCHANGED <<g_camera_map, sessionsByFd, cx, th>>

CallbackJava(c) ==
  /\ cb[c].pc = "java" /\ Free(CallbackMutex)
  /\ held' = [held EXCEPT ![CallbackMutex] = Cb(c)]
  /\ CbGoto(c, "ready")
  /\ UNCHANGED <<g_camera_map, sessionsByFd, cx, th>>

\* onFrameReady: the size is published under frameLock of the session that
\* has this number, then the listener of the activity may want a preview.  The look
\* at the map and the lock are one step: who removes the session has waited for this
\* callback, in releaseUVC, unless the session is taken down twice.
CallbackReady(c) ==
  LET s == sessionsByFd[cx[c].fd] IN
  /\ cb[c].pc = "ready" /\ (s # None => Free(FrameLock(s)))
  /\ CbGoto(c, "return") \/ (s # None /\ CbGoto(c, "pv_lookup"))
  /\ UNCHANGED <<g_camera_map, sessionsByFd, cx, held, th>>

\* Mutant: lockBuffer does not check that it found a context.
PreviewLookupUnchecked(c) ==
  /\ cb[c].pc = "pv_lookup" /\ Free(MapMutex)
  /\ cb' = [cb EXCEPT ![c] = [ctx |-> g_camera_map[cx[c].fd], pc |-> "pv_lock"]]
  /\ UNCHANGED <<g_camera_map, sessionsByFd, cx, held, th>>

\* The preview locks the buffer as a reader does, on the callback thread.
PreviewLookup(c) ==
  LET d == g_camera_map[cx[c].fd] IN
  /\ cb[c].pc = "pv_lookup" /\ Free(MapMutex)
  /\ cb' = [cb EXCEPT ![c] = [ctx |-> d, pc |-> IF d = None THEN "pv_unlock"
                                                ELSE "pv_lock"]]
  /\ UNCHANGED <<g_camera_map, sessionsByFd, cx, held, th>>

\* If lockBuffer drops the last reference, the destructor runs here and
\* joins the thread it runs on.
PreviewLock(c) ==
  LET d == cb[c].ctx
      last == /\ \A f \in Fds : g_camera_map[f] # d
              /\ \A t \in Threads : th[t].ctx # d
  IN
  /\ cb[c].pc = "pv_lock" /\ FreeFor(BufferMutex(d), Cb(c))
  /\ held' = [held EXCEPT ![BufferMutex(d)] = Cb(c)]
  /\ CbGoto(c, IF last /\ ~cx[d].cleaned_up THEN "selfjoin" ELSE "pv_unlock")
  /\ UNCHANGED <<g_camera_map, sessionsByFd, cx, th>>

PreviewUnlock(c) ==
  /\ cb[c].pc = "pv_unlock" /\ Free(MapMutex)
  /\ held' = Unlocked(Cb(c), cx[c].fd)
  /\ CbGoto(c, "return")
  /\ UNCHANGED <<g_camera_map, sessionsByFd, cx, th>>

CallbackReturn(c) ==
  /\ cb[c].pc = "return"
  /\ held' = [held EXCEPT ![CallbackMutex] = Nobody]
  /\ CbGoto(c, "idle")
  /\ UNCHANGED <<g_camera_map, sessionsByFd, cx, th>>

-----------------------------------------------------------------------------
Begins(t) == \/ OpenConnection(t) \/ BeginStart(t) \/ BeginStop(t)
             \/ BeginRelease(t) \/ BeginRead(t)

ThreadStep(t) ==
  \/ FormatsEraseOld(t) \/ FormatsOpen(t) \/ FormatsOpenFails(t)
  \/ FormatsPublish(t) \/ FormatsModes(t) \/ FormatsNoModes(t)
  \/ CloseConnection(t)
  \/ StartLookup(t) \/ StartSetBuffer(t) \/ StartAborts(t) \/ StartStopOld(t)
  \/ StartSettle(t) \/ StartRetry(t) \/ StartStreams(t) \/ StartFails(t)
  \/ FirstFrame(t) \/ StartFailed(t)
  \/ StopLookup(t) \/ StopLock(t) \/ StopDone(t)
  \/ ReleaseLookup(t) \/ ReleaseErase(t) \/ DestructorReturns(t)
  \/ RemoveSession(t)
  \/ CleanupCas(t) \/ CleanupLock(t) \/ CleanupClose(t)
  \/ CleanupForgetBuffer(t)
  \/ ReadLookup(t) \/ ReadLock(t) \/ ReadUnlock(t)

CallbackStep(c) ==
  \/ CallbackDrop(c) \/ CallbackCopy(c) \/ CallbackCopied(c)
  \/ CallbackJava(c) \/ CallbackReady(c) \/ PreviewLookup(c) \/ PreviewLock(c)
  \/ PreviewUnlock(c) \/ CallbackReturn(c)

Next == \/ \E t \in Threads : Begins(t) \/ ThreadStep(t)
        \/ \E c \in Contexts : CallbackEnter(c) \/ CallbackStep(c)

Spec == Init /\ [][Next]_vars

\* A call once begun goes on, and a thread that wants a mutex obtains it if
\* it is free again and again (strong fairness); so do the callback threads.
\* Nothing obliges anybody to begin a call, nor a camera to send frames.
Fairness == /\ \A t \in Threads : SF_vars(ThreadStep(t))
            /\ \A c \in Contexts : SF_vars(CallbackStep(c))

FairSpec == Spec /\ Fairness

-----------------------------------------------------------------------------
(* Properties *)

\* No stream outlives the libuvc handle it runs on, and none is started on a
\* closed handle after one of the sleeps without uvc_mutex in startUVC.
StreamOnOpenHandle ==
  \A c \in Contexts : cx[c].stream # "stopped" => cx[c].devh

\* frame_callback never copies through buffer_ptr after cleanup forgot it,
\* although cleanup does so without buffer_mutex.
CopyTargetValid ==
  \A c \in Contexts : cb[c].pc \in {"copy", "recopy"} => cx[c].ptr

\* frame_callback works on a raw pointer: while it runs, the map or a call
\* keeps its context alive, and ~CameraContext never runs on its thread.
CallbackContextAlive ==
  \A c \in Contexts :
    cb[c].pc # "idle" => ~LastRef(c, None) /\ cb[c].pc # "selfjoin"

\* getDeviceSupportedFormats reads the descriptors of devh after it published
\* the context, without uvc_mutex: nobody closes the handle meanwhile.
ModesFromOpenHandle ==
  \A t \in Threads : At(t, "f_modes") => cx[th[t].ctx].devh

\* A context leaves g_camera_map only while its buffer is not locked, so that
\* who locked it through the map finds it there to unlock it.
ErasedUnlocked ==
  [][\A f \in Fds : g_camera_map[f] \notin {None, g_camera_map'[f]} =>
       Free(BufferMutex(g_camera_map[f]))]_vars

\* libusb_wrap_sys_device: the file descriptor stays open until the handle
\* that wraps it is closed.
ConnectionOutlivesHandle ==
  \A c \in Contexts : cx[c].devh => cx[c].conn = "open"

\* Every stop and every release returns.
StopsReturn == \A t \in Threads :
  (At(t, "p_lookup") \/ At(t, "r_lookup")) ~> At(t, "idle")

\* Every call returns: no thread waits for ever for a mutex or a callback.
CallsReturn == \A t \in Threads : ~At(t, "idle") ~> At(t, "idle")

=============================================================================
