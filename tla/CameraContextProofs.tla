------------------------- MODULE CameraContextProofs -------------------------
(****************************************************************************)
(* For any number of threads, file descriptors and connections: a stream    *)
(* never outlives the handle it runs on, and frame_callback never copies    *)
(* through a buffer that cleanup has forgotten.                             *)
(****************************************************************************)
EXTENDS CameraContext, TLAPS

USE ConstantsAssumption

\* Where a JNI call returns to, and where a cleanup returns to.
Continuations == {"idle", "k_failed", "k_started", "k_remove", "k_close", "rd_unlock"}
Returns == {"idle", "f_open", "r_erase", "c_drop", "dtor_map"}

ThreadRec == [pc : ThreadPcs, fd : Fds \cup {None}, sess : Contexts \cup {None},
              ctx : Contexts \cup {None}, ret : ThreadPcs, k : ThreadPcs]
ContextRec == [fd : Fds \cup {None}, conn : {"unused", "open", "closed"},
               cleaned_up : BOOLEAN, devh : BOOLEAN, ptr : BOOLEAN,
               stream : {"stopped", "streaming", "stopping", "draining"},
               served : BOOLEAN, released : BOOLEAN, recovered : BOOLEAN]
CallbackRec == [pc : CbPcs, ctx : Contexts \cup {None}]
Holders == Threads \cup {Cb(c) : c \in Contexts} \cup {Nobody}

\* A thread in a call knows its number, its session and, where it
\* dereferences one, its context.
Sound(r) ==
  /\ r \in ThreadRec
  /\ r.pc \in DerefPcs => r.ctx # None
  /\ r.pc # "idle" => r.fd # None /\ r.sess # None
  /\ r.k \in Continuations /\ r.ret \in Returns

ThreadsSound   == th \in [Threads -> ThreadRec] /\ \A t \in Threads : Sound(th[t])
MapsTyped      == /\ g_camera_map \in [Fds -> Contexts \cup {None}]
                  /\ sessionsByFd \in [Fds -> Contexts \cup {None}]
ContextsTyped  == cx \in [Contexts -> ContextRec]
HeldTyped      == held \in [Locks -> Holders]
CallbacksTyped == /\ cb \in [Contexts -> CallbackRec]
                  /\ \A c \in Contexts : cb[c].pc = "pv_lock" => cb[c].ctx # None

\* The contexts of calls, of sessions and of streams have had a connection.
CallsNumbered ==
  \A t \in Threads : th[t].pc # "idle" => cx[th[t].sess].fd # None

Numbered ==
  /\ CallsNumbered
  /\ \A f \in Fds : sessionsByFd[f] # None => cx[sessionsByFd[f]].fd # None
  /\ \A c \in Contexts : cx[c].devh \/ cx[c].served => cx[c].fd # None

\* A callback runs only while its stream does.
CallbackInStream ==
  \A c \in Contexts : cb[c].pc # "idle" => cx[c].stream # "stopped"

AfterCas == {"c_lock", "c_stop", "c_null"}

\* A cleanup at work has set cleaned_up, and behind uvc_close the stream is
\* gone for good: startUVC looks at cleaned_up before it starts another one.
CleanupFinal ==
  \A t \in Threads :
    /\ th[t].pc \in AfterCas => cx[th[t].ctx].cleaned_up
    /\ th[t].pc = "c_null" => cx[th[t].ctx].stream = "stopped"

Typed == ThreadsSound /\ MapsTyped /\ ContextsTyped /\ HeldTyped /\ CallbacksTyped
IInv == /\ Typed /\ Numbered /\ CallbackInStream /\ CleanupFinal
        /\ StreamOnOpenHandle /\ CopyTargetValid

LEMMA TypedIsTypeOK == Typed => TypeOK
  BY DEF Typed, TypeOK, ThreadsSound, Sound, MapsTyped, ContextsTyped, HeldTyped,
         CallbacksTyped, ThreadRec, ContextRec, CallbackRec, Holders

-----------------------------------------------------------------------------
(* What the helpers that move a thread do *)

\* Every thread stays sound and in its call, and none goes past the
\* compare-and-swap of a cleanup.
Kept ==
  /\ ThreadsSound'
  /\ \A u \in Threads :
       /\ th'[u].pc # "idle" => th[u].pc # "idle" /\ th'[u].sess = th[u].sess
       /\ th'[u].pc \in AfterCas => th'[u] = th[u]

LEMMA Update ==
  ASSUME ThreadsSound, NEW t \in Threads, NEW r, Sound(r), th' = [th EXCEPT ![t] = r]
  PROVE  ThreadsSound' /\ \A u \in Threads : th'[u] = IF u = t THEN r ELSE th[u]
  <1>1. r \in ThreadRec
    BY DEF Sound
  <1>2. \A u \in Threads : th'[u] = IF u = t THEN r ELSE th[u]
    BY DEF ThreadsSound
  <1>3. \A u \in Threads : Sound(th'[u])
    BY <1>2 DEF ThreadsSound
  <1>4. QED
    BY <1>1, <1>2, <1>3 DEF ThreadsSound

LEMMA UpdateKept ==
  ASSUME ThreadsSound, NEW t \in Threads, NEW r, Sound(r), th' = [th EXCEPT ![t] = r],
         r.pc \notin AfterCas, r.pc # "idle" => th[t].pc # "idle" /\ r.sess = th[t].sess
  PROVE  Kept
  <1>1. ThreadsSound'
    BY Update
  <1>2. \A u \in Threads : th'[u] = IF u = t THEN r ELSE th[u]
    BY DEF ThreadsSound
  <1>3. QED
    BY <1>1, <1>2 DEF Kept

LEMMA IdleSound == Sound(IdleThread)
  BY DEF Sound, IdleThread, ThreadRec, ThreadPcs, DerefPcs, Continuations, Returns

LEMMA GotoStep ==
  ASSUME ThreadsSound, NEW t \in Threads, NEW l \in ThreadPcs, th[t].pc # "idle",
         l \in DerefPcs => th[t].ctx # None, l \notin AfterCas, Goto(t, l)
  PROVE  Kept
  <1> DEFINE r == IF l = "idle" THEN IdleThread ELSE [th[t] EXCEPT !.pc = l]
  <1>1. Sound([th[t] EXCEPT !.pc = l])
    BY DEF ThreadsSound, Sound, ThreadRec
  <1>2. Sound(r) /\ th' = [th EXCEPT ![t] = r]
    BY <1>1, IdleSound DEF Goto
  <1>3. r.pc = l /\ (l # "idle" => r.sess = th[t].sess)
    BY DEF IdleThread, ThreadsSound, ThreadRec
  <1>4. QED
    BY <1>2, <1>3, UpdateKept

LEMMA FoundStep ==
  ASSUME ThreadsSound, NEW t \in Threads, NEW l \in ThreadPcs, NEW c \in Contexts \cup {None},
         th[t].pc # "idle", l \in DerefPcs => c # None, l \notin AfterCas, Found(t, c, l)
  PROVE  Kept
  <1> DEFINE r == [th[t] EXCEPT !.pc = l, !.ctx = c]
  <1>1. Sound(r)
    BY DEF ThreadsSound, Sound, ThreadRec
  <1>2. r.pc = l /\ r.sess = th[t].sess
    BY DEF ThreadsSound, ThreadRec
  <1>3. QED
    BY <1>1, <1>2, UpdateKept DEF Found

LEMMA CleanUpStep ==
  ASSUME ThreadsSound, NEW t \in Threads, NEW q \in Returns, NEW c \in Contexts,
         th[t].pc # "idle", CleanUp(t, c, q)
  PROVE  Kept
  <1> DEFINE r == [th[t] EXCEPT !.pc = "c_cas", !.ret = q, !.ctx = c]
  <1>1. q \in ThreadPcs /\ "c_cas" \in ThreadPcs /\ c # None
    BY DEF Returns, ThreadPcs, Contexts, None
  <1>2. Sound(r)
    BY <1>1 DEF ThreadsSound, Sound, ThreadRec
  <1>3. r.pc = "c_cas" /\ r.sess = th[t].sess
    BY DEF ThreadsSound, ThreadRec
  <1>4. QED
    BY <1>2, <1>3, UpdateKept DEF CleanUp, AfterCas

LEMMA CallStep ==
  ASSUME ThreadsSound, NEW t \in Threads, NEW l \in ThreadPcs \ DerefPcs, NEW k \in Continuations,
         th[t].pc # "idle", l # "idle", Call(t, l, k)
  PROVE  Kept
  <1> DEFINE r == [th[t] EXCEPT !.pc = l, !.k = k]
  <1>1. k \in ThreadPcs
    BY DEF Continuations, ThreadPcs
  <1>2. Sound(r)
    BY <1>1 DEF ThreadsSound, Sound, ThreadRec
  <1>3. r.pc = l /\ r.sess = th[t].sess
    BY DEF ThreadsSound, ThreadRec
  <1>4. QED
    BY <1>2, <1>3, UpdateKept DEF Call, AfterCas, DerefPcs

LEMMA LeaveStep ==
  ASSUME ThreadsSound, NEW t \in Threads, NEW k \in Continuations,
         th[t].pc # "idle", Leave(t, k)
  PROVE  Kept
  <1>1. k \in ThreadPcs \ DerefPcs /\ k \notin AfterCas
    BY DEF Continuations, ThreadPcs, DerefPcs, AfterCas
  <1>2. QED
    BY <1>1, GotoStep, FoundStep DEF Leave

LEMMA JniStep ==
  ASSUME ThreadsSound, NEW t \in Threads, NEW k \in Continuations,
         th[t].pc # "idle", JniReturnTo(t, k)
  PROVE  Kept
  <1>1. k \in ThreadPcs /\ {"c_cas", "c_drop"} \subseteq ThreadPcs /\ "c_drop" \in Returns
    BY DEF Continuations, Returns, ThreadPcs
  <1> DEFINE r == [th[t] EXCEPT !.pc = "c_cas", !.ret = "c_drop", !.k = k]
  <1>2. CASE th[t].ctx # None /\ th' = [th EXCEPT ![t] = r]
    <2>1. Sound(r)
      BY <1>1, <1>2 DEF ThreadsSound, Sound, ThreadRec
    <2>2. r.pc = "c_cas" /\ r.sess = th[t].sess
      BY DEF ThreadsSound, ThreadRec
    <2>3. QED
      BY <1>2, <2>1, <2>2, UpdateKept DEF AfterCas
  <1>3. CASE Leave(t, k)
    BY <1>3, LeaveStep
  <1>4. QED
    BY <1>2, <1>3 DEF JniReturnTo

LEMMA BeginStep ==
  ASSUME ThreadsSound, NEW t \in Threads, NEW l \in ThreadPcs \ DerefPcs,
         NEW f \in Fds, NEW s \in Contexts, NEW k \in Continuations, Begin(t, l, f, s, k), l # "idle"
  PROVE  ThreadsSound' /\ \A u \in Threads : IF u = t THEN th'[u].pc = l /\ th'[u].sess = s
                                             ELSE th'[u] = th[u]
  <1> DEFINE r == [IdleThread EXCEPT !.pc = l, !.fd = f, !.sess = s, !.k = k]
  <1>1. k \in ThreadPcs /\ f # None /\ s # None
    BY DEF Continuations, ThreadPcs, Fds, Contexts, None
  <1>2. Sound(r)
    BY <1>1, IdleSound DEF Sound, ThreadRec, IdleThread
  <1>3. r.pc = l /\ r.sess = s
    BY DEF IdleThread
  <1>4. ThreadsSound' /\ \A u \in Threads : th'[u] = IF u = t THEN r ELSE th[u]
    <2>1. th' = [th EXCEPT ![t] = r]
      BY DEF Begin
    <2> HIDE DEF r
    <2>2. QED
      BY <1>2, <2>1, Update
  <1>5. QED
    BY <1>3, <1>4

LEMMA InACall ==
  ASSUME ThreadsSound, NEW t \in Threads, th[t].pc # "idle"
  PROVE  /\ th[t].fd \in Fds /\ th[t].sess \in Contexts /\ th[t].sess # None
         /\ th[t].k \in Continuations /\ th[t].ret \in ThreadPcs
         /\ th[t].ret \in Returns
  BY DEF ThreadsSound, Sound, ThreadRec

LEMMA HasContext ==
  ASSUME ThreadsSound, NEW t \in Threads, th[t].pc \in DerefPcs
  PROVE  th[t].ctx \in Contexts /\ th[t].ctx # None
  BY DEF ThreadsSound, Sound, ThreadRec

LEMMA SessionOf ==
  ASSUME MapsTyped, NEW f \in Fds, sessionsByFd[f] # None
  PROVE  sessionsByFd[f] \in Contexts
  BY DEF MapsTyped

LEMMA NumberOf ==
  ASSUME ContextsTyped, Numbered, NEW c \in Contexts, cx[c].served
  PROVE  cx[c].fd \in Fds
  BY DEF ContextsTyped, ContextRec, Numbered

\* The three steps of a cleanup behind its compare-and-swap.
LEMMA CleanupMoves ==
  ASSUME ThreadsSound, NEW t \in Threads, NEW l \in AfterCas, th[t].pc \in DerefPcs, Goto(t, l)
  PROVE  ThreadsSound' /\ \A u \in Threads :
           IF u = t THEN th'[u].pc = l /\ th'[u].sess = th[u].sess /\ th'[u].ctx = th[u].ctx
           ELSE th'[u] = th[u]
  <1> DEFINE r == [th[t] EXCEPT !.pc = l]
  <1>1. l \in ThreadPcs /\ l # "idle" /\ th[t].pc # "idle"
    BY DEF AfterCas, ThreadPcs, DerefPcs
  <1>2. Sound(r)
    BY <1>1, HasContext DEF ThreadsSound, Sound, ThreadRec
  <1>3. r.pc = l /\ r.sess = th[t].sess /\ r.ctx = th[t].ctx
    BY DEF ThreadsSound, ThreadRec
  <1>4. ThreadsSound' /\ \A u \in Threads : th'[u] = IF u = t THEN r ELSE th[u]
    <2>1. th' = [th EXCEPT ![t] = r]
      BY <1>1 DEF Goto
    <2> HIDE DEF r
    <2>2. QED
      BY <1>2, <2>1, Update
  <1>5. QED
    BY <1>3, <1>4

-----------------------------------------------------------------------------
(* What a step does to a context *)

\* From record a to record b of one context: numbers are kept, cleaned_up is
\* final, and so is the end of the stream of a context that is cleaned up; a
\* stream has a handle.
Evolves(a, b) ==
  /\ a.fd # None => b.fd # None
  /\ b.devh \/ b.served => b.fd # None
  /\ a.cleaned_up =>
       /\ b.cleaned_up
       /\ a.stream = "stopped" => b.stream = "stopped"
  /\ b.stream # "stopped" => b.devh

\* The stream and the buffer of c outlast its callback.
Outlasts(c, b) ==
  cb[c].pc # "idle" => b.stream # "stopped" /\ (cx[c].ptr => b.ptr)

ContextsEvolve ==
  /\ ContextsTyped'
  /\ \A c \in Contexts :
       /\ Evolves(cx[c], cx'[c])
       /\ Outlasts(c, cx'[c])

LEMMA ContextOf ==
  ASSUME IInv, NEW c \in Contexts
  PROVE  /\ cx[c] \in ContextRec /\ Evolves(cx[c], cx[c])
         /\ Outlasts(c, cx[c])
  BY DEF IInv, Typed, ContextsTyped, Evolves, Outlasts, Numbered, StreamOnOpenHandle, CallbackInStream

LEMMA ContextUpdate ==
  ASSUME IInv, NEW c \in Contexts, NEW r \in ContextRec, cx' = [cx EXCEPT ![c] = r],
         Evolves(cx[c], r), Outlasts(c, r)
  PROVE  ContextsEvolve
  <1>1. cx \in [Contexts -> ContextRec]
    BY DEF IInv, Typed, ContextsTyped
  <1>2. \A d \in Contexts : cx'[d] = IF d = c THEN r ELSE cx[d]
    BY <1>1
  <1>3. QED
    BY <1>1, <1>2, ContextOf DEF ContextsEvolve, ContextsTyped

LEMMA Serve ==
  ASSUME NEW m \in [Contexts -> ContextRec], NEW s \in Contexts,
         cx' = [m EXCEPT ![s].served = TRUE]
  PROVE  ContextsTyped' /\
         \A d \in Contexts :
           /\ cx'[d].stream = m[d].stream /\ cx'[d].fd = m[d].fd
           /\ cx'[d].devh = m[d].devh /\ cx'[d].cleaned_up = m[d].cleaned_up
           /\ cx'[d].ptr = m[d].ptr
           /\ d # s => cx'[d].served = m[d].served
  <1> DEFINE r == [m[s] EXCEPT !.served = TRUE]
  <1>1. cx' = [m EXCEPT ![s] = r] /\ \A d \in Contexts : cx'[d] = IF d = s THEN r ELSE m[d]
    OBVIOUS
  <1>2. r \in ContextRec /\ r.stream = m[s].stream /\ r.fd = m[s].fd
        /\ r.devh = m[s].devh /\ r.cleaned_up = m[s].cleaned_up /\ r.ptr = m[s].ptr
    BY DEF ContextRec
  <1>3. QED
    BY <1>1, <1>2 DEF ContextsTyped

LEMMA StopStreamStep ==
  ASSUME IInv, NEW c \in Contexts, StopStream(c)
  PROVE  ContextsEvolve
  <1> DEFINE r == [cx[c] EXCEPT !.stream =
                     IF @ = "streaming"
                       THEN IF cb[c].pc = "idle" THEN "stopping" ELSE "draining"
                       ELSE @]
  <1>1. r \in ContextRec /\ Evolves(cx[c], r) /\ Outlasts(c, r)
    BY ContextOf DEF ContextRec, Evolves, Outlasts
  <1>2. QED
    BY <1>1, ContextUpdate DEF StopStream

LEMMA ContextsStep == IInv /\ [Next]_vars => ContextsEvolve
  <1> SUFFICES ASSUME IInv, [Next]_vars PROVE ContextsEvolve
    OBVIOUS
  <1>0. ThreadsSound /\ MapsTyped /\ Numbered /\ ContextsTyped
    BY DEF IInv, Typed
  <1> USE <1>0 DEF ContextRec, Evolves, Outlasts, At, StopStream, StreamQuiet, Usable
  <1>1. ASSUME NEW t \in Threads, OpenConnection(t) PROVE ContextsEvolve
    <2>1. PICK f \in Fds, c \in Contexts :
               cx' = [cx EXCEPT ![c].conn = "open", ![c].fd = f]
      BY <1>1 DEF OpenConnection
    <2> DEFINE r == [cx[c] EXCEPT !.conn = "open", !.fd = f]
    <2>2. cx' = [cx EXCEPT ![c] = r]
      BY <2>1 DEF ContextsTyped
    <2>3. f # None
      BY DEF Fds, None
    <2>4. r \in ContextRec /\ r.fd = f /\ r.stream = cx[c].stream
          /\ r.devh = cx[c].devh /\ r.cleaned_up = cx[c].cleaned_up /\ r.ptr = cx[c].ptr
      BY ContextOf
    <2>5. Evolves(cx[c], r)
      BY <2>3, <2>4, ContextOf
    <2>6. QED
      BY <2>2, <2>4, <2>5, ContextOf, ContextUpdate
  <1>2. ASSUME NEW t \in Threads, FormatsOpen(t) PROVE ContextsEvolve
    <2> DEFINE c == th[t].sess
               r == [cx[c] EXCEPT !.devh = TRUE]
    <2>1. c \in Contexts /\ cx[c].fd # None
      BY <1>2, InACall DEF FormatsOpen, Numbered, CallsNumbered
    <2>2. r \in ContextRec /\ r.fd = cx[c].fd /\ r.stream = cx[c].stream
          /\ r.devh = TRUE /\ r.cleaned_up = cx[c].cleaned_up /\ r.ptr = cx[c].ptr
      BY <2>1, ContextOf
    <2>3. Evolves(cx[c], r)
      BY <2>1, <2>2, ContextOf
    <2>4. QED
      BY <1>2, <2>1, <2>2, <2>3, ContextOf, ContextUpdate DEF FormatsOpen
  <1>3. ASSUME NEW t \in Threads, FormatsOpenFails(t) PROVE ContextsEvolve
    <2> DEFINE c == th[t].sess
               r == [cx[c] EXCEPT !.cleaned_up = TRUE]
    <2>1. c \in Contexts
      BY <1>3, InACall DEF FormatsOpenFails
    <2>fields. r \in ContextRec /\ r.fd = cx[c].fd /\ r.devh = cx[c].devh /\ r.ptr = cx[c].ptr
          /\ r.stream = cx[c].stream /\ r.served = cx[c].served /\ r.cleaned_up
      BY <2>1, ContextOf
    <2>2. Evolves(cx[c], r) /\ Outlasts(c, r)
      BY <2>fields, <2>1, ContextOf
    <2>3. QED
      BY <1>3, <2>1, <2>fields, <2>2, ContextUpdate DEF FormatsOpenFails
  <1>4. ASSUME NEW t \in Threads, CloseConnection(t) PROVE ContextsEvolve
    <2> DEFINE c == th[t].sess
               r == [cx[c] EXCEPT !.conn = "closed"]
    <2>1. c \in Contexts
      BY <1>4, InACall DEF CloseConnection
    <2>fields. r \in ContextRec /\ r.fd = cx[c].fd /\ r.cleaned_up = cx[c].cleaned_up /\ r.devh = cx[c].devh
          /\ r.ptr = cx[c].ptr /\ r.stream = cx[c].stream /\ r.served = cx[c].served
      BY <2>1, ContextOf
    <2>2. Evolves(cx[c], r) /\ Outlasts(c, r)
      BY <2>fields, <2>1, ContextOf
    <2>3. QED
      BY <1>4, <2>1, <2>fields, <2>2, ContextUpdate DEF CloseConnection
  <1>5. ASSUME NEW t \in Threads, StartSetBuffer(t) PROVE ContextsEvolve
    <2> DEFINE c == th[t].ctx
               r == [cx[c] EXCEPT !.ptr = TRUE]
    <2>1. c \in Contexts
      BY <1>5, HasContext DEF StartSetBuffer, DerefPcs
    <2>fields. r \in ContextRec /\ r.fd = cx[c].fd /\ r.cleaned_up = cx[c].cleaned_up /\ r.devh = cx[c].devh
          /\ r.stream = cx[c].stream /\ r.served = cx[c].served /\ r.ptr
      BY <2>1, ContextOf
    <2>2. Evolves(cx[c], r) /\ Outlasts(c, r)
      BY <2>fields, <2>1, ContextOf
    <2>3. QED
      BY <1>5, <2>1, <2>fields, <2>2, ContextUpdate DEF StartSetBuffer
  <1>6. ASSUME NEW t \in Threads, StartStopOld(t) PROVE ContextsEvolve
    <2> DEFINE c == th[t].ctx
    <2>1. c \in Contexts
      BY <1>6, HasContext DEF StartStopOld, DerefPcs
    <2>2. QED
      BY <1>6, <2>1, StopStreamStep DEF StartStopOld
  <1>7. ASSUME NEW t \in Threads, StartSettle(t) PROVE ContextsEvolve
    <2> DEFINE c == th[t].ctx
               r == [cx[c] EXCEPT !.stream = "stopped"]
    <2>1. c \in Contexts
      BY <1>7, HasContext DEF StartSettle, DerefPcs
    <2>2. r \in ContextRec /\ Evolves(cx[c], r) /\ Outlasts(c, r)
      BY <1>7, <2>1, ContextOf DEF StartSettle
    <2>3. QED
      BY <1>7, <2>1, <2>2, ContextUpdate DEF StartSettle
  <1>8. ASSUME NEW t \in Threads, StartStreams(t) PROVE ContextsEvolve
    <2> DEFINE c == th[t].ctx
               s == th[t].sess
           m == [cx EXCEPT ![c].stream = "streaming"]
    <2>1. c \in Contexts /\ s \in Contexts /\ cx[s].fd # None
      BY <1>8, HasContext, InACall DEF StartStreams, DerefPcs, Numbered, CallsNumbered
    <2>2. ~cx[c].cleaned_up /\ cx[c].devh
      BY <1>8 DEF StartStreams
    <2>3. m \in [Contexts -> ContextRec] /\
          \A d \in Contexts :
            /\ m[d].stream = IF d = c THEN "streaming" ELSE cx[d].stream
            /\ m[d].fd = cx[d].fd /\ m[d].devh = cx[d].devh
            /\ m[d].cleaned_up = cx[d].cleaned_up /\ m[d].served = cx[d].served
            /\ m[d].ptr = cx[d].ptr
      BY <2>1 DEF ContextsTyped
    <2>4. cx' = [m EXCEPT ![s].served = TRUE]
      BY <1>8, <2>1 DEF StartStreams, ContextsTyped
    <2>5. ContextsTyped' /\
          \A d \in Contexts :
            /\ cx'[d].stream = m[d].stream /\ cx'[d].fd = m[d].fd
            /\ cx'[d].devh = m[d].devh /\ cx'[d].cleaned_up = m[d].cleaned_up
            /\ cx'[d].ptr = m[d].ptr
            /\ d # s => cx'[d].served = m[d].served
      <3> HIDE DEF m
      <3>1. QED
        BY <2>1, <2>3, <2>4, Serve
    <2>6. ASSUME NEW d \in Contexts
          PROVE  Evolves(cx[d], cx'[d]) /\ Outlasts(d, cx'[d])
      <3> HIDE DEF m
      <3>1. QED
        BY <2>1, <2>2, <2>3, <2>5, ContextOf
    <2>7. QED
      BY <2>5, <2>6 DEF ContextsEvolve
  <1>9. ASSUME NEW t \in Threads, StartFailed(t) PROVE ContextsEvolve
    <2> DEFINE c == th[t].sess
               r == [cx[c] EXCEPT !.recovered = TRUE]
    <2>1. c \in Contexts
      BY <1>9, InACall DEF StartFailed
    <2>fields. r \in ContextRec /\ r.fd = cx[c].fd /\ r.cleaned_up = cx[c].cleaned_up /\ r.devh = cx[c].devh
          /\ r.ptr = cx[c].ptr /\ r.stream = cx[c].stream /\ r.served = cx[c].served
      BY <2>1, ContextOf
    <2>2. Evolves(cx[c], r) /\ Outlasts(c, r)
      BY <2>fields, <2>1, ContextOf
    <2>3. CASE cx' = [cx EXCEPT ![c].recovered = TRUE]
      BY <2>1, <2>fields, <2>2, <2>3, ContextUpdate
    <2>4. QED
      BY <1>9, <2>3, ContextOf DEF StartFailed, ContextsEvolve, ContextsTyped
  <1>10. ASSUME NEW t \in Threads, StopLock(t) PROVE ContextsEvolve
    <2> DEFINE c == th[t].ctx
    <2>1. c \in Contexts
      BY <1>10, HasContext DEF StopLock, DerefPcs
    <2>2. CASE StopStream(c)
      BY <1>10, <2>1, <2>2, StopStreamStep DEF StopLock
    <2>3. QED
      BY <1>10, <2>2, ContextOf DEF StopLock, ContextsEvolve, ContextsTyped
  <1>11. ASSUME NEW t \in Threads, StopDone(t) PROVE ContextsEvolve
    <2> DEFINE c == th[t].ctx
               r == [cx[c] EXCEPT !.stream = "stopped"]
    <2>1. c \in Contexts
      BY <1>11, HasContext DEF StopDone, DerefPcs
    <2>2. r \in ContextRec /\ Evolves(cx[c], r) /\ Outlasts(c, r)
      BY <1>11, <2>1, ContextOf DEF StopDone
    <2>3. QED
      BY <1>11, <2>1, <2>2, ContextUpdate DEF StopDone
  <1>12. ASSUME NEW t \in Threads, BeginRelease(t) PROVE ContextsEvolve
    <2>1. PICK f \in Fds : /\ sessionsByFd[f] # None
                           /\ cx' = [cx EXCEPT ![sessionsByFd[f]].released = TRUE]
      BY <1>12 DEF BeginRelease
    <2> DEFINE c == sessionsByFd[f]
               r == [cx[c] EXCEPT !.released = TRUE]
    <2>2. c \in Contexts
      BY <2>1, SessionOf
    <2>3. r \in ContextRec /\ Evolves(cx[c], r) /\ Outlasts(c, r)
      BY <2>2, ContextOf
    <2>4. QED
      BY <2>1, <2>2, <2>3, ContextUpdate
  <1>13. ASSUME NEW t \in Threads, RemoveSession(t) PROVE ContextsEvolve
    <2> DEFINE c == th[t].sess
               r == [cx[c] EXCEPT !.conn = "closed"]
    <2>1. c \in Contexts
      BY <1>13, InACall DEF RemoveSession
    <2>fields. r \in ContextRec /\ r.fd = cx[c].fd /\ r.cleaned_up = cx[c].cleaned_up /\ r.devh = cx[c].devh
          /\ r.ptr = cx[c].ptr /\ r.stream = cx[c].stream /\ r.served = cx[c].served
      BY <2>1, ContextOf
    <2>2. Evolves(cx[c], r) /\ Outlasts(c, r)
      BY <2>fields, <2>1, ContextOf
    <2>3. QED
      BY <1>13, <2>1, <2>fields, <2>2, ContextUpdate DEF RemoveSession
  <1>14. ASSUME NEW t \in Threads, CleanupCas(t) PROVE ContextsEvolve
    <2> DEFINE c == th[t].ctx
               r == [cx[c] EXCEPT !.cleaned_up = TRUE]
    <2>1. c \in Contexts
      BY <1>14, HasContext DEF CleanupCas, DerefPcs
    <2>fields. r \in ContextRec /\ r.fd = cx[c].fd /\ r.devh = cx[c].devh /\ r.ptr = cx[c].ptr
          /\ r.stream = cx[c].stream /\ r.served = cx[c].served /\ r.cleaned_up
      BY <2>1, ContextOf
    <2>2. Evolves(cx[c], r) /\ Outlasts(c, r)
      BY <2>fields, <2>1, ContextOf
    <2>3. QED
      BY <1>14, <2>1, <2>fields, <2>2, ContextUpdate DEF CleanupCas
  <1>15. ASSUME NEW t \in Threads, CleanupLock(t) PROVE ContextsEvolve
    <2> DEFINE c == th[t].ctx
    <2>1. c \in Contexts
      BY <1>15, HasContext DEF CleanupLock, DerefPcs
    <2>2. QED
      BY <1>15, <2>1, StopStreamStep DEF CleanupLock
  <1>16. ASSUME NEW t \in Threads, CleanupClose(t) PROVE ContextsEvolve
    <2> DEFINE c == th[t].ctx
               r == [cx[c] EXCEPT !.stream = "stopped", !.devh = FALSE]
    <2>1. c \in Contexts
      BY <1>16, HasContext DEF CleanupClose, DerefPcs
    <2>2. cb[c].pc = "idle" /\ cx' = [cx EXCEPT ![c] = r]
      BY <1>16, <2>1 DEF CleanupClose, ContextsTyped
    <2>3. r \in ContextRec /\ r.stream = "stopped" /\ r.fd = cx[c].fd
          /\ r.served = cx[c].served /\ r.devh = FALSE /\ r.cleaned_up = cx[c].cleaned_up
      BY <2>1, ContextOf
    <2>4. Evolves(cx[c], r)
      BY <2>1, <2>3, ContextOf
    <2>5. QED
      BY <2>1, <2>2, <2>3, <2>4, ContextUpdate
  <1>17. ASSUME NEW t \in Threads, CleanupForgetBuffer(t) PROVE ContextsEvolve
    <2> DEFINE c == th[t].ctx
               r == [cx[c] EXCEPT !.ptr = FALSE]
    <2>1. c \in Contexts
      BY <1>17, HasContext DEF CleanupForgetBuffer, DerefPcs
    <2>2. cb[c].pc = "idle"
      BY <1>17, <2>1 DEF CleanupForgetBuffer, IInv, CleanupFinal, CallbackInStream
    <2>3. r \in ContextRec /\ Evolves(cx[c], r) /\ Outlasts(c, r)
      BY <2>1, <2>2, ContextOf
    <2>4. QED
      BY <1>17, <2>1, <2>3, ContextUpdate DEF CleanupForgetBuffer
  <1>18. ASSUME NEW c \in Contexts, CallbackEnter(c) PROVE ContextsEvolve
    <2> DEFINE r == [cx[c] EXCEPT !.stream = IF @ = "stopping" THEN "draining" ELSE @]
    <2>1. r \in ContextRec /\ Evolves(cx[c], r) /\ Outlasts(c, r)
      BY <1>18, ContextOf DEF CallbackEnter
    <2>2. QED
      BY <1>18, <2>1, ContextUpdate DEF CallbackEnter
  <1>19. CASE UNCHANGED cx
    BY <1>19, ContextOf DEF ContextsEvolve, ContextsTyped
  <1>20. QED
    BY <1>1, <1>2, <1>3, <1>4, <1>5, <1>6, <1>7, <1>8, <1>9, <1>10, <1>11, <1>12, 
       <1>13, <1>14, <1>15, <1>16, <1>17, <1>18, <1>19
    DEF Next, Begins, ThreadStep, CallbackStep, vars, FormatsEraseOld, FormatsPublish, FormatsModes, FormatsNoModes, StartLookup, 
       StartAborts, StartRetry, StartFails, FirstFrame, StopLookup, ReleaseLookup, 
       ReleaseErase, DestructorReturns, ReadLookup, ReadLock, ReadUnlock, BeginStart, 
       BeginStop, BeginRead,
       CallbackDrop, CallbackCopy, CallbackCopied,
       CallbackJava, CallbackReady, PreviewLookup, PreviewLock, PreviewUnlock, CallbackReturn

-----------------------------------------------------------------------------
(* What a step does to the threads *)

ThreadsMove == ThreadsSound' /\ CallsNumbered' /\ CleanupFinal'

LEMMA SessionOfCall ==
  ASSUME IInv, ContextsEvolve, NEW u \in Threads, th[u].pc # "idle"
  PROVE  cx'[th[u].sess].fd # None
  BY InACall DEF IInv, Typed, Numbered, CallsNumbered, ContextsEvolve, Evolves

LEMMA CleanupOf ==
  ASSUME IInv, ContextsEvolve, NEW u \in Threads, th[u].pc \in AfterCas
  PROVE  /\ cx'[th[u].ctx].cleaned_up
         /\ th[u].pc = "c_null" => cx'[th[u].ctx].stream = "stopped"
  <1>1. th[u].ctx \in Contexts
    BY HasContext DEF IInv, Typed, AfterCas, DerefPcs
  <1>2. QED
    BY <1>1 DEF IInv, CleanupFinal, ContextsEvolve, Evolves

LEMMA KeptMoves ==
  ASSUME IInv, ContextsEvolve, Kept
  PROVE  ThreadsMove
  <1>1. CallsNumbered'
    BY SessionOfCall DEF Kept, CallsNumbered
  <1>2. CleanupFinal'
    <2> SUFFICES ASSUME NEW u \in Threads, th'[u].pc \in AfterCas
                 PROVE  /\ cx'[th'[u].ctx].cleaned_up
                        /\ th'[u].pc = "c_null" => cx'[th'[u].ctx].stream = "stopped"
      BY DEF CleanupFinal, AfterCas
    <2>1. th'[u] = th[u]
      BY DEF Kept
    <2>2. QED
      BY <2>1, CleanupOf
  <1>3. QED
    BY <1>1, <1>2 DEF Kept, ThreadsMove

LEMMA BeginMoves ==
  ASSUME IInv, ContextsEvolve, NEW t \in Threads, NEW l \in ThreadPcs \ DerefPcs,
         NEW f \in Fds, NEW s \in Contexts, NEW k \in Continuations, Begin(t, l, f, s, k),
         l # "idle", cx'[s].fd # None
  PROVE  ThreadsMove
  <1>1. ThreadsSound
    BY DEF IInv, Typed
  <1>2. ThreadsSound' /\ \A u \in Threads : IF u = t THEN th'[u].pc = l /\ th'[u].sess = s
                                            ELSE th'[u] = th[u]
    BY <1>1, BeginStep
  <1>3. CallsNumbered'
    BY <1>2, SessionOfCall DEF CallsNumbered
  <1>4. CleanupFinal'
    <2> SUFFICES ASSUME NEW u \in Threads, th'[u].pc \in AfterCas
                 PROVE  /\ cx'[th'[u].ctx].cleaned_up
                        /\ th'[u].pc = "c_null" => cx'[th'[u].ctx].stream = "stopped"
      BY DEF CleanupFinal, AfterCas
    <2>1. th'[u] = th[u]
      BY <1>2 DEF AfterCas, DerefPcs
    <2>2. QED
      BY <2>1, CleanupOf
  <1>5. QED
    BY <1>2, <1>3, <1>4 DEF ThreadsMove

LEMMA BeginOnSession ==
  ASSUME IInv, ContextsEvolve, NEW f \in Fds, sessionsByFd[f] # None
  PROVE  sessionsByFd[f] \in Contexts /\ cx'[sessionsByFd[f]].fd # None
  BY SessionOf DEF IInv, Typed, Numbered, ContextsEvolve, Evolves

LEMMA CleanupGoesOn ==
  ASSUME IInv, ContextsEvolve, NEW t \in Threads, NEW l \in AfterCas, th[t].pc \in DerefPcs,
         Goto(t, l), cx'[th[t].ctx].cleaned_up,
         l = "c_null" => cx'[th[t].ctx].stream = "stopped"
  PROVE  ThreadsMove
  <1>1. ThreadsSound /\ th[t].pc # "idle"
    BY DEF IInv, Typed, DerefPcs
  <1>2. ThreadsSound' /\ \A u \in Threads :
           IF u = t THEN th'[u].pc = l /\ th'[u].sess = th[u].sess /\ th'[u].ctx = th[u].ctx
           ELSE th'[u] = th[u]
    BY <1>1, CleanupMoves
  <1>3. CallsNumbered'
    BY <1>1, <1>2, SessionOfCall DEF CallsNumbered
  <1>4. CleanupFinal'
    <2> SUFFICES ASSUME NEW u \in Threads, th'[u].pc \in AfterCas
                 PROVE  /\ cx'[th'[u].ctx].cleaned_up
                        /\ th'[u].pc = "c_null" => cx'[th'[u].ctx].stream = "stopped"
      BY DEF CleanupFinal, AfterCas
    <2>1. CASE u = t
      BY <1>2, <2>1
    <2>2. CASE u # t
      BY <1>2, <2>2, CleanupOf
    <2>3. QED
      BY <2>1, <2>2
  <1>5. QED
    BY <1>2, <1>3, <1>4 DEF ThreadsMove

LEMMA ThreadsStep == IInv /\ [Next]_vars => ThreadsMove
  <1> SUFFICES ASSUME IInv, [Next]_vars PROVE ThreadsMove
    OBVIOUS
  <1> USE DEF At, ThreadPcs, DerefPcs, AfterCas, Continuations
  <1>0. ThreadsSound /\ MapsTyped /\ ContextsEvolve /\ ContextsTyped /\ Numbered
    BY ContextsStep DEF IInv, Typed
  <1>kept. Kept => ThreadsMove
    BY <1>0, KeptMoves
  <1>1. ASSUME NEW t \in Threads, FormatsEraseOld(t) PROVE ThreadsMove
    BY <1>0, <1>kept, <1>1, GotoStep, CleanUpStep, InACall DEF FormatsEraseOld, MapsTyped, Returns
  <1>2. ASSUME NEW t \in Threads, FormatsOpen(t) PROVE ThreadsMove
    BY <1>0, <1>kept, <1>2, FoundStep, InACall DEF FormatsOpen
  <1>3. ASSUME NEW t \in Threads, FormatsOpenFails(t) PROVE ThreadsMove
    BY <1>0, <1>kept, <1>3, FoundStep DEF FormatsOpenFails
  <1>4. ASSUME NEW t \in Threads, FormatsPublish(t) PROVE ThreadsMove
    BY <1>0, <1>kept, <1>4, GotoStep, HasContext DEF FormatsPublish
  <1>5. ASSUME NEW t \in Threads, FormatsModes(t) PROVE ThreadsMove
    BY <1>0, <1>kept, <1>5, JniStep, InACall DEF FormatsModes, JniReturn
  <1>6. ASSUME NEW t \in Threads, FormatsNoModes(t) PROVE ThreadsMove
    BY <1>0, <1>kept, <1>6, JniStep DEF FormatsNoModes, JniReturn
  <1>7. ASSUME NEW t \in Threads, CloseConnection(t) PROVE ThreadsMove
    BY <1>0, <1>kept, <1>7, GotoStep DEF CloseConnection
  <1>8. ASSUME NEW t \in Threads, StartLookup(t) PROVE ThreadsMove
    BY <1>0, <1>kept, <1>8, GotoStep, FoundStep, InACall DEF StartLookup, MapsTyped
  <1>9. ASSUME NEW t \in Threads, StartSetBuffer(t) PROVE ThreadsMove
    BY <1>0, <1>kept, <1>9, GotoStep, HasContext DEF StartSetBuffer
  <1>10. ASSUME NEW t \in Threads, StartAborts(t) PROVE ThreadsMove
    BY <1>0, <1>kept, <1>10, JniStep, InACall, HasContext DEF StartAborts, JniReturn
  <1>11. ASSUME NEW t \in Threads, StartStopOld(t) PROVE ThreadsMove
    BY <1>0, <1>kept, <1>11, GotoStep, HasContext DEF StartStopOld
  <1>12. ASSUME NEW t \in Threads, StartSettle(t) PROVE ThreadsMove
    BY <1>0, <1>kept, <1>12, GotoStep, HasContext DEF StartSettle
  <1>13. ASSUME NEW t \in Threads, StartRetry(t) PROVE ThreadsMove
    BY <1>0, <1>kept, <1>13, GotoStep, HasContext DEF StartRetry
  <1>14. ASSUME NEW t \in Threads, StartStreams(t) PROVE ThreadsMove
    BY <1>0, <1>kept, <1>14, JniStep, HasContext DEF StartStreams, JniReturn
  <1>15. ASSUME NEW t \in Threads, StartFails(t) PROVE ThreadsMove
    BY <1>0, <1>kept, <1>15, JniStep, InACall, HasContext DEF StartFails, JniReturn
  <1>16. ASSUME NEW t \in Threads, FirstFrame(t) PROVE ThreadsMove
    BY <1>0, <1>kept, <1>16, GotoStep, CallStep DEF FirstFrame
  <1>17. ASSUME NEW t \in Threads, StartFailed(t) PROVE ThreadsMove
    BY <1>0, <1>kept, <1>17, GotoStep, CallStep DEF StartFailed
  <1>18. ASSUME NEW t \in Threads, StopLookup(t) PROVE ThreadsMove
    BY <1>0, <1>kept, <1>18, GotoStep, FoundStep, InACall DEF StopLookup, MapsTyped
  <1>19. ASSUME NEW t \in Threads, StopLock(t) PROVE ThreadsMove
    BY <1>0, <1>kept, <1>19, GotoStep, JniStep, InACall, HasContext DEF StopLock, JniReturn
  <1>20. ASSUME NEW t \in Threads, StopDone(t) PROVE ThreadsMove
    BY <1>0, <1>kept, <1>20, JniStep, InACall, HasContext DEF StopDone, JniReturn
  <1>21. ASSUME NEW t \in Threads, ReleaseLookup(t) PROVE ThreadsMove
    BY <1>0, <1>kept, <1>21, GotoStep, CleanUpStep, InACall DEF ReleaseLookup, MapsTyped, Returns
  <1>22. ASSUME NEW t \in Threads, ReleaseErase(t) PROVE ThreadsMove
    BY <1>0, <1>kept, <1>22, FoundStep, CleanUpStep, InACall, HasContext DEF ReleaseErase, MapsTyped, Returns
  <1>23. ASSUME NEW t \in Threads, DestructorReturns(t) PROVE ThreadsMove
    BY <1>0, <1>kept, <1>23, FoundStep, InACall, LeaveStep DEF DestructorReturns
  <1>24. ASSUME NEW t \in Threads, RemoveSession(t) PROVE ThreadsMove
    BY <1>0, <1>kept, <1>24, GotoStep DEF RemoveSession
  <1>25. ASSUME NEW t \in Threads, CleanupCas(t) PROVE ThreadsMove
    <2>1. CASE Goto(t, "c_lock") /\ cx' = [cx EXCEPT ![th[t].ctx].cleaned_up = TRUE]
      <3>1. th[t].ctx \in Contexts
        BY <1>0, <1>25, HasContext DEF CleanupCas
      <3>2. cx'[th[t].ctx].cleaned_up
        BY <1>0, <2>1, <3>1 DEF ContextsTyped, ContextRec
      <3>3. QED
        BY <1>0, <1>25, <2>1, <3>2, CleanupGoesOn DEF CleanupCas
    <2>2. CASE Goto(t, th[t].ret)
      <3>1. th[t].ret \notin AfterCas /\ th[t].ctx # None /\ th[t].ret \in ThreadPcs
        BY <1>0, <1>25, InACall, HasContext DEF CleanupCas, Returns
      <3>2. QED
        BY <1>0, <1>kept, <1>25, <2>2, <3>1, GotoStep DEF CleanupCas
    <2>3. QED
      BY <1>25, <2>1, <2>2 DEF CleanupCas
  <1>26. ASSUME NEW t \in Threads, CleanupLock(t) PROVE ThreadsMove
    BY <1>0, <1>26, CleanupGoesOn, CleanupOf DEF CleanupLock
  <1>27. ASSUME NEW t \in Threads, CleanupClose(t) PROVE ThreadsMove
    <2>1. th[t].ctx \in Contexts
      BY <1>0, <1>27, HasContext DEF CleanupClose
    <2>2. cx'[th[t].ctx].stream = "stopped"
      BY <1>0, <1>27, <2>1 DEF CleanupClose, ContextsTyped, ContextRec
    <2>3. QED
      BY <1>0, <1>27, <2>2, CleanupGoesOn, CleanupOf DEF CleanupClose
  <1>28. ASSUME NEW t \in Threads, CleanupForgetBuffer(t) PROVE ThreadsMove
    BY <1>0, <1>kept, <1>28, GotoStep, InACall, HasContext DEF CleanupForgetBuffer, Returns
  <1>29. ASSUME NEW t \in Threads, ReadLookup(t) PROVE ThreadsMove
    BY <1>0, <1>kept, <1>29, GotoStep, FoundStep, InACall DEF ReadLookup, MapsTyped
  <1>30. ASSUME NEW t \in Threads, ReadLock(t) PROVE ThreadsMove
    BY <1>0, <1>kept, <1>30, JniStep, InACall, HasContext DEF ReadLock, JniReturn
  <1>31. ASSUME NEW t \in Threads, ReadUnlock(t) PROVE ThreadsMove
    BY <1>0, <1>kept, <1>31, GotoStep DEF ReadUnlock
  <1>32. ASSUME NEW t \in Threads, OpenConnection(t) PROVE ThreadsMove
    <2>1. PICK f \in Fds, c \in Contexts :
            Begin(t, "f_old", f, c, "idle") /\ cx' = [cx EXCEPT ![c].conn = "open", ![c].fd = f]
      BY <1>32 DEF OpenConnection
    <2>2. cx'[c].fd # None
      BY <1>0, <2>1 DEF ContextsTyped, ContextRec, Fds, None
    <2>3. QED
      BY <1>0, <2>1, <2>2, BeginMoves
  <1>33. ASSUME NEW t \in Threads, BeginStart(t) PROVE ThreadsMove
    BY <1>0, <1>33, BeginOnSession, BeginMoves DEF BeginStart
  <1>34. ASSUME NEW t \in Threads, BeginStop(t) PROVE ThreadsMove
    BY <1>0, <1>34, BeginOnSession, BeginMoves DEF BeginStop
  <1>35. ASSUME NEW t \in Threads, BeginRelease(t) PROVE ThreadsMove
    BY <1>0, <1>35, BeginOnSession, BeginMoves DEF BeginRelease
  <1>36. ASSUME NEW t \in Threads, BeginRead(t) PROVE ThreadsMove
    <2>1. PICK c \in Contexts : cx[c].served /\ Begin(t, "rd_lookup", cx[c].fd, c, "rd_unlock")
      BY <1>36 DEF BeginRead
    <2>2. cx[c].fd \in Fds /\ cx'[c].fd # None
      BY <1>0, <2>1, NumberOf DEF ContextsEvolve, Evolves, Fds, None
    <2>3. QED
      BY <1>0, <2>1, <2>2, BeginMoves
  <1>37. CASE UNCHANGED th
    BY <1>0, <1>kept, <1>37 DEF Kept, ThreadsSound
  <1>38. QED
    BY <1>1, <1>2, <1>3, <1>4, <1>5, <1>6, <1>7, <1>8, <1>9, <1>10, <1>11, <1>12, 
       <1>13, <1>14, <1>15, <1>16, <1>17, <1>18, <1>19, <1>20, <1>21, <1>22, <1>23, 
       <1>24, <1>25, <1>26, <1>27, <1>28, <1>29, <1>30, <1>31, <1>32, <1>33, <1>34, 
       <1>35, <1>36, <1>37
    DEF Next, Begins, ThreadStep, CallbackStep, vars, CallbackEnter, CallbackDrop, CallbackCopy,
       CallbackCopied, CallbackJava, CallbackReady, PreviewLookup, PreviewLock,
       PreviewUnlock, CallbackReturn

-----------------------------------------------------------------------------
(* What a step does to the maps, the locks and the callbacks *)

MapsMove ==
  /\ MapsTyped'
  /\ \A f \in Fds : sessionsByFd'[f] # None => cx'[sessionsByFd'[f]].fd # None

LEMMA SameSessions ==
  ASSUME IInv, ContextsEvolve, UNCHANGED sessionsByFd,
         g_camera_map' \in [Fds -> Contexts \cup {None}]
  PROVE  MapsMove
  <1>1. \A f \in Fds : sessionsByFd[f] # None => cx'[sessionsByFd[f]].fd # None
    BY BeginOnSession
  <1>2. QED
    BY <1>1 DEF IInv, Typed, MapsTyped, MapsMove

LEMMA MapsStep == IInv /\ [Next]_vars => MapsMove
  <1> SUFFICES ASSUME IInv, [Next]_vars PROVE MapsMove
    OBVIOUS
  <1>0. ThreadsSound /\ MapsTyped /\ ContextsEvolve
    BY ContextsStep DEF IInv, Typed
  <1> USE <1>0 DEF At
  <1>1. ASSUME NEW t \in Threads, FormatsEraseOld(t) PROVE MapsMove
    BY <1>1, SameSessions DEF FormatsEraseOld, MapsTyped
  <1>2. ASSUME NEW t \in Threads, FormatsPublish(t) PROVE MapsMove
    BY <1>2, SameSessions, HasContext DEF FormatsPublish, MapsTyped, DerefPcs
  <1>3. ASSUME NEW t \in Threads, FormatsModes(t) PROVE MapsMove
    <2> DEFINE f == th[t].fd
               s == th[t].sess
    <2>1. f \in Fds /\ s \in Contexts /\ cx'[s].fd # None
      BY <1>3, InACall, SessionOfCall DEF FormatsModes
    <2>2. g_camera_map' = g_camera_map /\ sessionsByFd' = [sessionsByFd EXCEPT ![f] = s]
      BY <1>3 DEF FormatsModes
    <2>3. \A g \in Fds : sessionsByFd'[g] = IF g = f THEN s ELSE sessionsByFd[g]
      BY <2>1, <2>2 DEF MapsTyped
    <2>4. QED
      BY <2>1, <2>2, <2>3, BeginOnSession DEF MapsTyped, MapsMove
  <1>4. ASSUME NEW t \in Threads, ReleaseErase(t) PROVE MapsMove
    BY <1>4, SameSessions DEF ReleaseErase, MapsTyped
  <1>5. ASSUME NEW t \in Threads, RemoveSession(t) PROVE MapsMove
    <2>1. \A g \in Fds : sessionsByFd'[g] \in {sessionsByFd[g], None}
      BY <1>5 DEF RemoveSession, MapsTyped
    <2>2. MapsTyped'
      BY <1>5 DEF RemoveSession, MapsTyped
    <2>3. QED
      BY <2>1, <2>2, BeginOnSession DEF MapsMove
  <1>6. CASE UNCHANGED <<g_camera_map, sessionsByFd>>
    BY <1>6, SameSessions DEF MapsTyped
  <1>7. QED
    BY <1>1, <1>2, <1>3, <1>4, <1>5, <1>6
    DEF Next, Begins, ThreadStep, CallbackStep, vars, FormatsOpen, FormatsOpenFails, 
       FormatsNoModes, CloseConnection, StartLookup, StartSetBuffer, StartAborts, 
       StartStopOld, StartSettle, StartRetry, StartStreams, StartFails, FirstFrame, 
       StartFailed, StopLookup, StopLock, StopDone, ReleaseLookup, DestructorReturns, 
       CleanupCas, CleanupLock, CleanupClose, CleanupForgetBuffer, ReadLookup, 
       ReadLock, ReadUnlock, OpenConnection, BeginStart, BeginStop, BeginRelease, 
       BeginRead, CallbackEnter, CallbackDrop, CallbackCopy, CallbackCopied, 
       CallbackJava, CallbackReady, PreviewLookup, PreviewLock, PreviewUnlock, 
       CallbackReturn

LEMMA HeldStep == IInv /\ [Next]_vars => HeldTyped'
  <1> SUFFICES ASSUME IInv, [Next]_vars PROVE HeldTyped'
    OBVIOUS
  <1>0. /\ held \in [Locks -> Holders] /\ Nobody \in Holders /\ Threads \subseteq Holders
        /\ \A c \in Contexts : Cb(c) \in Holders
    BY DEF IInv, Typed, HeldTyped, Holders
  <1> USE <1>0 DEF HeldTyped
  <1>1. ASSUME NEW t \in Threads, StartStopOld(t) PROVE HeldTyped'
    BY <1>1 DEF StartStopOld
  <1>2. ASSUME NEW t \in Threads, StartSettle(t) PROVE HeldTyped'
    BY <1>2 DEF StartSettle
  <1>3. ASSUME NEW t \in Threads, StopLock(t) PROVE HeldTyped'
    BY <1>3 DEF StopLock
  <1>4. ASSUME NEW t \in Threads, StopDone(t) PROVE HeldTyped'
    BY <1>4 DEF StopDone
  <1>5. ASSUME NEW t \in Threads, CleanupLock(t) PROVE HeldTyped'
    BY <1>5 DEF CleanupLock
  <1>6. ASSUME NEW t \in Threads, CleanupClose(t) PROVE HeldTyped'
    BY <1>6 DEF CleanupClose
  <1>7. ASSUME NEW t \in Threads, ReadLock(t) PROVE HeldTyped'
    BY <1>7 DEF ReadLock
  <1>8. ASSUME NEW t \in Threads, ReleaseErase(t) PROVE HeldTyped'
    BY <1>8 DEF ReleaseErase
  <1>9. ASSUME NEW t \in Threads, DestructorReturns(t) PROVE HeldTyped'
    BY <1>9 DEF DestructorReturns
  <1>10. ASSUME NEW t \in Threads, BeginRead(t) PROVE HeldTyped'
    BY <1>10 DEF BeginRead
  <1>11. ASSUME NEW t \in Threads, ReadUnlock(t) PROVE HeldTyped'
    BY <1>11 DEF ReadUnlock, Unlocked
  <1>12. ASSUME NEW c \in Contexts, CallbackCopy(c) PROVE HeldTyped'
    BY <1>12 DEF CallbackCopy
  <1>13. ASSUME NEW c \in Contexts, CallbackCopied(c) PROVE HeldTyped'
    BY <1>13 DEF CallbackCopied
  <1>14. ASSUME NEW c \in Contexts, CallbackJava(c) PROVE HeldTyped'
    BY <1>14 DEF CallbackJava
  <1>15. ASSUME NEW c \in Contexts, PreviewLock(c) PROVE HeldTyped'
    BY <1>15 DEF PreviewLock
  <1>16. ASSUME NEW c \in Contexts, CallbackReturn(c) PROVE HeldTyped'
    BY <1>16 DEF CallbackReturn
  <1>17. ASSUME NEW c \in Contexts, PreviewUnlock(c) PROVE HeldTyped'
    BY <1>17 DEF PreviewUnlock, Unlocked
  <1>18. CASE UNCHANGED held
    BY <1>18
  <1>19. QED
    BY <1>1, <1>2, <1>3, <1>4, <1>5, <1>6, <1>7, <1>8, <1>9, <1>10, <1>11, <1>12, 
       <1>13, <1>14, <1>15, <1>16, <1>17, <1>18
    DEF Next, Begins, ThreadStep, CallbackStep, vars, FormatsEraseOld, FormatsOpen, 
       FormatsOpenFails, FormatsPublish, FormatsModes, FormatsNoModes, 
       CloseConnection, StartLookup, StartSetBuffer, StartAborts, StartRetry, 
       StartStreams, StartFails, FirstFrame, StartFailed, StopLookup, ReleaseLookup, 
       RemoveSession, CleanupCas, CleanupForgetBuffer, ReadLookup, OpenConnection, 
       BeginStart, BeginStop, BeginRelease, CallbackEnter, CallbackDrop, 
       CallbackReady, PreviewLookup


CallbacksMove == CallbacksTyped' /\ CallbackInStream' /\ CopyTargetValid'

LEMMA SameCallbacks ==
  ASSUME IInv, ContextsEvolve, UNCHANGED cb
  PROVE  CallbacksMove
  BY DEF IInv, Typed, CallbacksTyped, ContextsEvolve, Outlasts, CallbackInStream,
         CopyTargetValid, CallbacksMove

\* One callback moves to label l, with the context x it looked up.
LEMMA CallbackMoves ==
  ASSUME IInv, ContextsEvolve, NEW c \in Contexts, NEW l \in CbPcs,
         NEW x \in Contexts \cup {None}, cb' = [cb EXCEPT ![c] = [pc |-> l, ctx |-> x]],
         l = "pv_lock" => x # None, l # "idle" => cx'[c].stream # "stopped",
         l \in {"copy", "recopy"} => cx'[c].ptr
  PROVE  CallbacksMove
  <1>1. cb \in [Contexts -> CallbackRec] /\ [pc |-> l, ctx |-> x] \in CallbackRec
    BY DEF IInv, Typed, CallbacksTyped, CallbackRec
  <1>2. \A d \in Contexts : cb'[d] = IF d = c THEN [pc |-> l, ctx |-> x] ELSE cb[d]
    BY <1>1
  <1>3. CallbacksTyped'
    BY <1>1, <1>2 DEF IInv, Typed, CallbacksTyped
  <1>4. CallbackInStream' /\ CopyTargetValid'
    BY <1>2 DEF IInv, ContextsEvolve, Outlasts, CallbackInStream, CopyTargetValid
  <1>5. QED
    BY <1>3, <1>4 DEF CallbacksMove

LEMMA InStream ==
  ASSUME IInv, ContextsEvolve, NEW c \in Contexts, cb[c].pc # "idle"
  PROVE  cx'[c].stream # "stopped" /\ (cx[c].ptr => cx'[c].ptr)
  BY DEF ContextsEvolve, Outlasts

LEMMA CallbacksStep == IInv /\ [Next]_vars => CallbacksMove
  <1> SUFFICES ASSUME IInv, [Next]_vars PROVE CallbacksMove
    OBVIOUS
  <1>0. ContextsEvolve
    BY ContextsStep
  <1> USE <1>0 DEF CbGoto, CbPcs
  <1>1. ASSUME NEW c \in Contexts, CallbackEnter(c) PROVE CallbacksMove
    <2>1. cx'[c].stream # "stopped"
      BY <1>1 DEF CallbackEnter, IInv, Typed, ContextsTyped, ContextRec
    <2>2. QED
      BY <1>1, <2>1, CallbackMoves DEF CallbackEnter
  <1>2. ASSUME NEW c \in Contexts, CallbackDrop(c) PROVE CallbacksMove
    BY <1>2, CallbackMoves, InStream DEF CallbackDrop
  <1>3. ASSUME NEW c \in Contexts, CallbackCopy(c) PROVE CallbacksMove
    BY <1>3, CallbackMoves, InStream DEF CallbackCopy
  <1>4. ASSUME NEW c \in Contexts, CallbackCopied(c) PROVE CallbacksMove
    BY <1>4, CallbackMoves, InStream DEF CallbackCopied
  <1>5. ASSUME NEW c \in Contexts, CallbackJava(c) PROVE CallbacksMove
    BY <1>5, CallbackMoves, InStream DEF CallbackJava
  <1>6. ASSUME NEW c \in Contexts, CallbackReady(c) PROVE CallbacksMove
    BY <1>6, CallbackMoves, InStream DEF CallbackReady
  <1>7. ASSUME NEW c \in Contexts, PreviewLookup(c) PROVE CallbacksMove
    <2>1. cx[c].fd \in Fds
      BY <1>7 DEF PreviewLookup, IInv, Typed, ContextsTyped, ContextRec, Numbered,
         StreamOnOpenHandle, CallbackInStream
    <2>2. g_camera_map[cx[c].fd] \in Contexts \cup {None}
      BY <2>1 DEF IInv, Typed, MapsTyped
    <2>3. QED
      BY <1>7, <2>2, CallbackMoves, InStream DEF PreviewLookup
  <1>8. ASSUME NEW c \in Contexts, PreviewLock(c) PROVE CallbacksMove
    BY <1>8, CallbackMoves, InStream DEF PreviewLock
  <1>9. ASSUME NEW c \in Contexts, PreviewUnlock(c) PROVE CallbacksMove
    BY <1>9, CallbackMoves, InStream DEF PreviewUnlock
  <1>10. ASSUME NEW c \in Contexts, CallbackReturn(c) PROVE CallbacksMove
    BY <1>10, CallbackMoves, InStream DEF CallbackReturn
  <1>11. CASE UNCHANGED cb
    BY <1>11, SameCallbacks
  <1>12. QED
    BY <1>1, <1>2, <1>3, <1>4, <1>5, <1>6, <1>7, <1>8, <1>9, <1>10, <1>11
    DEF Next, Begins, ThreadStep, CallbackStep, vars, FormatsEraseOld, FormatsOpen, 
       FormatsOpenFails, FormatsPublish, FormatsModes, FormatsNoModes, 
       CloseConnection, StartLookup, StartSetBuffer, StartAborts, StartStopOld, 
       StartSettle, StartRetry, StartStreams, StartFails, FirstFrame, StartFailed, 
       StopLookup, StopLock, StopDone, ReleaseLookup, ReleaseErase, 
       DestructorReturns, RemoveSession, CleanupCas, CleanupLock, CleanupClose, 
       CleanupForgetBuffer, ReadLookup, ReadLock, ReadUnlock, OpenConnection, 
       BeginStart, BeginStop, BeginRelease, BeginRead


-----------------------------------------------------------------------------
LEMMA InitIInv == Init => IInv
  <1> SUFFICES ASSUME Init PROVE IInv
    OBVIOUS
  <1>1. ThreadsSound
    BY IdleSound DEF Init, ThreadsSound, Sound
  <1>2. MapsTyped /\ ContextsTyped /\ HeldTyped
    BY DEF Init, MapsTyped, ContextsTyped, ContextRec, NewContext, HeldTyped, Holders
  <1>3. CallbacksTyped
    BY DEF Init, CallbacksTyped, CallbackRec, IdleCb, CbPcs
  <1>4. Numbered
    BY DEF Init, Numbered, CallsNumbered, IdleThread, NewContext
  <1>5. CallbackInStream /\ CopyTargetValid
    BY DEF Init, CallbackInStream, CopyTargetValid, IdleCb
  <1>6. CleanupFinal
    BY DEF Init, CleanupFinal, AfterCas, IdleThread
  <1>7. StreamOnOpenHandle
    BY DEF Init, StreamOnOpenHandle, NewContext
  <1>8. QED
    BY <1>1, <1>2, <1>3, <1>4, <1>5, <1>6, <1>7 DEF IInv, Typed

LEMMA NextIInv == IInv /\ [Next]_vars => IInv'
  <1> SUFFICES ASSUME IInv, [Next]_vars PROVE IInv'
    OBVIOUS
  <1>1. ContextsEvolve /\ ThreadsMove /\ MapsMove /\ HeldTyped' /\ CallbacksMove
    BY ContextsStep, ThreadsStep, MapsStep, HeldStep, CallbacksStep
  <1>2. Typed'
    BY <1>1 DEF Typed, ContextsEvolve, ThreadsMove, MapsMove, CallbacksMove
  <1>3. Numbered' /\ StreamOnOpenHandle'
    BY <1>1 DEF Numbered, StreamOnOpenHandle, ContextsEvolve, Evolves, ThreadsMove, MapsMove
  <1>4. CallbackInStream' /\ CleanupFinal' /\ CopyTargetValid'
    BY <1>1 DEF ThreadsMove, CallbacksMove
  <1>5. QED
    BY <1>2, <1>3, <1>4 DEF IInv

THEOREM IInvHolds == Spec => []IInv
  <1>1. QED
    BY InitIInv, NextIInv, PTL DEF Spec

\* The variables of the JNI layer keep their types; in particular no call
\* dereferences a context it has not found.
THEOREM TypeCorrect == Spec => []TypeOK
  <1>1. IInv => TypeOK
    BY TypedIsTypeOK DEF IInv
  <1>2. QED
    BY <1>1, IInvHolds, PTL

\* startUVC, stopUVC and cleanup: no stream outlives its libuvc handle, and
\* none is started on a handle closed during one of the sleeps.
THEOREM StreamSafe == Spec => []StreamOnOpenHandle
  <1>1. IInv => StreamOnOpenHandle
    BY DEF IInv
  <1>2. QED
    BY <1>1, IInvHolds, PTL

\* cleanup and frame_callback: the callback never copies through a buffer
\* pointer that cleanup has reset, although cleanup takes no lock for it.
THEOREM CopySafe == Spec => []CopyTargetValid
  <1>1. IInv => CopyTargetValid
    BY DEF IInv
  <1>2. QED
    BY <1>1, IInvHolds, PTL

=============================================================================
