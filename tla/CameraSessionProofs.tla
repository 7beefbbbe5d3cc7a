------------------------- MODULE CameraSessionProofs -------------------------
(****************************************************************************)
(* For any number of threads, file descriptors and connections, as long as  *)
(* no session is taken down both by releaseCamera and by a recovery: a      *)
(* descriptor number has one owner at a time, the thread that creates its   *)
(* session or the one that takes it down.  From this follow the properties  *)
(* of CameraContext that recoveries break.                                  *)
(****************************************************************************)
EXTENDS CameraContextProofs

ServePcs == {"s_lookup", "s_buffer", "s_lock", "s_stop", "s_relock", "s_retry",
             "k_started", "k_failed", "p_lookup", "p_lock", "p_stop"}
PlainPcs == ServePcs \cup {"idle", "rd_lookup", "rd_lock", "rd_unlock"}
CleanupPcs == {"c_cas", "c_lock", "c_stop", "c_null"}
CreatePcs  == {"f_old", "f_open", "f_publish", "f_modes", "k_close"}
ReleasePcs == {"r_lookup", "r_erase", "k_remove"}

\* A thread that starts, stops or reads, creates a session, or releases one.
Plain(r) ==
  /\ r.pc \in PlainPcs
  /\ r.pc \in {"rd_lookup", "rd_lock"} => r.k = "rd_unlock"
  /\ r.pc \in ServePcs => r.k \in {"idle", "k_failed"}
Creating(r)  == r.pc \in CreatePcs \/ (r.pc \in CleanupPcs /\ r.ret = "f_open")
Releasing(r) == r.pc \in ReleasePcs \/ (r.pc \in CleanupPcs /\ r.ret = "r_erase")
Owns(r) == Creating(r) \/ Releasing(r)

\* releaseCamera or a recovery took the session of c down.
Taken(c) == cx[c].released \/ cx[c].recovered

\* What the ownership of a context depends on.
Res(c) == [conn |-> cx[c].conn, fd |-> cx[c].fd, cleaned_up |-> cx[c].cleaned_up,
           devh |-> cx[c].devh, taken |-> Taken(c)]

\* The thread r creates a session on connection x; m and s are what the two
\* maps have for its number.
Creates(r, x, m, s) ==
  /\ x.conn = "open" /\ x.fd = r.fd /\ s = None /\ r.k = "idle"
  /\ r.pc = "f_old" => m # r.sess /\ (~NonMjpeg => m = None)
  /\ r.pc \in CleanupPcs => r.ctx # r.sess
  /\ r.pc \in CleanupPcs \cup {"f_open", "f_publish"} => m = None
  /\ r.pc = "f_modes" => m = r.sess
  /\ r.pc \in {"f_publish", "f_modes"} => r.ctx = r.sess /\ x.devh
  /\ r.pc \in CleanupPcs \cup {"f_old", "f_open"} => ~x.devh
  /\ r.pc # "k_close" => ~x.cleaned_up
  /\ r.pc = "k_close" /\ ~NonMjpeg => ~x.devh /\ m = None

\* The thread r releases the session of connection x.
Releases(r, x, m, s) ==
  /\ x.conn = "open" /\ x.fd = r.fd /\ x.taken /\ s = r.sess
  /\ m = IF r.pc = "k_remove" THEN None ELSE r.sess
  /\ r.pc \in CleanupPcs \cup {"r_erase"} => r.ctx = r.sess
  /\ x.cleaned_up <=> r.pc \notin {"r_lookup", "c_cas"}
  /\ r.pc \in {"c_null", "r_erase", "k_remove"} => ~x.devh

\* The thread r starts or stops the session of connection x: it is the one
\* of its number, or was.
Serves(r, x, s) == r.pc \in ServePcs => x.taken \/ s = r.sess

Attends(r, x, m, s) ==
  /\ Plain(r) \/ Creating(r) \/ Releasing(r)
  /\ Serves(r, x, s)
  /\ Creating(r) => Creates(r, x, m, s)
  /\ Releasing(r) => Releases(r, x, m, s)

Attended == \A t \in Threads :
  Attends(th[t], Res(th[t].sess), g_camera_map[th[t].fd], sessionsByFd[th[t].fd])

OneOwner == \A t, u \in Threads :
  Owns(th[t]) /\ Owns(th[u]) /\ th[t].fd = th[u].fd => t = u

\* cleanup runs on a context of the number the thread works on, and its
\* compare-and-swap always succeeds.
Cleans(r, x) == x.fd = r.fd /\ (r.pc = "c_cas" => ~x.cleaned_up)
Cleaning == \A t \in Threads : th[t].pc \in CleanupPcs => Cleans(th[t], Res(th[t].ctx))

\* What the two maps have for f: context c, in state x, and session s, in
\* state y.
Entry(f, c, x, s, y) ==
  /\ c # None => /\ x.fd = f /\ (x.cleaned_up => s = c)
                 /\ ~NonMjpeg => x.conn = "open"
  /\ s # None => /\ y.fd = f /\ y.conn = "open"
                 /\ ~y.taken => c = s /\ ~y.cleaned_up
EntryOf(f) == Entry(f, g_camera_map[f], Res(g_camera_map[f]),
                    sessionsByFd[f], Res(sessionsByFd[f]))
Entries == \A f \in Fds : EntryOf(f)

Fresh == \A c \in Contexts :
  cx[c].conn = "unused" => cx[c].fd = None /\ ~cx[c].cleaned_up /\ ~cx[c].devh

\* Nobody who drops a reference to c has to clean it up.
Mapped(c) == \E f \in Fds : g_camera_map[f] = c
BeingErased(c) == \E t \in Threads : th[t].pc = "c_cas" /\ th[t].ctx = c
Safe(c) == cx[c].cleaned_up \/ Mapped(c) \/ BeingErased(c)

CallsKeep == \A t \in Threads, c \in Contexts : th[t].ctx = c =>
  /\ th[t].pc # "f_publish" => Safe(c)
  /\ th[t].pc = "rd_lock" => cx[c].fd = th[t].fd
PreviewsKeep == \A d \in Contexts :
  cb[d].pc # "selfjoin" /\ \A c \in Contexts : cb[d].ctx = c => Safe(c)

\* An open handle is in the map, or a thread holds its context.
Shelters(r, c) == r.ctx = c /\ r.pc \in {"f_publish", "c_cas", "c_lock", "c_stop"}
HandleKept == \A c \in Contexts :
  cx[c].devh => Mapped(c) \/ \E t \in Threads : Shelters(th[t], c)

\* A reader that left a buffer locked did so on a context that is not in the
\* map any more.
BufferHolders == \A c \in Contexts, t \in Threads : held[BufferMutex(c)] = t =>
  /\ Safe(c)
  /\ Mapped(c) => th[t].pc = "rd_unlock" /\ th[t].fd = cx[c].fd

HandleOpen == ~NonMjpeg => ConnectionOutlivesHandle

Orderly == /\ Attended /\ OneOwner /\ Cleaning /\ Entries /\ Fresh /\ CallsKeep
           /\ PreviewsKeep /\ HandleKept /\ BufferHolders /\ HandleOpen
SInv == IInv /\ Orderly

-----------------------------------------------------------------------------
(* Where the helpers of CameraContext take a thread *)

OthersStay(t) == \A u \in Threads : u # t => th'[u] = th[u]
GoesIdle(t) == OthersStay(t) /\ th'[t].pc = "idle" /\ th'[t].ctx = None

\* The thread goes on with its call, with context c, to return to q and k.
MovesTo(t, l, c, q, k) ==
  /\ OthersStay(t) /\ th'[t].pc = l /\ th'[t].ctx = c /\ th'[t].ret = q /\ th'[t].k = k
  /\ th'[t].fd = th[t].fd /\ th'[t].sess = th[t].sess

LeavesTo(t, k) == IF k = "idle" THEN GoesIdle(t) ELSE MovesTo(t, k, None, th[t].ret, th[t].k)

LEMMA GotoIs ==
  ASSUME ThreadsSound, NEW t \in Threads, NEW l, l # "idle", Goto(t, l)
  PROVE  MovesTo(t, l, th[t].ctx, th[t].ret, th[t].k)
  BY DEF Goto, ThreadsSound, ThreadRec, MovesTo, OthersStay

LEMMA IdleIs ==
  ASSUME ThreadsSound, NEW t \in Threads, Goto(t, "idle")
  PROVE  GoesIdle(t)
  BY DEF Goto, ThreadsSound, GoesIdle, OthersStay, IdleThread

LEMMA FoundIs ==
  ASSUME ThreadsSound, NEW t \in Threads, NEW l, NEW c, Found(t, c, l)
  PROVE  MovesTo(t, l, c, th[t].ret, th[t].k)
  BY DEF Found, ThreadsSound, ThreadRec, MovesTo, OthersStay

LEMMA CleanUpIs ==
  ASSUME ThreadsSound, NEW t \in Threads, NEW q, NEW c, CleanUp(t, c, q)
  PROVE  MovesTo(t, "c_cas", c, q, th[t].k)
  BY DEF CleanUp, ThreadsSound, ThreadRec, MovesTo, OthersStay

LEMMA CallIs ==
  ASSUME ThreadsSound, NEW t \in Threads, NEW l, NEW k, Call(t, l, k)
  PROVE  MovesTo(t, l, th[t].ctx, th[t].ret, k)
  BY DEF Call, ThreadsSound, ThreadRec, MovesTo, OthersStay

LEMMA LeaveIs ==
  ASSUME ThreadsSound, NEW t \in Threads, NEW k, Leave(t, k)
  PROVE  LeavesTo(t, k)
  <1>1. CASE k = "idle"
    BY <1>1, IdleIs DEF Leave, LeavesTo
  <1>2. CASE k # "idle"
    BY <1>2, FoundIs DEF Leave, LeavesTo
  <1>3. QED
    BY <1>1, <1>2

LEMMA BeginIs ==
  ASSUME ThreadsSound, NEW t \in Threads, NEW l, NEW f, NEW s, NEW k, Begin(t, l, f, s, k)
  PROVE  /\ th[t].pc = "idle" /\ OthersStay(t)
         /\ th'[t].pc = l /\ th'[t].fd = f /\ th'[t].sess = s /\ th'[t].k = k
         /\ th'[t].ctx = None
  BY DEF Begin, At, ThreadsSound, OthersStay, IdleThread

\* No call that returns runs the destructor of the context it used.
LEMMA JniIs ==
  ASSUME ThreadsSound, CallsKeep, NEW t \in Threads, th[t].pc # "f_publish",
         th[t].pc # "c_cas", NEW k, JniReturnTo(t, k)
  PROVE  LeavesTo(t, k)
  <1> DEFINE c == th[t].ctx
  <1>1. ASSUME c # None, LastRef(c, t)  PROVE  cx[c].cleaned_up
    <2>1. Safe(c)
      BY <1>1 DEF CallsKeep, ThreadsSound, ThreadRec
    <2>2. ~Mapped(c)
      BY <1>1 DEF LastRef, Mapped
    <2>3. ~BeingErased(c)
      BY <1>1 DEF LastRef, Unshared, BeingErased
    <2>4. QED
      BY <2>1, <2>2, <2>3 DEF Safe
  <1>2. Leave(t, k)
    BY <1>1 DEF JniReturnTo
  <1>3. QED
    BY <1>2, LeaveIs

-----------------------------------------------------------------------------
(* Steps of starts, stops, readers and callbacks *)

Quiet == /\ \A c \in Contexts : Res(c)' = Res(c)
         /\ UNCHANGED <<g_camera_map, sessionsByFd>>

PlainStep(t) ==
  /\ OthersStay(t) /\ Plain(th[t]) /\ Plain(th'[t])
  /\ th'[t].ctx = None \/ th'[t].ctx = th[t].ctx \/ Mapped(th'[t].ctx)
  /\ th'[t].pc = "rd_lock" => cx[th'[t].ctx].fd = th'[t].fd
  /\ th'[t].pc \in ServePcs => th'[t].sess \in Contexts
  /\ Serves(th'[t], Res(th'[t].sess), sessionsByFd[th'[t].fd])

LEMMA PlainOwnsNothing ==
  ASSUME NEW r, Plain(r)
  PROVE  /\ ~Creating(r) /\ ~Releasing(r) /\ r.pc \notin CleanupPcs
         /\ r.pc \notin {"f_publish", "c_cas", "c_lock", "c_stop"}
  BY DEF Plain, PlainPcs, ServePcs, Creating, Releasing, CreatePcs, ReleasePcs, CleanupPcs

LEMMA ResIs ==
  ASSUME NEW c
  PROVE  /\ Res(c).conn = cx[c].conn /\ Res(c).fd = cx[c].fd
         /\ Res(c).cleaned_up = cx[c].cleaned_up /\ Res(c).devh = cx[c].devh
         /\ Res(c).taken = Taken(c)
  BY DEF Res

LEMMA ResStays ==
  ASSUME NEW c, Res(c)' = Res(c)
  PROVE  /\ cx'[c].conn = cx[c].conn /\ cx'[c].fd = cx[c].fd
         /\ cx'[c].cleaned_up = cx[c].cleaned_up /\ cx'[c].devh = cx[c].devh
         /\ Taken(c)' = Taken(c)
  BY DEF Res

SafeStable == \A c \in Contexts : Safe(c) => Safe(c)'

\* Everything but the previews and the locks.
MostOrderly == /\ Attended /\ OneOwner /\ Cleaning /\ Entries /\ Fresh /\ CallsKeep
               /\ HandleKept /\ HandleOpen

LEMMA QuietStep ==
  ASSUME SInv, Quiet, (UNCHANGED th) \/ \E t \in Threads : PlainStep(t)
  PROVE  MostOrderly' /\ SafeStable
  <1>0. /\ ThreadsSound /\ Attended /\ OneOwner /\ Cleaning /\ Entries /\ Fresh /\ CallsKeep
        /\ HandleKept /\ HandleOpen /\ MapsTyped
    BY DEF SInv, Orderly, IInv, Typed
  <1>1. ASSUME NEW u \in Threads  PROVE  th'[u] = th[u] \/ (Plain(th[u]) /\ Plain(th'[u]))
    BY DEF PlainStep, OthersStay
  <1>2. ASSUME NEW c  PROVE  Mapped(c)' <=> Mapped(c)
    BY DEF Mapped, Quiet
  <1>3. ASSUME NEW c \in Contexts  PROVE  /\ cx'[c].conn = cx[c].conn /\ cx'[c].fd = cx[c].fd
                                          /\ cx'[c].cleaned_up = cx[c].cleaned_up
                                          /\ cx'[c].devh = cx[c].devh
                                          /\ Taken(c)' = Taken(c)
    BY ResStays DEF Quiet
  <1>4. SafeStable
    <2> SUFFICES ASSUME NEW c \in Contexts, Safe(c)  PROVE Safe(c)'
      BY DEF SafeStable
    <2>1. BeingErased(c) => BeingErased(c)'
      BY <1>1, PlainOwnsNothing DEF BeingErased
    <2>2. QED
      BY <2>1, <1>2, <1>3 DEF Safe
  <1>5. Attended'
    <2> SUFFICES ASSUME NEW u \in Threads
                 PROVE  Attends(th[u], Res(th[u].sess), g_camera_map[th[u].fd],
                                sessionsByFd[th[u].fd])'
      BY DEF Attended
    <2>1. CASE PlainStep(u)
      <3>1. th'[u].pc \in ServePcs => Res(th[u].sess)' = Res(th'[u].sess)
        BY <2>1 DEF PlainStep, Quiet
      <3>2. Serves(th[u], Res(th[u].sess), sessionsByFd[th[u].fd])'
        BY <2>1, <3>1 DEF PlainStep, Serves, Quiet
      <3>3. QED
        BY <2>1, <3>2, PlainOwnsNothing DEF PlainStep, Attends
    <2>2. CASE th'[u] = th[u] /\ th[u].pc = "idle"
      BY <1>0, <2>2 DEF Attended, Attends, Serves, Plain, ServePcs, Creating, Releasing,
                        CreatePcs, ReleasePcs, CleanupPcs
    <2>3. CASE th'[u] = th[u] /\ th[u].pc # "idle"
      <3>1. Res(th[u].sess)' = Res(th[u].sess)
        BY <1>0, <1>3, <2>3, InACall DEF Res
      <3>2. QED
        BY <1>0, <2>3, <3>1 DEF Attended, Attends, Quiet
    <2>4. QED
      BY <2>1, <2>2, <2>3 DEF PlainStep, OthersStay
  <1>6. OneOwner'
    BY <1>0, <1>1, PlainOwnsNothing DEF OneOwner, Owns
  <1>7. Cleaning'
    <2> SUFFICES ASSUME NEW u \in Threads, th'[u].pc \in CleanupPcs
                 PROVE  Cleans(th[u], Res(th[u].ctx))'
      BY DEF Cleaning
    <2>1. th'[u] = th[u] /\ th[u].ctx \in Contexts
      BY <1>0, <1>1, PlainOwnsNothing, HasContext DEF CleanupPcs, DerefPcs
    <2>2. QED
      BY <1>0, <1>3, <2>1 DEF Cleaning, Cleans, Res
  <1>8. Entries'
    <2> SUFFICES ASSUME NEW f \in Fds  PROVE  EntryOf(f)'
      BY DEF Entries
    <2>1. /\ g_camera_map[f] # None => g_camera_map[f] \in Contexts
          /\ sessionsByFd[f] # None => sessionsByFd[f] \in Contexts
      BY <1>0 DEF MapsTyped
    <2>2. QED
      BY <1>0, <1>3, <2>1 DEF Entries, EntryOf, Entry, Res, Quiet
  <1>9. Fresh'
    BY <1>0, <1>3 DEF Fresh
  <1>10. CallsKeep'
    <2> SUFFICES ASSUME NEW u \in Threads, NEW c \in Contexts, th'[u].ctx = c
                 PROVE  /\ th'[u].pc # "f_publish" => Safe(c)'
                        /\ th'[u].pc = "rd_lock" => cx'[c].fd = th'[u].fd
      BY DEF CallsKeep
    <2>1. CASE th'[u] = th[u]
      BY <1>0, <1>3, <1>4, <2>1 DEF CallsKeep, SafeStable
    <2>2. CASE PlainStep(u)
      <3>1. th[u].pc # "f_publish"
        BY <2>2, PlainOwnsNothing DEF PlainStep
      <3>2. th[u].ctx = c \/ Mapped(c)
        BY <2>2 DEF PlainStep, Contexts, None
      <3>3. Safe(c)
        BY <1>0, <3>1, <3>2 DEF CallsKeep, Safe
      <3>4. th'[u].pc = "rd_lock" => cx[c].fd = th'[u].fd
        BY <2>2 DEF PlainStep
      <3>5. QED
        BY <1>3, <1>4, <3>3, <3>4 DEF SafeStable
    <2>3. QED
      BY <2>1, <2>2 DEF PlainStep, OthersStay
  <1>11. HandleKept'
    BY <1>0, <1>1, <1>2, <1>3, PlainOwnsNothing DEF HandleKept, Shelters
  <1>12. HandleOpen'
    BY <1>0, <1>3 DEF HandleOpen, ConnectionOutlivesHandle
  <1>13. QED
    BY <1>4, <1>5, <1>6, <1>7, <1>8, <1>9, <1>10, <1>11, <1>12 DEF MostOrderly

LEMMA PlainAt ==
  ASSUME SInv, NEW t \in Threads, th[t].pc \in PlainPcs
  PROVE  ThreadsSound /\ Plain(th[t])
  BY DEF SInv, IInv, Typed, Orderly, Attended, Attends, PlainPcs, ServePcs, Creating, Releasing,
         CreatePcs, ReleasePcs, CleanupPcs

LEMMA PlainMove ==
  ASSUME SInv, NEW t \in Threads, th[t].pc \in PlainPcs, NEW l \in PlainPcs, NEW c, NEW q, NEW k,
         MovesTo(t, l, c, q, k), c = None \/ c = th[t].ctx \/ Mapped(c),
         l \in {"rd_lookup", "rd_lock"} => k = "rd_unlock",
         l \in ServePcs => k \in {"idle", "k_failed"},
         l = "rd_lock" => cx[c].fd = th[t].fd,
         l \in ServePcs => th[t].pc \in ServePcs
  PROVE  PlainStep(t)
  <1>1. Serves(th[t], Res(th[t].sess), sessionsByFd[th[t].fd])
    BY DEF SInv, Orderly, Attended, Attends
  <1>2. th[t].pc \in ServePcs => th[t].sess \in Contexts
    BY PlainAt, InACall DEF ServePcs
  <1>3. /\ th'[t].pc \in ServePcs => th'[t].sess \in Contexts
        /\ Serves(th'[t], Res(th'[t].sess), sessionsByFd[th'[t].fd])
    BY <1>1, <1>2 DEF Serves, MovesTo
  <1>4. QED
    BY <1>3, PlainAt DEF PlainStep, MovesTo, Plain

LEMMA PlainIdle ==
  ASSUME SInv, NEW t \in Threads, th[t].pc \in PlainPcs, GoesIdle(t)
  PROVE  PlainStep(t)
  BY PlainAt DEF PlainStep, GoesIdle, Plain, PlainPcs, ServePcs, Serves

LEMMA PlainLeave ==
  ASSUME SInv, NEW t \in Threads, th[t].pc \in PlainPcs,
         NEW k \in {"idle", "k_failed", "k_started", "rd_unlock"}, JniReturnTo(t, k),
         k # "rd_unlock" => th[t].pc \in ServePcs
  PROVE  PlainStep(t) /\ LeavesTo(t, k)
  <1>0. ThreadsSound /\ CallsKeep /\ Plain(th[t])
    BY PlainAt DEF SInv, Orderly
  <1>1. LeavesTo(t, k)
    BY <1>0, JniIs DEF PlainPcs, ServePcs
  <1>2. CASE k = "idle"
    BY <1>1, <1>2, PlainIdle DEF LeavesTo
  <1>3. CASE k # "idle"
    <2>1. MovesTo(t, k, None, th[t].ret, th[t].k)
      BY <1>1, <1>3 DEF LeavesTo
    <2>2. k # "rd_unlock" => th[t].k \in {"idle", "k_failed"}
      BY <1>0 DEF Plain
    <2>3. PICK l \in PlainPcs : l = k
      BY DEF PlainPcs, ServePcs
    <2>4. MovesTo(t, l, None, th[t].ret, th[t].k)
      BY <2>1, <2>3
    <2>5. /\ l \notin {"rd_lookup", "rd_lock"} /\ l # "rd_lock"
          /\ l \in ServePcs => th[t].k \in {"idle", "k_failed"}
      BY <2>2, <2>3 DEF ServePcs
    <2>6. l \in ServePcs => th[t].pc \in ServePcs
      BY <2>3 DEF ServePcs
    <2>7. QED
      BY <1>1, <2>4, <2>5, <2>6, PlainMove
  <1>4. QED
    BY <1>1, <1>2, <1>3

LEMMA PlainBegin ==
  ASSUME SInv, NEW t \in Threads, NEW l \in PlainPcs, NEW f, NEW s, NEW k, Begin(t, l, f, s, k),
         l = "rd_lookup" => k = "rd_unlock", l \notin {"idle", "rd_lock", "rd_unlock"},
         l # "rd_lookup" =>
           k \in {"idle", "k_failed"} /\ s \in Contexts /\ s = sessionsByFd[f]
  PROVE  PlainStep(t)
  <1>1. ThreadsSound
    BY DEF SInv, IInv, Typed
  <1>2. th[t].pc = "idle" /\ th[t].pc \in PlainPcs
    BY <1>1, BeginIs DEF PlainPcs, ServePcs
  <1>3. QED
    BY <1>1, <1>2, BeginIs, PlainAt DEF PlainStep, Plain, PlainPcs, ServePcs, Serves

\* What a look at the map finds is of the number of the call.
LEMMA FoundInMap ==
  ASSUME SInv, NEW t \in Threads, th[t].pc # "idle", g_camera_map[th[t].fd] # None
  PROVE  /\ Mapped(g_camera_map[th[t].fd]) /\ g_camera_map[th[t].fd] \in Contexts
         /\ cx[g_camera_map[th[t].fd]].fd = th[t].fd
  <1>1. th[t].fd \in Fds
    BY InACall DEF SInv, IInv, Typed
  <1>2. QED
    BY <1>1 DEF SInv, IInv, Typed, MapsTyped, Orderly, Entries, EntryOf, Entry, Res, Mapped

\* A step that only changes the stream, the buffer or the ghosts of contexts.
LEMMA ResQuiet ==
  ASSUME UNCHANGED <<g_camera_map, sessionsByFd>>,
         \A c \in Contexts :
           /\ cx'[c].conn = cx[c].conn /\ cx'[c].fd = cx[c].fd
           /\ cx'[c].cleaned_up = cx[c].cleaned_up /\ cx'[c].devh = cx[c].devh
           /\ Taken(c)' = Taken(c)
  PROVE  Quiet
  BY DEF Quiet, Res

LEMMA StreamChange ==
  ASSUME SInv, NEW c \in Contexts, NEW v, cx' = [cx EXCEPT ![c].stream = v],
         UNCHANGED <<g_camera_map, sessionsByFd>>
  PROVE  Quiet
  <1>1. cx \in [Contexts -> ContextRec]
    BY DEF SInv, IInv, Typed, ContextsTyped
  <1>2. \A d \in Contexts :
           /\ cx'[d].conn = cx[d].conn /\ cx'[d].fd = cx[d].fd
           /\ cx'[d].cleaned_up = cx[d].cleaned_up /\ cx'[d].devh = cx[d].devh
           /\ Taken(d)' = Taken(d)
    BY <1>1 DEF ContextRec, Taken
  <1>3. QED
    BY <1>2, ResQuiet

LEMMA StopQuiet ==
  ASSUME SInv, NEW c \in Contexts, StopStream(c), UNCHANGED <<g_camera_map, sessionsByFd>>
  PROVE  Quiet
  BY StreamChange DEF StopStream

LEMMA NothingChanges ==
  ASSUME UNCHANGED <<cx, g_camera_map, sessionsByFd>>
  PROVE  Quiet
  BY DEF Quiet, Res, Taken

\* A start that failed is given up, or its session is rebuilt.
GiveUp(t) == /\ At(t, "k_failed") /\ Goto(t, "idle")
             /\ UNCHANGED <<g_camera_map, sessionsByFd, cx, held, cb>>
Recover(t) ==
  /\ At(t, "k_failed") /\ ~cx[th[t].sess].recovered
  /\ Call(t, "r_lookup", "k_remove")
  /\ cx' = [cx EXCEPT ![th[t].sess].recovered = TRUE]
  /\ UNCHANGED <<g_camera_map, sessionsByFd, held, cb>>

\* The steps of startUVC, stopUVC and of readers, and the Kotlin code around
\* them.
PlainActions(t) ==
  \/ BeginStart(t) \/ BeginStop(t) \/ BeginRead(t)
  \/ StartLookup(t) \/ StartSetBuffer(t) \/ StartAborts(t) \/ StartStopOld(t)
  \/ StartSettle(t) \/ StartRetry(t) \/ StartStreams(t) \/ StartFails(t)
  \/ FirstFrame(t) \/ GiveUp(t)
  \/ StopLookup(t) \/ StopLock(t) \/ StopDone(t)
  \/ ReadLookup(t) \/ ReadLock(t) \/ ReadUnlock(t)

LEMMA PlainActionsMove ==
  ASSUME SInv, NEW t \in Threads, PlainActions(t)
  PROVE  PlainStep(t)
  <1>0. ThreadsSound
    BY DEF SInv, IInv, Typed
  <1> USE <1>0 DEF At, PlainPcs, ServePcs
  <1>k. th[t].pc \in PlainPcs => Plain(th[t])
    BY PlainAt
  <1>goto. ASSUME NEW l \in PlainPcs \ {"rd_lookup", "rd_lock"}, l # "idle", Goto(t, l),
                  th[t].pc \in ServePcs \/ l = "rd_unlock",
                  th[t].pc \in PlainPcs
           PROVE  PlainStep(t)
    <2>1. MovesTo(t, l, th[t].ctx, th[t].ret, th[t].k)
      BY <1>goto, GotoIs
    <2>2. l # "rd_unlock" => th[t].k \in {"idle", "k_failed"}
      BY <1>goto, <1>k DEF Plain
    <2>3. QED
      BY <1>goto, <2>1, <2>2, PlainMove
  <1>idle. ASSUME Goto(t, "idle"), th[t].pc \in PlainPcs  PROVE PlainStep(t)
    BY <1>idle, IdleIs, PlainIdle
  <1>found. ASSUME NEW l \in PlainPcs, l # "idle", th[t].pc \in PlainPcs \ {"idle", "rd_unlock"},
                   Found(t, g_camera_map[th[t].fd], l), g_camera_map[th[t].fd] # None,
                   l \in {"rd_lookup", "rd_lock", "rd_unlock"} <=>
                     th[t].pc \in {"rd_lookup", "rd_lock", "rd_unlock"}
            PROVE  PlainStep(t)
    <2> DEFINE c == g_camera_map[th[t].fd]
    <2>1. Mapped(c) /\ cx[c].fd = th[t].fd
      BY <1>found, FoundInMap
    <2>2. MovesTo(t, l, c, th[t].ret, th[t].k)
      BY <1>found, FoundIs
    <2>3. /\ l \in {"rd_lookup", "rd_lock"} => th[t].k = "rd_unlock"
          /\ l \in ServePcs => th[t].k \in {"idle", "k_failed"}
      BY <1>found, <1>k DEF Plain
    <2> HIDE DEF c
    <2>4. QED
      BY <1>found, <2>1, <2>2, <2>3, PlainMove
  <1>leave. ASSUME JniReturn(t), th[t].pc \in {"s_lock", "s_relock", "s_retry", "p_lock", "p_stop"}
            PROVE  PlainStep(t)
    <2>1. PICK k \in {"idle", "k_failed"} : k = th[t].k
      BY <1>leave, <1>k DEF Plain
    <2>2. JniReturnTo(t, k)
      BY <1>leave, <2>1 DEF JniReturn
    <2>3. QED
      BY <1>leave, <2>1, <2>2, PlainLeave
  <1>m. \A f \in Fds : sessionsByFd[f] # None => sessionsByFd[f] \in Contexts
    BY DEF SInv, IInv, Typed, MapsTyped
  <1>1. CASE BeginStart(t)
    BY <1>1, <1>m, PlainBegin DEF BeginStart
  <1>2. CASE BeginStop(t)
    BY <1>2, <1>m, PlainBegin DEF BeginStop
  <1>3. CASE BeginRead(t)
    BY <1>3, PlainBegin DEF BeginRead
  <1>4. CASE StartLookup(t)
    BY <1>4, <1>goto, <1>found DEF StartLookup
  <1>5. CASE StartSetBuffer(t)
    BY <1>5, <1>goto DEF StartSetBuffer
  <1>6. CASE StartAborts(t)
    BY <1>6, <1>leave DEF StartAborts
  <1>7. CASE StartStopOld(t)
    BY <1>7, <1>goto DEF StartStopOld
  <1>8. CASE StartSettle(t)
    BY <1>8, <1>goto DEF StartSettle
  <1>9. CASE StartRetry(t)
    BY <1>9, <1>goto DEF StartRetry
  <1>10. CASE StartStreams(t)
    BY <1>10, PlainLeave DEF StartStreams
  <1>11. CASE StartFails(t)
    BY <1>11, <1>leave DEF StartFails
  <1>12. CASE FirstFrame(t)
    <2>1. CASE Call(t, "p_lookup", "k_failed")
      <3>1. MovesTo(t, "p_lookup", th[t].ctx, th[t].ret, "k_failed")
        BY <2>1, CallIs
      <3>2. QED
        BY <1>12, <3>1, PlainMove DEF FirstFrame
    <2>2. QED
      BY <1>12, <1>idle, <2>1 DEF FirstFrame
  <1>13. CASE GiveUp(t)
    BY <1>13, <1>idle DEF GiveUp
  <1>14. CASE StopLookup(t)
    <2>1. CASE Goto(t, th[t].k) /\ th[t].k # "idle"
      <3>1. PICK l \in {"k_failed"} : l = th[t].k
        BY <1>14, <1>k, <2>1 DEF StopLookup, Plain
      <3>2. QED
        BY <1>14, <1>goto, <2>1, <3>1 DEF StopLookup
    <2>2. CASE Goto(t, "idle")
      BY <1>14, <1>idle, <2>2 DEF StopLookup
    <2>3. QED
      BY <1>14, <1>found, <2>1, <2>2 DEF StopLookup
  <1>15. CASE StopLock(t)
    BY <1>15, <1>goto, <1>leave DEF StopLock
  <1>16. CASE StopDone(t)
    BY <1>16, <1>leave DEF StopDone
  <1>17. CASE ReadLookup(t)
    BY <1>17, <1>goto, <1>found DEF ReadLookup
  <1>18. CASE ReadLock(t)
    <2>1. th[t].k = "rd_unlock"
      BY <1>18, <1>k DEF ReadLock, Plain
    <2>2. JniReturnTo(t, "rd_unlock")
      BY <1>18, <2>1 DEF ReadLock, JniReturn
    <2>3. QED
      BY <1>18, <2>2, PlainLeave DEF ReadLock
  <1>19. CASE ReadUnlock(t)
    BY <1>19, <1>idle DEF ReadUnlock
  <1>20. QED
    BY <1>1, <1>2, <1>3, <1>4, <1>5, <1>6, <1>7, <1>8, <1>9, <1>10, <1>11, <1>12,
       <1>13, <1>14, <1>15, <1>16, <1>17, <1>18, <1>19 DEF PlainActions

LEMMA PlainActionsQuiet ==
  ASSUME SInv, NEW t \in Threads, PlainActions(t)
  PROVE  Quiet
  <1>0. ThreadsSound /\ cx \in [Contexts -> ContextRec]
    BY DEF SInv, IInv, Typed, ContextsTyped
  <1> USE DEF At
  <1>1. CASE StartSetBuffer(t)
    <2>1. th[t].ctx \in Contexts
      BY <1>0, <1>1, HasContext DEF StartSetBuffer, DerefPcs
    <2>2. \A d \in Contexts :
            /\ cx'[d].conn = cx[d].conn /\ cx'[d].fd = cx[d].fd
            /\ cx'[d].cleaned_up = cx[d].cleaned_up /\ cx'[d].devh = cx[d].devh
            /\ Taken(d)' = Taken(d)
      BY <1>0, <1>1, <2>1 DEF StartSetBuffer, ContextRec, Taken
    <2>3. QED
      BY <1>1, <2>2, ResQuiet DEF StartSetBuffer
  <1>2. CASE StartStopOld(t) \/ StopLock(t)
    <2>1. th[t].ctx \in Contexts
      BY <1>0, <1>2, HasContext DEF StartStopOld, StopLock, DerefPcs
    <2>2. QED
      BY <1>2, <2>1, StopQuiet, NothingChanges DEF StartStopOld, StopLock
  <1>3. CASE StartSettle(t) \/ StopDone(t)
    <2>1. th[t].ctx \in Contexts
      BY <1>0, <1>3, HasContext DEF StartSettle, StopDone, DerefPcs
    <2>2. QED
      BY <1>3, <2>1, StreamChange DEF StartSettle, StopDone
  <1>4. CASE StartStreams(t)
    <2> DEFINE c == th[t].ctx
               s == th[t].sess
               m == [cx EXCEPT ![c].stream = "streaming"]
    <2>1. c \in Contexts /\ s \in Contexts
      BY <1>0, <1>4, HasContext, InACall DEF StartStreams, DerefPcs
    <2>2. m \in [Contexts -> ContextRec]
      BY <1>0, <2>1 DEF ContextRec, Taken
    <2>3. \A d \in Contexts :
            /\ m[d].conn = cx[d].conn /\ m[d].fd = cx[d].fd
            /\ m[d].cleaned_up = cx[d].cleaned_up /\ m[d].devh = cx[d].devh
            /\ m[d].released = cx[d].released /\ m[d].recovered = cx[d].recovered
      BY <1>0, <2>1 DEF ContextRec, Taken
    <2>4. cx' = [m EXCEPT ![s].served = TRUE]
      BY <1>0, <1>4, <2>1 DEF StartStreams
    <2> HIDE DEF m
    <2>5. \A d \in Contexts :
            /\ cx'[d].conn = m[d].conn /\ cx'[d].fd = m[d].fd
            /\ cx'[d].cleaned_up = m[d].cleaned_up /\ cx'[d].devh = m[d].devh
            /\ cx'[d].released = m[d].released /\ cx'[d].recovered = m[d].recovered
      BY <2>1, <2>2, <2>4 DEF ContextRec, Taken
    <2>6. \A d \in Contexts :
            /\ cx'[d].conn = cx[d].conn /\ cx'[d].fd = cx[d].fd
            /\ cx'[d].cleaned_up = cx[d].cleaned_up /\ cx'[d].devh = cx[d].devh
            /\ Taken(d)' = Taken(d)
      BY <2>3, <2>5 DEF Taken
    <2>7. QED
      BY <1>4, <2>6, ResQuiet DEF StartStreams
  <1>5. CASE UNCHANGED <<cx, g_camera_map, sessionsByFd>>
    BY <1>5, NothingChanges
  <1>6. QED
    BY <1>1, <1>2, <1>3, <1>4, <1>5
    DEF PlainActions, BeginStart, BeginStop, BeginRead, StartLookup, StartAborts, StartRetry,
        StartFails, FirstFrame, GiveUp, StopLookup, ReadLookup, ReadLock, ReadUnlock

\* Who gets the buffer of c locked in a step of thread t.
LEMMA PlainLocks ==
  ASSUME SInv, NEW t \in Threads, PlainActions(t), NEW c \in Contexts
  PROVE  \/ held'[BufferMutex(c)] \in {held[BufferMutex(c)], Nobody}
         \/ ReadLock(t) /\ c = th[t].ctx /\ held'[BufferMutex(c)] = t
  <1>0. held \in [Locks -> Holders] /\ BufferMutex(c) \in Locks
    BY DEF SInv, IInv, Typed, HeldTyped, Locks, BufferMutex
  <1>1. /\ \A d : UvcMutex(d) # BufferMutex(c) /\ FrameLock(d) # BufferMutex(c)
        /\ \A d : BufferMutex(d) = BufferMutex(c) => d = c
    BY DEF UvcMutex, FrameLock, BufferMutex
  <1> USE <1>0
  <1>2. CASE BeginRead(t)
    BY <1>1, <1>2 DEF BeginRead
  <1>3. CASE StartStopOld(t)
    BY <1>1, <1>3 DEF StartStopOld
  <1>4. CASE StartSettle(t)
    BY <1>1, <1>4 DEF StartSettle
  <1>5. CASE StopLock(t)
    BY <1>1, <1>5 DEF StopLock
  <1>6. CASE StopDone(t)
    BY <1>1, <1>6 DEF StopDone
  <1>7. CASE ReadLock(t)
    BY <1>1, <1>7 DEF ReadLock
  <1>8. CASE ReadUnlock(t)
    BY <1>1, <1>8 DEF ReadUnlock, Unlocked
  <1>9. CASE UNCHANGED held
    BY <1>9
  <1>10. QED
    BY <1>2, <1>3, <1>4, <1>5, <1>6, <1>7, <1>8, <1>9
    DEF PlainActions, BeginStart, BeginStop, StartLookup, StartSetBuffer, StartAborts, StartRetry,
        StartStreams, StartFails, FirstFrame, GiveUp, StopLookup, ReadLookup

\* A reader that unlocks the buffer it holds finds it, if it is in the map.
LEMMA UnlockFinds ==
  ASSUME SInv, NEW t \in Threads, ReadUnlock(t), NEW c \in Contexts, Mapped(c),
         held[BufferMutex(c)] = t
  PROVE  held'[BufferMutex(c)] = Nobody
  <1>1. th[t].fd = cx[c].fd
    BY DEF SInv, Orderly, BufferHolders
  <1>2. PICK f \in Fds : g_camera_map[f] = c
    BY DEF Mapped
  <1>3. cx[c].fd = f /\ c # None
    BY <1>2 DEF SInv, Orderly, Entries, EntryOf, Entry, Res, Contexts, None
  <1>4. held \in [Locks -> Holders] /\ BufferMutex(c) \in Locks
    BY DEF SInv, IInv, Typed, HeldTyped, Locks, BufferMutex
  <1>5. FrameLock(th[t].sess) # BufferMutex(c)
    BY DEF FrameLock, BufferMutex
  <1>6. QED
    BY <1>1, <1>2, <1>3, <1>4, <1>5 DEF ReadUnlock, Unlocked

LEMMA PlainBuffers ==
  ASSUME SInv, NEW t \in Threads, PlainActions(t)
  PROVE  BufferHolders'
  <1>0. Quiet /\ PlainStep(t) /\ SafeStable
    BY PlainActionsMove, PlainActionsQuiet, QuietStep
  <1> SUFFICES ASSUME NEW c \in Contexts, NEW u \in Threads, held'[BufferMutex(c)] = u
               PROVE  /\ Safe(c)'
                      /\ Mapped(c)' => th'[u].pc = "rd_unlock" /\ th'[u].fd = cx'[c].fd
    BY DEF BufferHolders
  <1>1. (Mapped(c)' <=> Mapped(c)) /\ cx'[c].fd = cx[c].fd
    BY <1>0, ResStays DEF Quiet, Mapped
  <1>2. CASE held[BufferMutex(c)] = u
    <2>1. Safe(c)'
      BY <1>0, <1>2 DEF SafeStable, SInv, Orderly, BufferHolders
    <2>2. Mapped(c) => th[u].pc = "rd_unlock" /\ th[u].fd = cx[c].fd
      BY <1>2 DEF SInv, Orderly, BufferHolders
    <2>3. CASE u # t
      BY <1>0, <1>1, <2>1, <2>2, <2>3 DEF PlainStep, OthersStay
    <2>4. CASE u = t /\ Mapped(c)
      <3>1. ReadUnlock(t)
        BY <2>2, <2>4
        DEF PlainActions, BeginStart, BeginStop, BeginRead, Begin, At, StartLookup, StartSetBuffer,
            StartAborts, StartStopOld, StartSettle, StartRetry, StartStreams, StartFails,
            FirstFrame, GiveUp, StopLookup, StopLock, StopDone, ReadLookup, ReadLock
      <3>2. held'[BufferMutex(c)] = Nobody
        BY <1>2, <2>4, <3>1, UnlockFinds
      <3>3. QED
        BY <3>2, HoldersAssumption
    <2>5. QED
      BY <1>1, <2>1, <2>3, <2>4
  <1>3. CASE held[BufferMutex(c)] # u
    <2>1. ReadLock(t) /\ c = th[t].ctx /\ u = t
      BY <1>3, PlainLocks, HoldersAssumption
    <2>2. Safe(c) /\ cx[c].fd = th[t].fd
      BY <2>1 DEF SInv, Orderly, CallsKeep, ReadLock, At
    <2>3. th[t].pc = "rd_lock" /\ th[t].pc \in PlainPcs
      BY <2>1 DEF ReadLock, At, PlainPcs, ServePcs
    <2>4. th[t].k = "rd_unlock"
      BY <2>3, PlainAt DEF Plain
    <2>5. LeavesTo(t, "rd_unlock")
      BY <2>1, <2>3, <2>4, PlainLeave DEF ReadLock, JniReturn
    <2>6. QED
      BY <1>0, <1>1, <2>1, <2>2, <2>5 DEF LeavesTo, MovesTo, SafeStable
  <1>4. QED
    BY <1>2, <1>3

LEMMA PlainOrderly ==
  ASSUME SInv, NEW t \in Threads, PlainActions(t)
  PROVE  Orderly'
  <1>1. MostOrderly' /\ SafeStable /\ BufferHolders'
    BY PlainActionsMove, PlainActionsQuiet, QuietStep, PlainBuffers
  <1>2. cb' = cb
    BY DEF PlainActions, BeginStart, BeginStop, BeginRead, StartLookup, StartSetBuffer,
           StartAborts, StartStopOld, StartSettle, StartRetry, StartStreams, StartFails,
           FirstFrame, GiveUp, StopLookup, StopLock, StopDone, ReadLookup, ReadLock, ReadUnlock
  <1>3. PreviewsKeep'
    BY <1>1, <1>2 DEF SInv, Orderly, PreviewsKeep, SafeStable
  <1>4. QED
    BY <1>1, <1>3 DEF Orderly, MostOrderly

CallbackActions(c) == CallbackEnter(c) \/ CallbackStep(c)

LEMMA CallbackQuiet ==
  ASSUME SInv, NEW c \in Contexts, CallbackActions(c)
  PROVE  Quiet /\ UNCHANGED th
  <1>1. CASE CallbackEnter(c)
    BY <1>1, StreamChange DEF CallbackEnter
  <1>2. CASE CallbackStep(c)
    BY <1>2, NothingChanges
    DEF CallbackStep, CallbackDrop, CallbackCopy, CallbackCopied, CallbackJava, CallbackReady,
        PreviewLookup, PreviewLock, PreviewUnlock, CallbackReturn
  <1>3. QED
    BY <1>1, <1>2 DEF CallbackActions

LEMMA CallbackLocks ==
  ASSUME SInv, NEW c \in Contexts, CallbackActions(c), NEW d \in Contexts
  PROVE  held'[BufferMutex(d)] \in {held[BufferMutex(d)], Nobody, Cb(c)}
  <1>0. held \in [Locks -> Holders] /\ BufferMutex(d) \in Locks
    BY DEF SInv, IInv, Typed, HeldTyped, Locks, BufferMutex
  <1>1. CallbackMutex # BufferMutex(d)
    BY DEF CallbackMutex, BufferMutex
  <1> USE <1>0, <1>1
  <1>2. CASE CallbackCopy(c)
    BY <1>2 DEF CallbackCopy
  <1>3. CASE CallbackCopied(c)
    BY <1>3 DEF CallbackCopied
  <1>4. CASE CallbackJava(c)
    BY <1>4 DEF CallbackJava
  <1>5. CASE PreviewLock(c)
    BY <1>5 DEF PreviewLock
  <1>6. CASE PreviewUnlock(c)
    BY <1>6 DEF PreviewUnlock, Unlocked
  <1>7. CASE CallbackReturn(c)
    BY <1>7 DEF CallbackReturn
  <1>8. CASE UNCHANGED held
    BY <1>8
  <1>9. QED
    BY <1>2, <1>3, <1>4, <1>5, <1>6, <1>7, <1>8
    DEF CallbackActions, CallbackStep, CallbackEnter, CallbackDrop, CallbackReady, PreviewLookup

LEMMA CallbackPreviews ==
  ASSUME SInv, NEW c \in Contexts, CallbackActions(c)
  PROVE  PreviewsKeep'
  <1>0. SafeStable /\ cb \in [Contexts -> CallbackRec] /\ PreviewsKeep
    BY CallbackQuiet, QuietStep DEF SInv, IInv, Typed, CallbacksTyped, Orderly
  <1>1. ASSUME NEW l, l # "selfjoin", CbGoto(c, l)  PROVE PreviewsKeep'
    BY <1>0, <1>1 DEF CbGoto, PreviewsKeep, SafeStable, Contexts, None
  <1>2. CASE PreviewLookup(c)
    <2> DEFINE d == g_camera_map[cx[c].fd]
    <2>1. cx[c].fd \in Fds
      BY <1>2 DEF PreviewLookup, SInv, IInv, Typed, ContextsTyped, ContextRec, Numbered,
         StreamOnOpenHandle, CallbackInStream
    <2>2. d # None => Mapped(d)
      BY <2>1 DEF Mapped
    <2>3. \A e \in Contexts : IF e = c THEN cb'[e].ctx = d /\ cb'[e].pc \in {"pv_unlock", "pv_lock"}
                              ELSE cb'[e] = cb[e]
      BY <1>0, <1>2 DEF PreviewLookup
    <2>4. \A e \in Contexts : d = e => Safe(e)
      BY <2>2 DEF Safe, Contexts, None
    <2> HIDE DEF d
    <2>5. QED
      BY <1>0, <2>3, <2>4 DEF PreviewsKeep, SafeStable
  <1>3. CASE PreviewLock(c)
    <2> DEFINE d == cb[c].ctx
    <2>1. d \in Contexts /\ Safe(d)
      BY <1>0, <1>3 DEF PreviewLock, PreviewsKeep, SInv, IInv, Typed, CallbacksTyped, CallbackRec
    <2>2. CbGoto(c, "pv_unlock")
      BY <1>3, <2>1 DEF PreviewLock, Safe, Mapped, BeingErased
    <2>3. QED
      BY <1>1, <2>2
  <1>4. QED
    BY <1>1, <1>2, <1>3, CallbackQuiet
    DEF CallbackActions, CallbackStep, CallbackEnter, CallbackDrop, CallbackCopy, CallbackCopied,
        CallbackJava, CallbackReady, PreviewUnlock, CallbackReturn

LEMMA CallbackOrderly ==
  ASSUME SInv, NEW c \in Contexts, CallbackActions(c)
  PROVE  Orderly'
  <1>1. MostOrderly' /\ SafeStable /\ PreviewsKeep' /\ Quiet /\ UNCHANGED th
    BY CallbackQuiet, QuietStep, CallbackPreviews
  <1>2. BufferHolders'
    <2> SUFFICES ASSUME NEW d \in Contexts, NEW u \in Threads, held'[BufferMutex(d)] = u
                 PROVE  /\ Safe(d)'
                        /\ Mapped(d)' => th'[u].pc = "rd_unlock" /\ th'[u].fd = cx'[d].fd
      BY DEF BufferHolders
    <2>1. held[BufferMutex(d)] = u
      BY CallbackLocks, HoldersAssumption
    <2>2. (Mapped(d)' <=> Mapped(d)) /\ cx'[d].fd = cx[d].fd
      BY <1>1, ResStays DEF Quiet, Mapped
    <2>3. QED
      BY <1>1, <2>1, <2>2 DEF SafeStable, SInv, Orderly, BufferHolders
  <1>3. QED
    BY <1>1, <1>2 DEF Orderly, MostOrderly

-----------------------------------------------------------------------------
(* Steps of the owner of a number *)

\* The step of thread t concerns number f alone, which no other thread owns.
Turn(t, f) ==
  /\ OthersStay(t)
  /\ \A u \in Threads : u # t /\ Owns(th[u]) => th[u].fd # f
  /\ \A g \in Fds : g # f => /\ g_camera_map'[g] = g_camera_map[g]
                             /\ sessionsByFd'[g] = sessionsByFd[g]
  /\ \A c \in Contexts : sessionsByFd[f] = c /\ sessionsByFd'[f] # c => Taken(c)'
  /\ \A c \in Contexts : \/ Res(c)' = Res(c)
                         \/ cx[c].fd \in {None, f} /\ cx'[c].fd = f /\ (Taken(c) => Taken(c)')

\* The thread keeps its part of the bargain.
Duty(t, f) ==
  /\ Attends(th[t], Res(th[t].sess), g_camera_map[th[t].fd], sessionsByFd[th[t].fd])'
  /\ Owns(th'[t]) => th'[t].fd = f
  /\ th'[t].pc \in CleanupPcs => Cleans(th[t], Res(th[t].ctx))'
  /\ EntryOf(f)'

\* What a step may do to a context, and to what keeps it.
Evolve(c) == Res(c)' = Res(c) \/ /\ cx'[c].conn # "unused"
                                 /\ cx[c].cleaned_up => cx'[c].cleaned_up
                                 /\ ~NonMjpeg /\ cx'[c].devh => cx'[c].conn = "open"

Erases(t, f) == \A c \in Contexts :
  g_camera_map[f] = c /\ g_camera_map'[f] # c =>
    Safe(c)' /\ (cx'[c].devh => Shelters(th'[t], c))
Publishes(f) == \A c \in Contexts : g_camera_map'[f] = c /\ g_camera_map[f] # c => ~Safe(c)
Keeps(t) ==
  /\ th[t].pc = "c_cas" => cx'[th[t].ctx].cleaned_up
  /\ \A c \in Contexts : th'[t].pc # "f_publish" /\ th'[t].ctx = c => Safe(c)'
  /\ \A c \in Contexts : cx'[c].devh =>
       /\ cx[c].devh \/ Shelters(th'[t], c)
       /\ Shelters(th[t], c) => Shelters(th'[t], c) \/ Mapped(c)'

Work(t, f) == /\ Turn(t, f) /\ Duty(t, f) /\ (\A c \in Contexts : Evolve(c))
              /\ Erases(t, f) /\ Publishes(f) /\ Keeps(t)
Apart(t) == /\ th[t].pc # "rd_unlock" /\ th'[t].pc # "rd_lock" /\ cb' = cb
            /\ \A c \in Contexts : held'[BufferMutex(c)] = held[BufferMutex(c)]

LEMMA OwnersSeparate ==
  ASSUME SInv, NEW t \in Threads, NEW f \in Fds, Turn(t, f), Duty(t, f)
  PROVE  Attended' /\ OneOwner' /\ Cleaning' /\ Entries'
  <1>0. /\ ThreadsSound /\ Attended /\ OneOwner /\ Cleaning /\ Entries /\ MapsTyped
    BY DEF SInv, Orderly, IInv, Typed
  <1>1. ASSUME NEW c \in Contexts, cx[c].fd \notin {None, f}
        PROVE  Res(c)' = Res(c)
    BY <1>1 DEF Turn
  <1>2. ASSUME NEW u \in Threads, u # t, Owns(th[u])
        PROVE  /\ th'[u] = th[u] /\ th[u].fd \in Fds /\ th[u].fd # f
               /\ g_camera_map'[th[u].fd] = g_camera_map[th[u].fd]
               /\ sessionsByFd'[th[u].fd] = sessionsByFd[th[u].fd]
               /\ th[u].sess \in Contexts
    <2>1. th[u].pc # "idle"
      BY <1>2 DEF Owns, Creating, Releasing, CreatePcs, ReleasePcs, CleanupPcs
    <2>2. th[u].fd \in Fds /\ th[u].sess \in Contexts
      BY <1>0, <2>1, InACall
    <2>3. QED
      BY <1>2, <2>2 DEF Turn, OthersStay
  <1>3. Attended'
    <2> SUFFICES ASSUME NEW u \in Threads, u # t
                 PROVE  Attends(th[u], Res(th[u].sess), g_camera_map[th[u].fd],
                                sessionsByFd[th[u].fd])'
      BY DEF Attended, Duty
    <2>1. th'[u] = th[u]
      BY DEF Turn, OthersStay
    <2>2. CASE ~Owns(th[u])
      <3>1. ASSUME th[u].pc \in ServePcs
            PROVE  th[u].sess \in Contexts /\ th[u].fd \in Fds /\ th[u].sess # None
        BY <1>0, <3>1, InACall DEF ServePcs, Contexts, None
      <3>2. Serves(th[u], Res(th[u].sess), sessionsByFd[th[u].fd])
        BY <1>0 DEF Attended, Attends
      <3>3. ASSUME th[u].pc \in ServePcs, Taken(th[u].sess)  PROVE Taken(th[u].sess)'
        BY <2>1, <3>1, <3>3, ResStays DEF Turn
      <3>4. ASSUME th[u].pc \in ServePcs, sessionsByFd[th[u].fd] = th[u].sess
            PROVE  sessionsByFd'[th[u].fd] = th[u].sess \/ Taken(th[u].sess)'
        BY <2>1, <3>1, <3>4 DEF Turn
      <3>5. Serves(th[u], Res(th[u].sess), sessionsByFd[th[u].fd])'
        BY <2>1, <3>2, <3>3, <3>4, ResIs DEF Serves, Res
      <3>6. QED
        BY <1>0, <2>1, <2>2, <3>5 DEF Attended, Attends, Owns
    <2>3. CASE Owns(th[u])
      <3>1. Res(th[u].sess).fd = th[u].fd
        BY <1>0, <2>3 DEF Attended, Attends, Owns, Creates, Releases
      <3>2. cx[th[u].sess].fd \notin {None, f}
        BY <1>2, <2>3, <3>1 DEF Res, Fds, None
      <3>3. Res(th[u].sess)' = Res(th[u].sess)
        BY <1>1, <1>2, <2>1, <2>3, <3>2 DEF Res
      <3>4. QED
        BY <1>0, <1>2, <2>1, <2>3, <3>3 DEF Attended
    <2>4. QED
      BY <2>2, <2>3
  <1>4. OneOwner'
    BY <1>0 DEF OneOwner, Turn, Duty, OthersStay
  <1>5. Cleaning'
    <2> SUFFICES ASSUME NEW u \in Threads, u # t, th'[u].pc \in CleanupPcs
                 PROVE  Cleans(th[u], Res(th[u].ctx))'
      BY DEF Cleaning, Duty
    <2>1. th'[u] = th[u]
      BY DEF Turn, OthersStay
    <2>2. Owns(th[u]) /\ th[u].ctx \in Contexts
      BY <1>0, <2>1, PlainOwnsNothing, HasContext DEF Attended, Attends, Owns, CleanupPcs, DerefPcs
    <2>3. Cleans(th[u], Res(th[u].ctx))
      BY <1>0, <2>1 DEF Cleaning
    <2>4. cx[th[u].ctx].fd \notin {None, f}
      BY <1>2, <2>2, <2>3 DEF Cleans, Res, Fds, None
    <2>5. Res(th[u].ctx)' = Res(th[u].ctx)
      BY <1>1, <2>1, <2>2, <2>4 DEF Res
    <2>6. QED
      BY <2>1, <2>3, <2>5 DEF Cleans
  <1>6. Entries'
    <2> SUFFICES ASSUME NEW g \in Fds, g # f  PROVE  EntryOf(g)'
      BY DEF Entries, Duty
    <2>1. /\ g_camera_map'[g] = g_camera_map[g] /\ sessionsByFd'[g] = sessionsByFd[g]
          /\ g_camera_map[g] # None => g_camera_map[g] \in Contexts
          /\ sessionsByFd[g] # None => sessionsByFd[g] \in Contexts
      BY <1>0 DEF Turn, MapsTyped
    <2>2. EntryOf(g) /\ g # None
      BY <1>0 DEF Entries, Fds, None
    <2>3. /\ g_camera_map[g] # None => Res(g_camera_map[g])' = Res(g_camera_map[g])
          /\ sessionsByFd[g] # None => Res(sessionsByFd[g])' = Res(sessionsByFd[g])
      BY <1>1, <2>1, <2>2 DEF EntryOf, Entry, Res
    <2>4. QED
      BY <2>1, <2>2, <2>3 DEF EntryOf, Entry
  <1>7. QED
    BY <1>3, <1>4, <1>5, <1>6

LEMMA WorkOrderly ==
  ASSUME SInv, NEW t \in Threads, NEW f \in Fds, Work(t, f), Apart(t)
  PROVE  Orderly'
  <1>0. /\ ThreadsSound /\ MapsTyped /\ Entries /\ Fresh /\ CallsKeep /\ PreviewsKeep
        /\ HandleKept /\ BufferHolders /\ HandleOpen
        /\ Turn(t, f) /\ Duty(t, f) /\ (\A c \in Contexts : Evolve(c))
        /\ Erases(t, f) /\ Publishes(f) /\ Keeps(t) /\ OthersStay(t)
    BY DEF SInv, Orderly, IInv, Typed, Work, Turn
  <1>1. Attended' /\ OneOwner' /\ Cleaning' /\ Entries'
    BY <1>0, OwnersSeparate
  <1>2. ASSUME NEW c \in Contexts, Mapped(c)  PROVE cx'[c].fd = cx[c].fd
    <2>1. cx[c].fd \in Fds
      BY <1>0, <1>2 DEF Mapped, Entries, EntryOf, Entry, Res, Contexts, None
    <2>2. QED
      BY <1>0, <2>1, ResStays DEF Turn, Fds, None
  <1>3. SafeStable
    <2> SUFFICES ASSUME NEW c \in Contexts, Safe(c)  PROVE Safe(c)'
      BY DEF SafeStable
    <2>1. CASE cx[c].cleaned_up
      BY <1>0, <2>1, ResStays DEF Evolve, Safe
    <2>2. CASE Mapped(c)
      BY <1>0, <2>2 DEF Mapped, Turn, Erases, Safe, Contexts, None
    <2>3. CASE BeingErased(c)
      BY <1>0, <2>3 DEF BeingErased, Turn, OthersStay, Keeps, Safe
    <2>4. QED
      BY <2>1, <2>2, <2>3 DEF Safe
  <1>4. Fresh'
    BY <1>0, ResStays DEF Fresh, Evolve
  <1>5. CallsKeep'
    <2> SUFFICES ASSUME NEW u \in Threads, NEW c \in Contexts, th'[u].ctx = c
                 PROVE  /\ th'[u].pc # "f_publish" => Safe(c)'
                        /\ th'[u].pc = "rd_lock" => cx'[c].fd = th'[u].fd
      BY DEF CallsKeep
    <2>1. CASE u = t
      BY <1>0, <2>1 DEF Keeps, Apart, Contexts, None
    <2>2. CASE u # t
      <3>1. th'[u] = th[u]
        BY <1>0, <2>2 DEF OthersStay
      <3>2. th[u].pc = "rd_lock" => cx'[c].fd = cx[c].fd
        <4>1. ASSUME th[u].pc = "rd_lock"  PROVE cx[c].fd \in Fds
          BY <1>0, <3>1, <4>1, InACall DEF CallsKeep
        <4>2. QED
          BY <1>0, <4>1, ResStays DEF Turn, Fds, None
      <3>3. QED
        BY <1>0, <1>3, <3>1, <3>2 DEF CallsKeep, SafeStable
    <2>3. QED
      BY <2>1, <2>2
  <1>6. PreviewsKeep'
    BY <1>0, <1>3 DEF PreviewsKeep, SafeStable, Apart
  <1>7. HandleKept'
    <2> SUFFICES ASSUME NEW c \in Contexts, cx'[c].devh
                 PROVE  Mapped(c)' \/ \E u \in Threads : Shelters(th'[u], c)
      BY DEF HandleKept
    <2>1. CASE ~cx[c].devh
      BY <1>0, <2>1 DEF Keeps
    <2>2. CASE Mapped(c)
      BY <1>0, <2>2 DEF Mapped, Turn, Erases, Contexts, None
    <2>3. ASSUME NEW u \in Threads, Shelters(th[u], c)
          PROVE  Mapped(c)' \/ \E v \in Threads : Shelters(th'[v], c)
      BY <1>0, <2>3 DEF OthersStay, Keeps
    <2>4. QED
      BY <1>0, <2>1, <2>2, <2>3 DEF HandleKept
  <1>8. BufferHolders'
    <2> SUFFICES ASSUME NEW c \in Contexts, NEW u \in Threads, held'[BufferMutex(c)] = u
                 PROVE  /\ Safe(c)'
                        /\ Mapped(c)' => th'[u].pc = "rd_unlock" /\ th'[u].fd = cx'[c].fd
      BY DEF BufferHolders
    <2>1. held[BufferMutex(c)] = u
      BY DEF Apart
    <2>2. Safe(c) /\ (Mapped(c) => th[u].pc = "rd_unlock" /\ th[u].fd = cx[c].fd)
      BY <1>0, <2>1 DEF BufferHolders
    <2>3. Mapped(c)' => Mapped(c)
      BY <1>0, <2>2 DEF Mapped, Turn, Publishes, Contexts, None
    <2>4. Mapped(c) => th'[u] = th[u]
      BY <1>0, <2>2 DEF Apart, OthersStay
    <2>5. QED
      BY <1>2, <1>3, <2>2, <2>3, <2>4 DEF SafeStable
  <1>9. HandleOpen'
    BY <1>0, ResStays DEF HandleOpen, ConnectionOutlivesHandle, Evolve
  <1>10. QED
    BY <1>1, <1>4, <1>5, <1>6, <1>7, <1>8, <1>9 DEF Orderly

\* What the owner t of number f knows of it and of its session s.
Owner(t, f, s) ==
  /\ f # None /\ s # None /\ th[t].fd = f /\ th[t].sess = s
  /\ \A u \in Threads : u # t /\ Owns(th[u]) => th[u].fd # f
  /\ Creating(th[t]) => Creates(th[t], Res(s), g_camera_map[f], sessionsByFd[f])
  /\ Releasing(th[t]) => Releases(th[t], Res(s), g_camera_map[f], sessionsByFd[f])
  /\ Entry(f, g_camera_map[f], Res(g_camera_map[f]), sessionsByFd[f], Res(sessionsByFd[f]))

LEMMA OwnerIs ==
  ASSUME SInv, NEW t \in Threads, th[t].pc \in CreatePcs \cup ReleasePcs \cup CleanupPcs
  PROVE  /\ \E f \in Fds, s \in Contexts : Owner(t, f, s)
         /\ Creating(th[t]) \/ Releasing(th[t])
  <1>1. ThreadsSound /\ Attended /\ OneOwner /\ Entries
    BY DEF SInv, Orderly, IInv, Typed
  <1>2. Creating(th[t]) \/ Releasing(th[t])
    BY <1>1 DEF Attended, Attends, Plain, PlainPcs, ServePcs, CreatePcs, ReleasePcs, CleanupPcs
  <1>3. th[t].fd \in Fds /\ th[t].sess \in Contexts /\ th[t].fd # None /\ th[t].sess # None
    BY <1>1, InACall DEF CreatePcs, ReleasePcs, CleanupPcs, Fds, Contexts, None
  <1>4. Owner(t, th[t].fd, th[t].sess)
    BY <1>1, <1>2, <1>3 DEF Owner, Attended, Attends, OneOwner, Owns, Entries, EntryOf
  <1>5. QED
    BY <1>2, <1>3, <1>4

LEMMA OwnersServeNot ==
  ASSUME NEW r, NEW x, NEW s, Creating(r) \/ Releasing(r)
  PROVE  Serves(r, x, s)
  BY DEF Serves, ServePcs, Creating, Releasing, CreatePcs, ReleasePcs, CleanupPcs

\* A thread at rest owns nothing.
LEMMA RestDuty ==
  ASSUME NEW t \in Threads, NEW f, th'[t].pc = "idle", EntryOf(f)'
  PROVE  Duty(t, f)
  BY DEF Duty, Attends, Serves, Plain, PlainPcs, ServePcs, Owns, Creating, Releasing, CreatePcs,
         ReleasePcs, CleanupPcs

LEMMA ReleaseDuty ==
  ASSUME NEW t \in Threads, NEW f, NEW s, th'[t].fd = f, th'[t].sess = s, Releasing(th'[t]),
         ~Creating(th'[t]),
         Releases(th'[t], Res(s)', g_camera_map'[f], sessionsByFd'[f]),
         th'[t].pc \in CleanupPcs => Cleans(th[t], Res(th[t].ctx))', EntryOf(f)'
  PROVE  Duty(t, f)
  <1>1. Serves(th[t], Res(th[t].sess), sessionsByFd[th[t].fd])'
    BY OwnersServeNot
  <1>2. QED
    BY <1>1 DEF Duty, Attends

LEMMA CreateDuty ==
  ASSUME NEW t \in Threads, NEW f, NEW s, th'[t].fd = f, th'[t].sess = s, Creating(th'[t]),
         ~Releasing(th'[t]),
         Creates(th'[t], Res(s)', g_camera_map'[f], sessionsByFd'[f]),
         th'[t].pc \in CleanupPcs => Cleans(th[t], Res(th[t].ctx))', EntryOf(f)'
  PROVE  Duty(t, f)
  <1>1. Serves(th[t], Res(th[t].sess), sessionsByFd[th[t].fd])'
    BY OwnersServeNot
  <1>2. QED
    BY <1>1 DEF Duty, Attends

LEMMA SafeStays ==
  ASSUME Quiet, NEW t \in Threads, OthersStay(t), th[t].pc # "c_cas", NEW c \in Contexts, Safe(c)
  PROVE  Safe(c)'
  BY ResStays DEF Quiet, Safe, Mapped, BeingErased, OthersStay

LEMMA ReleaseLookupOrderly ==
  ASSUME SInv, NEW t \in Threads, ReleaseLookup(t)
  PROVE  Orderly'
  <1> USE DEF At
  <1>1. ThreadsSound /\ th[t].pc = "r_lookup" /\ Quiet
    BY NothingChanges DEF ReleaseLookup, SInv, IInv, Typed
  <1>2. PICK f \in Fds, s \in Contexts : Owner(t, f, s)
    BY <1>1, OwnerIs DEF ReleasePcs
  <1>3. Releases(th[t], Res(s), g_camera_map[f], sessionsByFd[f])
    BY <1>1, <1>2 DEF Owner, Releasing, ReleasePcs
  <1>4. g_camera_map[th[t].fd] = s /\ s # None
    BY <1>1, <1>2, <1>3 DEF Releases, Owner
  <1>5. MovesTo(t, "c_cas", s, "r_erase", th[t].k)
    BY <1>1, <1>4, CleanUpIs DEF ReleaseLookup
  <1>6. Turn(t, f)
    BY <1>1, <1>2, <1>5 DEF Owner, Turn, MovesTo, Quiet
  <1>7. Duty(t, f)
    <2>1. Releases(th'[t], Res(s)', g_camera_map'[f], sessionsByFd'[f])
      BY <1>1, <1>2, <1>3, <1>5 DEF Releases, Owner, MovesTo, Quiet, CleanupPcs
    <2>2. Cleans(th[t], Res(th[t].ctx))'
      BY <1>1, <1>2, <1>3, <1>5 DEF Cleans, Releases, Owner, MovesTo, Quiet
    <2>3. EntryOf(f)'
      BY <1>1, <1>2, <1>3 DEF Owner, EntryOf, Quiet, Releases
    <2>4. QED
      BY <1>2, <1>5, <2>1, <2>2, <2>3, ReleaseDuty
      DEF Owner, MovesTo, Releasing, Creating, CreatePcs, CleanupPcs
  <1>8. Keeps(t) /\ Erases(t, f) /\ Publishes(f) /\ \A c \in Contexts : Evolve(c)
    <2>1. Safe(s)'
      BY <1>1, <1>2, <1>4 DEF Safe, Mapped, Owner, Quiet
    <2>2. QED
      BY <1>1, <1>2, <1>4, <1>5, <2>1, ResStays
      DEF Keeps, Erases, Publishes, Evolve, Quiet, MovesTo, Shelters
  <1>9. Apart(t)
    BY <1>1, <1>5 DEF Apart, MovesTo, ReleaseLookup
  <1>10. QED
    BY <1>6, <1>7, <1>8, <1>9, WorkOrderly DEF Work

\* What a thread that cleans up context c knows of it.
LEMMA CleanerIs ==
  ASSUME SInv, NEW t \in Threads, th[t].pc \in CleanupPcs, NEW f, NEW s, Owner(t, f, s)
  PROVE  /\ th[t].ctx \in Contexts /\ cx[th[t].ctx].fd = f /\ cx[th[t].ctx].conn # "unused"
         /\ th[t].pc = "c_cas" <=> ~cx[th[t].ctx].cleaned_up
         /\ Creating(th[t]) => th[t].ctx # s
         /\ Releasing(th[t]) => th[t].ctx = s
  <1>1. th[t].ctx \in Contexts
    BY HasContext DEF SInv, IInv, Typed, CleanupPcs, DerefPcs
  <1>2. Cleans(th[t], Res(th[t].ctx))
    BY DEF SInv, Orderly, Cleaning
  <1>3. th[t].pc # "c_cas" => cx[th[t].ctx].cleaned_up
    BY DEF SInv, IInv, CleanupFinal, AfterCas, CleanupPcs
  <1>4. cx[th[t].ctx].fd = f /\ f # None
    BY <1>2 DEF Cleans, Owner, Res
  <1>5. cx[th[t].ctx].conn # "unused"
    BY <1>1, <1>4 DEF SInv, Orderly, Fresh
  <1>6. QED
    BY <1>1, <1>2, <1>3, <1>4, <1>5 DEF Cleans, Owner, Res, Creates, Releases

LEMMA CleanupCasOrderly ==
  ASSUME SInv, NEW t \in Threads, CleanupCas(t)
  PROVE  Orderly'
  <1> USE DEF At
  <1>1. /\ ThreadsSound /\ th[t].pc = "c_cas" /\ cx \in [Contexts -> ContextRec]
        /\ UNCHANGED <<g_camera_map, sessionsByFd>>
    BY DEF CleanupCas, SInv, IInv, Typed, ContextsTyped
  <1>2. th[t].pc \in CleanupPcs
    BY <1>1 DEF CleanupPcs
  <1>3. PICK f \in Fds, s \in Contexts : Owner(t, f, s)
    BY <1>1, OwnerIs DEF CleanupPcs
  <1>4. PICK c \in Contexts : c = th[t].ctx
    BY <1>2, <1>3, CleanerIs
  <1>5. /\ cx[c].fd = f /\ cx[c].conn # "unused" /\ ~cx[c].cleaned_up
        /\ Creating(th[t]) => c # s
        /\ Releasing(th[t]) => c = s
    BY <1>1, <1>2, <1>3, <1>4, CleanerIs
  <1>6. MovesTo(t, "c_lock", c, th[t].ret, th[t].k)
    BY <1>1, <1>4, <1>5, GotoIs DEF CleanupCas
  <1>7. /\ \A d \in Contexts : d # c => Res(d)' = Res(d)
        /\ cx'[c].conn = cx[c].conn /\ cx'[c].fd = cx[c].fd /\ cx'[c].cleaned_up
        /\ cx'[c].devh = cx[c].devh /\ Taken(c)' = Taken(c)
    BY <1>1, <1>4 DEF CleanupCas, ContextRec, Res, Taken
  <1>8. Turn(t, f)
    BY <1>1, <1>3, <1>5, <1>6, <1>7 DEF Owner, Turn, MovesTo
  <1>9. Duty(t, f)
    <2>1. ~(th'[t].pc \in CleanupPcs) \/ Cleans(th[t], Res(th[t].ctx))'
      BY <1>3, <1>5, <1>6, <1>7 DEF Cleans, Owner, MovesTo, Res
    <2>2. CASE Creating(th[t])
      <3>1. Creates(th[t], Res(s), g_camera_map[f], sessionsByFd[f])
        BY <1>3, <2>2 DEF Owner
      <3>2. Creates(th'[t], Res(s)', g_camera_map'[f], sessionsByFd'[f])
        BY <1>1, <1>2, <1>3, <1>4, <1>5, <1>6, <1>7, <2>2, <3>1 DEF Creates, MovesTo, CleanupPcs
      <3>3. EntryOf(f)'
        BY <1>1, <1>2, <3>1 DEF EntryOf, Entry, Creates
      <3>4. Creating(th'[t]) /\ ~Releasing(th'[t])
        BY <1>1, <1>6, <2>2 DEF Creating, Releasing, MovesTo, CleanupPcs, CreatePcs, ReleasePcs
      <3>5. QED
        BY <1>3, <1>6, <2>1, <3>2, <3>3, <3>4, CreateDuty DEF Owner, MovesTo
    <2>3. CASE Releasing(th[t])
      <3>1. Releases(th[t], Res(s), g_camera_map[f], sessionsByFd[f]) /\ c = s
        BY <1>3, <1>5, <2>3 DEF Owner
      <3>2. Releases(th'[t], Res(s)', g_camera_map'[f], sessionsByFd'[f])
        BY <1>1, <1>3, <1>4, <1>6, <1>7, <3>1 DEF Releases, MovesTo, CleanupPcs, Res, Owner
      <3>3. EntryOf(f)'
        BY <1>1, <1>3, <1>7, <3>1 DEF EntryOf, Entry, Releases, Res, Owner
      <3>4. Releasing(th'[t]) /\ ~Creating(th'[t])
        BY <1>1, <1>6, <2>3 DEF Creating, Releasing, MovesTo, CleanupPcs, CreatePcs, ReleasePcs
      <3>5. QED
        BY <1>3, <1>6, <2>1, <3>2, <3>3, <3>4, ReleaseDuty DEF Owner, MovesTo
    <2>4. QED
      BY <1>2, <2>2, <2>3, OwnerIs
  <1>10. Keeps(t) /\ Erases(t, f) /\ Publishes(f) /\ \A d \in Contexts : Evolve(d)
    <2>1. Safe(c)'
      BY <1>7 DEF Safe
    <2>2. \A d \in Contexts : cx'[d].devh = cx[d].devh /\ cx'[d].conn = cx[d].conn
      BY <1>7, ResStays
    <2>3. \A d \in Contexts : Evolve(d)
      BY <1>5, <1>7, <2>2 DEF Evolve, SInv, Orderly, HandleOpen, ConnectionOutlivesHandle
    <2>4. QED
      BY <1>1, <1>4, <1>6, <1>7, <2>1, <2>2, <2>3
      DEF Keeps, Erases, Publishes, MovesTo, Shelters
  <1>11. Apart(t)
    BY <1>1, <1>6 DEF Apart, MovesTo, CleanupCas
  <1>12. QED
    BY <1>8, <1>9, <1>10, <1>11, WorkOrderly DEF Work

\* The rest of a cleanup: only uvc_close changes what its context owns.
CleanerStep(t, c, l) ==
  /\ c = th[t].ctx /\ MovesTo(t, l, c, th[t].ret, th[t].k)
  /\ UNCHANGED <<g_camera_map, sessionsByFd>>
  /\ \A d \in Contexts : d # c => Res(d)' = Res(d)
  /\ cx'[c].conn = cx[c].conn /\ cx'[c].fd = cx[c].fd /\ cx'[c].cleaned_up = cx[c].cleaned_up
  /\ Taken(c)' = Taken(c)
  /\ \/ th[t].pc = "c_lock" /\ l = "c_stop" /\ cx'[c].devh = cx[c].devh
     \/ th[t].pc = "c_stop" /\ l = "c_null" /\ cx'[c].devh = FALSE
     \/ th[t].pc = "c_null" /\ l = th[t].ret /\ cx'[c].devh = cx[c].devh

LEMMA CleanerOrderly ==
  ASSUME SInv, NEW t \in Threads, NEW c \in Contexts, NEW l, CleanerStep(t, c, l), Apart(t)
  PROVE  Orderly'
  <1>1. th[t].pc \in CleanupPcs /\ th[t].pc # "c_cas"
    BY DEF CleanerStep, CleanupPcs
  <1>2. PICK f \in Fds, s \in Contexts : Owner(t, f, s)
    BY <1>1, OwnerIs
  <1>3. /\ cx[c].fd = f /\ cx[c].conn # "unused" /\ cx[c].cleaned_up
        /\ Creating(th[t]) => c # s
        /\ Releasing(th[t]) => c = s
    BY <1>1, <1>2, CleanerIs DEF CleanerStep
  <1>4. MovesTo(t, l, c, th[t].ret, th[t].k)
    BY DEF CleanerStep
  <1>5. Turn(t, f)
    BY <1>2, <1>3 DEF Owner, Turn, MovesTo, CleanerStep
  <1>6. Duty(t, f)
    <2>1. l \in CleanupPcs => Cleans(th[t], Res(th[t].ctx))'
      <3>1. l # "c_cas"
        BY OwnerIs, <1>1 DEF CleanerStep, Creating, Releasing, CreatePcs, ReleasePcs
      <3>2. QED
        BY <1>2, <1>3, <3>1 DEF Cleans, Owner, MovesTo, Res, CleanerStep
    <2>2. CASE Creating(th[t])
      <3>1. Creates(th[t], Res(s), g_camera_map[f], sessionsByFd[f]) /\ c # s
            /\ th[t].ret = "f_open"
        BY <1>1, <1>2, <1>3, <2>2 DEF Owner, Creating, CreatePcs, CleanupPcs
      <3>2. Res(s)' = Res(s)
        BY <3>1 DEF CleanerStep
      <3>3. l \in CleanupPcs \/ l = "f_open"
        BY <3>1 DEF CleanerStep, CleanupPcs
      <3>4. Creates(th'[t], Res(s)', g_camera_map'[f], sessionsByFd'[f])
        <4>1. th[t].pc # "f_modes" /\ th[t].pc # "k_close" /\ th[t].pc # "f_old"
          BY <1>1 DEF CleanupPcs
        <4>2. th'[t].pc = l /\ th'[t].ctx = c /\ th'[t].k = th[t].k
              /\ th'[t].fd = th[t].fd /\ th'[t].sess = th[t].sess
          BY <1>4 DEF MovesTo
        <4>3. g_camera_map' = g_camera_map /\ sessionsByFd' = sessionsByFd /\ th[t].sess = s
          BY <1>2 DEF CleanerStep, Owner
        <4>4. QED
          BY <1>1, <3>1, <3>2, <3>3, <4>1, <4>2, <4>3 DEF Creates, CleanupPcs
      <3>5. EntryOf(f)'
        BY <1>1, <3>1 DEF EntryOf, Entry, Creates, CleanerStep
      <3>6. Creating(th'[t]) /\ ~Releasing(th'[t])
        BY <1>4, <3>1, <3>3 DEF Creating, Releasing, MovesTo, CleanupPcs, CreatePcs, ReleasePcs
      <3>7. QED
        BY <1>2, <1>4, <2>1, <3>4, <3>5, <3>6, CreateDuty DEF Owner, MovesTo
    <2>3. CASE Releasing(th[t])
      <3>1. Releases(th[t], Res(s), g_camera_map[f], sessionsByFd[f]) /\ c = s
            /\ th[t].ret = "r_erase"
        BY <1>1, <1>2, <1>3, <2>3 DEF Owner, Releasing, ReleasePcs, CleanupPcs
      <3>2. l \in {"c_stop", "c_null", "r_erase"}
        BY <3>1 DEF CleanerStep
      <3>3. l # "c_stop" => ~cx'[c].devh
        <4>1. th[t].pc = "c_null" => ~cx[c].devh
          BY <3>1 DEF Releases, Res
        <4>2. QED
          BY <3>2, <4>1, <1>3 DEF CleanerStep
      <3>4. Releases(th'[t], Res(s)', g_camera_map'[f], sessionsByFd'[f])
        <4>1. th'[t].pc = l /\ th'[t].ctx = c /\ th'[t].fd = th[t].fd /\ th'[t].sess = th[t].sess
          BY <1>4 DEF MovesTo
        <4>2. /\ g_camera_map' = g_camera_map /\ sessionsByFd' = sessionsByFd /\ th[t].sess = s
              /\ cx'[c].conn = cx[c].conn /\ cx'[c].fd = cx[c].fd
              /\ cx'[c].cleaned_up = cx[c].cleaned_up /\ Taken(c)' = Taken(c)
          BY <1>2 DEF CleanerStep, Owner
        <4>3. th[t].pc # "k_remove"
          BY <1>1 DEF CleanupPcs
        <4>4. QED
          BY <1>3, <3>1, <3>2, <3>3, <4>1, <4>2, <4>3 DEF Releases, CleanupPcs, Res
      <3>5. EntryOf(f)'
        BY <1>2, <3>1 DEF EntryOf, Entry, Releases, Res, Owner, CleanerStep
      <3>6. Releasing(th'[t]) /\ ~Creating(th'[t])
        BY <1>4, <3>1, <3>2 DEF Creating, Releasing, MovesTo, CleanupPcs, CreatePcs, ReleasePcs
      <3>7. QED
        BY <1>2, <1>4, <2>1, <3>4, <3>5, <3>6, ReleaseDuty DEF Owner, MovesTo
    <2>4. QED
      BY <1>1, <2>2, <2>3, OwnerIs
  <1>7. \A d \in Contexts : cx'[d].devh => cx[d].devh
    BY ResStays DEF CleanerStep
  <1>8. \A d \in Contexts : Evolve(d)
    BY <1>3, <1>7
    DEF Evolve, CleanerStep, SInv, Orderly, HandleOpen, ConnectionOutlivesHandle
  <1>9. Keeps(t) /\ Erases(t, f) /\ Publishes(f)
    <2>1. Safe(c)'
      BY <1>3 DEF Safe, CleanerStep
    <2>2. \A d \in Contexts : cx'[d].devh /\ Shelters(th[t], d) => Shelters(th'[t], d)
      <3>1. th[t].pc = "c_lock" => l = "c_stop"
        BY DEF CleanerStep
      <3>2. th[t].pc = "c_stop" => ~cx'[c].devh
        BY DEF CleanerStep
      <3>3. QED
        BY <1>1, <1>4, <3>1, <3>2 DEF Shelters, MovesTo, CleanerStep
    <2>3. QED
      BY <1>1, <1>4, <1>7, <2>1, <2>2 DEF Keeps, Erases, Publishes, MovesTo, CleanerStep
  <1>10. QED
    BY <1>5, <1>6, <1>8, <1>9, WorkOrderly DEF Work

LEMMA CleanupRestOrderly ==
  ASSUME SInv, NEW t \in Threads, CleanupLock(t) \/ CleanupClose(t) \/ CleanupForgetBuffer(t)
  PROVE  Orderly'
  <1> USE DEF At
  <1>1. /\ ThreadsSound /\ cx \in [Contexts -> ContextRec] /\ held \in [Locks -> Holders]
        /\ th[t].pc \in {"c_lock", "c_stop", "c_null"}
    BY DEF CleanupLock, CleanupClose, CleanupForgetBuffer, SInv, IInv, Typed, ContextsTyped,
           HeldTyped
  <1>2. th[t].pc \in CleanupPcs
    BY <1>1 DEF CleanupPcs
  <1>3. PICK c \in Contexts : c = th[t].ctx
    BY <1>1, HasContext DEF DerefPcs
  <1>4. \A d : UvcMutex(c) # BufferMutex(d)
    BY DEF UvcMutex, BufferMutex
  <1>5. th[t].ret \in {"f_open", "r_erase"}
    BY <1>2, OwnerIs DEF Creating, Releasing, CreatePcs, ReleasePcs, CleanupPcs
  <1>6. CASE CleanupLock(t)
    <2>1. th[t].pc = "c_lock" /\ UNCHANGED <<g_camera_map, sessionsByFd, cb>>
      BY <1>6 DEF CleanupLock
    <2>2. MovesTo(t, "c_stop", c, th[t].ret, th[t].k)
      BY <1>1, <1>3, <1>6, GotoIs DEF CleanupLock
    <2>3. Quiet
      BY <1>3, <1>6, StopQuiet DEF CleanupLock
    <2>4. CleanerStep(t, c, "c_stop")
      BY <1>3, <2>1, <2>2, <2>3, ResStays DEF CleanerStep, Quiet
    <2>5. Apart(t)
      BY <1>3, <1>4, <1>6, <2>1, <2>2 DEF Apart, CleanupLock, MovesTo
    <2>6. QED
      BY <2>4, <2>5, CleanerOrderly
  <1>7. CASE CleanupClose(t)
    <2>1. th[t].pc = "c_stop" /\ UNCHANGED <<g_camera_map, sessionsByFd, cb>>
      BY <1>7 DEF CleanupClose
    <2>2. MovesTo(t, "c_null", c, th[t].ret, th[t].k)
      BY <1>1, <1>3, <1>7, GotoIs DEF CleanupClose
    <2>3. /\ \A d \in Contexts : d # c => Res(d)' = Res(d)
          /\ cx'[c].conn = cx[c].conn /\ cx'[c].fd = cx[c].fd
          /\ cx'[c].cleaned_up = cx[c].cleaned_up
          /\ Taken(c)' = Taken(c) /\ cx'[c].devh = FALSE
      BY <1>1, <1>3, <1>7 DEF CleanupClose, ContextRec, Res, Taken
    <2>4. CleanerStep(t, c, "c_null")
      BY <1>3, <2>1, <2>2, <2>3 DEF CleanerStep
    <2>5. Apart(t)
      BY <1>3, <1>4, <1>7, <2>1, <2>2 DEF Apart, CleanupClose, MovesTo
    <2>6. QED
      BY <2>4, <2>5, CleanerOrderly
  <1>8. CASE CleanupForgetBuffer(t)
    <2>1. th[t].pc = "c_null" /\ UNCHANGED <<g_camera_map, sessionsByFd, cb, held>>
      BY <1>8 DEF CleanupForgetBuffer
    <2>2. PICK l \in {"f_open", "r_erase"} : l = th[t].ret
      BY <1>5
    <2>3. MovesTo(t, l, c, th[t].ret, th[t].k)
      BY <1>1, <1>3, <1>8, <2>2, GotoIs DEF CleanupForgetBuffer
    <2>4. \A d \in Contexts : /\ Res(d)' = Res(d)
                              /\ cx'[d].conn = cx[d].conn /\ cx'[d].fd = cx[d].fd
                              /\ cx'[d].cleaned_up = cx[d].cleaned_up
                              /\ Taken(d)' = Taken(d) /\ cx'[d].devh = cx[d].devh
      BY <1>1, <1>3, <1>8 DEF CleanupForgetBuffer, ContextRec, Res, Taken
    <2>5. CleanerStep(t, c, l)
      BY <1>3, <2>1, <2>2, <2>3, <2>4 DEF CleanerStep
    <2>6. Apart(t)
      BY <2>1, <2>3 DEF Apart, MovesTo
    <2>7. QED
      BY <2>5, <2>6, CleanerOrderly
  <1>9. QED
    BY <1>6, <1>7, <1>8

LEMMA ReleaseEraseOrderly ==
  ASSUME SInv, NEW t \in Threads, ReleaseErase(t)
  PROVE  Orderly' /\ g_camera_map[th[t].fd] = th[t].ctx /\ UNCHANGED held
  <1> USE DEF At
  <1>1. ThreadsSound /\ MapsTyped /\ th[t].pc = "r_erase" /\ UNCHANGED <<sessionsByFd, cx, cb>>
    BY DEF ReleaseErase, SInv, IInv, Typed
  <1>2. PICK f \in Fds, s \in Contexts : Owner(t, f, s)
    BY <1>1, OwnerIs DEF ReleasePcs
  <1>3. Releases(th[t], Res(s), g_camera_map[f], sessionsByFd[f])
    BY <1>1, <1>2 DEF Owner, Releasing, ReleasePcs
  <1>4. /\ g_camera_map[f] = s /\ th[t].ctx = s /\ th[t].fd = f /\ s # None
        /\ cx[s].cleaned_up /\ ~cx[s].devh
    BY <1>1, <1>2, <1>3 DEF Releases, Owner, CleanupPcs, Res
  <1>5. UNCHANGED held /\ Found(t, None, "k_remove")
    BY <1>4 DEF ReleaseErase
  <1>6. MovesTo(t, "k_remove", None, th[t].ret, th[t].k)
    BY <1>1, <1>5, FoundIs
  <1>7. /\ g_camera_map'[f] = None
        /\ \A g \in Fds : g # f => g_camera_map'[g] = g_camera_map[g]
        /\ \A c : Res(c)' = Res(c)
    BY <1>1, <1>4 DEF ReleaseErase, MapsTyped, Res, Taken
  <1>8. Turn(t, f)
    BY <1>1, <1>2, <1>6, <1>7 DEF Owner, Turn, MovesTo
  <1>9. Duty(t, f)
    <2>1. Releases(th'[t], Res(s)', g_camera_map'[f], sessionsByFd'[f])
      BY <1>1, <1>2, <1>3, <1>6, <1>7 DEF Releases, Owner, MovesTo, CleanupPcs
    <2>2. EntryOf(f)'
      BY <1>1, <1>2, <1>3, <1>7 DEF EntryOf, Entry, Releases, Owner
    <2>3. QED
      BY <1>2, <1>6, <2>1, <2>2, ReleaseDuty
      DEF Owner, MovesTo, Releasing, Creating, CreatePcs, CleanupPcs, ReleasePcs
  <1>10. Keeps(t) /\ Erases(t, f) /\ Publishes(f) /\ \A c \in Contexts : Evolve(c)
    <2>1. Safe(s)' /\ ~cx'[s].devh
      BY <1>1, <1>4 DEF Safe
    <2>2. QED
      BY <1>1, <1>4, <1>6, <1>7, <2>1
      DEF Keeps, Erases, Publishes, Evolve, MovesTo, Shelters, Contexts, None
  <1>11. Apart(t)
    BY <1>1, <1>5, <1>6 DEF Apart, MovesTo
  <1>12. QED
    BY <1>4, <1>5, <1>8, <1>9, <1>10, <1>11, WorkOrderly DEF Work

LEMMA RemoveSessionOrderly ==
  ASSUME SInv, NEW t \in Threads, RemoveSession(t)
  PROVE  Orderly'
  <1> USE DEF At
  <1>1. /\ ThreadsSound /\ MapsTyped /\ th[t].pc = "k_remove" /\ cx \in [Contexts -> ContextRec]
        /\ UNCHANGED <<g_camera_map, held, cb>>
    BY DEF RemoveSession, SInv, IInv, Typed, ContextsTyped
  <1>2. PICK f \in Fds, s \in Contexts : Owner(t, f, s)
    BY <1>1, OwnerIs DEF ReleasePcs
  <1>3. Releases(th[t], Res(s), g_camera_map[f], sessionsByFd[f])
    BY <1>1, <1>2 DEF Owner, Releasing, ReleasePcs
  <1>4. /\ th[t].fd = f /\ th[t].sess = s /\ g_camera_map[f] = None /\ cx[s].fd = f
        /\ ~cx[s].devh /\ Taken(s) /\ sessionsByFd[f] = s
    BY <1>1, <1>2, <1>3 DEF Releases, Owner, Res
  <1>5. GoesIdle(t)
    BY <1>1, IdleIs DEF RemoveSession
  <1>6. /\ \A d \in Contexts : d # s => Res(d)' = Res(d)
        /\ cx'[s].conn = "closed" /\ cx'[s].fd = cx[s].fd
        /\ cx'[s].cleaned_up = cx[s].cleaned_up /\ cx'[s].devh = cx[s].devh
        /\ Taken(s)' = Taken(s)
    BY <1>1, <1>4 DEF RemoveSession, ContextRec, Res, Taken
  <1>7. sessionsByFd'[f] = None /\ \A g \in Fds : g # f => sessionsByFd'[g] = sessionsByFd[g]
    BY <1>1, <1>4 DEF RemoveSession, MapsTyped
  <1>8. Turn(t, f)
    BY <1>1, <1>2, <1>4, <1>5, <1>6, <1>7 DEF Owner, Turn, GoesIdle
  <1>9. Duty(t, f)
    BY <1>1, <1>4, <1>5, <1>7, RestDuty DEF EntryOf, Entry, GoesIdle
  <1>10. Keeps(t) /\ Erases(t, f) /\ Publishes(f) /\ \A c \in Contexts : Evolve(c)
    <2>1. \A c \in Contexts : cx'[c].devh = cx[c].devh
      BY <1>6, ResStays
    <2>2. QED
      BY <1>1, <1>4, <1>5, <1>6, <2>1
      DEF Keeps, Erases, Publishes, Evolve, GoesIdle, Shelters, Contexts, None
  <1>11. Apart(t)
    BY <1>1, <1>5 DEF Apart, GoesIdle
  <1>12. QED
    BY <1>8, <1>9, <1>10, <1>11, WorkOrderly DEF Work

\* What is known of a session that is being created.
LEMMA CreatorIs ==
  ASSUME SInv, NEW t \in Threads, th[t].pc \in CreatePcs
  PROVE  \E f \in Fds, s \in Contexts :
           /\ Owner(t, f, s) /\ th[t].fd = f /\ th[t].sess = s
           /\ Creates(th[t], Res(s), g_camera_map[f], sessionsByFd[f])
           /\ cx[s].fd = f /\ cx[s].conn = "open" /\ sessionsByFd[f] = None
  <1>1. Creating(th[t])
    BY DEF Creating
  <1>2. PICK f \in Fds, s \in Contexts : Owner(t, f, s)
    BY OwnerIs
  <1>3. Creates(th[t], Res(s), g_camera_map[f], sessionsByFd[f])
    BY <1>1, <1>2 DEF Owner
  <1>4. QED
    BY <1>2, <1>3 DEF Owner, Creates, Res

LEMMA FormatsEraseOldOrderly ==
  ASSUME SInv, NEW t \in Threads, FormatsEraseOld(t)
  PROVE  Orderly' /\ (~NonMjpeg => UNCHANGED g_camera_map)
  <1> USE DEF At
  <1>1. /\ ThreadsSound /\ MapsTyped /\ th[t].pc = "f_old"
        /\ UNCHANGED <<sessionsByFd, cx, held, cb>>
    BY DEF FormatsEraseOld, SInv, IInv, Typed
  <1>2. th[t].pc \in CreatePcs
    BY <1>1 DEF CreatePcs
  <1>3. PICK f \in Fds, s \in Contexts :
          /\ Owner(t, f, s) /\ th[t].fd = f /\ th[t].sess = s
          /\ Creates(th[t], Res(s), g_camera_map[f], sessionsByFd[f])
          /\ cx[s].fd = f /\ cx[s].conn = "open" /\ sessionsByFd[f] = None
    BY <1>2, CreatorIs
  <1>4. /\ g_camera_map'[f] = None
        /\ \A g \in Fds : g # f => g_camera_map'[g] = g_camera_map[g]
        /\ \A c : Res(c)' = Res(c)
    BY <1>1, <1>3 DEF FormatsEraseOld, MapsTyped, Res, Taken
  <1>5. EntryOf(f)'
    BY <1>1, <1>3, <1>4 DEF EntryOf, Entry
  <1>6. \A c \in Contexts : Evolve(c)
    BY <1>4 DEF Evolve
  <1>7. CASE g_camera_map[f] = None
    <2>1. MovesTo(t, "f_open", th[t].ctx, th[t].ret, th[t].k)
      BY <1>1, <1>3, <1>7, GotoIs DEF FormatsEraseOld
    <2>2. g_camera_map' = g_camera_map /\ Quiet
      BY <1>1, <1>3, <1>4, <1>7 DEF FormatsEraseOld, MapsTyped, Quiet
    <2>3. Turn(t, f)
      BY <1>1, <1>3, <1>4, <2>1 DEF Owner, Turn, MovesTo
    <2>4. Duty(t, f)
      <3>1. Creates(th'[t], Res(s)', g_camera_map'[f], sessionsByFd'[f])
        BY <1>1, <1>3, <1>4, <2>1 DEF Creates, MovesTo, CleanupPcs
      <3>2. QED
        BY <1>3, <1>5, <2>1, <3>1, CreateDuty
        DEF MovesTo, Releasing, Creating, CreatePcs, CleanupPcs, ReleasePcs
    <2>5. Keeps(t) /\ Erases(t, f) /\ Publishes(f)
      <3>1. ASSUME NEW c \in Contexts, th'[t].ctx = c  PROVE Safe(c)'
        <4>1. Safe(c)
          BY <1>1, <2>1, <3>1 DEF MovesTo, SInv, Orderly, CallsKeep
        <4>2. QED
          BY <1>1, <2>1, <2>2, <4>1, SafeStays DEF MovesTo
      <3>2. QED
        BY <1>1, <2>1, <2>2, <3>1 DEF Keeps, Erases, Publishes, Shelters
    <2>6. Apart(t)
      BY <1>1, <2>1 DEF Apart, MovesTo
    <2>7. QED
      BY <1>6, <2>2, <2>3, <2>4, <2>5, <2>6, WorkOrderly DEF Work
  <1>8. CASE g_camera_map[f] # None
    <2>1. PICK e \in Contexts : e = g_camera_map[f]
      BY <1>1, <1>8 DEF MapsTyped
    <2>2. NonMjpeg /\ e # s /\ cx[e].fd = f /\ ~cx[e].cleaned_up
      BY <1>1, <1>3, <1>8, <2>1 DEF Creates, Owner, Entry, Res
    <2>3. MovesTo(t, "c_cas", e, "f_open", th[t].k)
      BY <1>1, <1>3, <1>8, <2>1, CleanUpIs DEF FormatsEraseOld
    <2>4. Turn(t, f)
      BY <1>1, <1>3, <1>4, <2>3 DEF Owner, Turn, MovesTo
    <2>5. Duty(t, f)
      <3>1. Creates(th'[t], Res(s)', g_camera_map'[f], sessionsByFd'[f])
        BY <1>1, <1>3, <1>4, <2>2, <2>3 DEF Creates, MovesTo, CleanupPcs
      <3>2. Cleans(th[t], Res(th[t].ctx))'
        BY <1>1, <1>3, <2>2, <2>3 DEF Cleans, MovesTo, Res
      <3>3. QED
        BY <1>3, <1>5, <2>3, <3>1, <3>2, CreateDuty
        DEF MovesTo, Releasing, Creating, CreatePcs, CleanupPcs, ReleasePcs
    <2>6. Keeps(t) /\ Erases(t, f) /\ Publishes(f)
      <3>1. Safe(e)'
        BY <2>3 DEF Safe, BeingErased, MovesTo
      <3>2. QED
        BY <1>1, <1>4, <2>1, <2>3, <3>1
        DEF Keeps, Erases, Publishes, Shelters, MovesTo, Contexts, None
    <2>7. Apart(t)
      BY <1>1, <2>3 DEF Apart, MovesTo
    <2>8. QED
      BY <1>6, <2>2, <2>4, <2>5, <2>6, <2>7, WorkOrderly DEF Work
  <1>9. QED
    BY <1>7, <1>8

LEMMA FormatsOpenOrderly ==
  ASSUME SInv, NEW t \in Threads, FormatsOpen(t)
  PROVE  Orderly'
  <1> USE DEF At
  <1>1. /\ ThreadsSound /\ th[t].pc = "f_open" /\ cx \in [Contexts -> ContextRec]
        /\ UNCHANGED <<g_camera_map, sessionsByFd, held, cb>>
    BY DEF FormatsOpen, SInv, IInv, Typed, ContextsTyped
  <1>2. th[t].pc \in CreatePcs
    BY <1>1 DEF CreatePcs
  <1>3. PICK f \in Fds, s \in Contexts :
          /\ Owner(t, f, s) /\ th[t].fd = f /\ th[t].sess = s
          /\ Creates(th[t], Res(s), g_camera_map[f], sessionsByFd[f])
          /\ cx[s].fd = f /\ cx[s].conn = "open" /\ sessionsByFd[f] = None
    BY <1>2, CreatorIs
  <1>4. g_camera_map[f] = None
    BY <1>1, <1>3 DEF Creates
  <1>5. MovesTo(t, "f_publish", s, th[t].ret, th[t].k)
    BY <1>1, <1>3, FoundIs DEF FormatsOpen
  <1>6. /\ \A d \in Contexts : d # s => Res(d)' = Res(d)
        /\ cx'[s].conn = cx[s].conn /\ cx'[s].fd = cx[s].fd
        /\ cx'[s].cleaned_up = cx[s].cleaned_up /\ cx'[s].devh = TRUE /\ Taken(s)' = Taken(s)
    BY <1>1, <1>3 DEF FormatsOpen, ContextRec, Res, Taken
  <1>7. Turn(t, f)
    BY <1>1, <1>3, <1>5, <1>6 DEF Owner, Turn, MovesTo
  <1>8. Duty(t, f)
    <2>1. Creates(th'[t], Res(s)', g_camera_map'[f], sessionsByFd'[f])
      BY <1>1, <1>3, <1>5, <1>6 DEF Creates, MovesTo, CleanupPcs, Res
    <2>2. EntryOf(f)'
      BY <1>1, <1>3, <1>4 DEF EntryOf, Entry
    <2>3. QED
      BY <1>3, <1>5, <2>1, <2>2, CreateDuty
      DEF MovesTo, Releasing, Creating, CreatePcs, CleanupPcs, ReleasePcs
  <1>9. Keeps(t) /\ Erases(t, f) /\ Publishes(f) /\ \A c \in Contexts : Evolve(c)
    <2>1. \A c \in Contexts : c # s => cx'[c].devh = cx[c].devh
      BY <1>6, ResStays
    <2>2. QED
      BY <1>1, <1>3, <1>5, <1>6, <2>1 DEF Keeps, Erases, Publishes, Evolve, MovesTo, Shelters
  <1>10. Apart(t)
    BY <1>1, <1>5 DEF Apart, MovesTo
  <1>11. QED
    BY <1>7, <1>8, <1>9, <1>10, WorkOrderly DEF Work

LEMMA FormatsOpenFailsOrderly ==
  ASSUME SInv, NEW t \in Threads, FormatsOpenFails(t)
  PROVE  Orderly'
  <1> USE DEF At
  <1>1. /\ ThreadsSound /\ th[t].pc = "f_open" /\ cx \in [Contexts -> ContextRec]
        /\ UNCHANGED <<g_camera_map, sessionsByFd, held, cb>>
    BY DEF FormatsOpenFails, SInv, IInv, Typed, ContextsTyped
  <1>2. th[t].pc \in CreatePcs
    BY <1>1 DEF CreatePcs
  <1>3. PICK f \in Fds, s \in Contexts :
          /\ Owner(t, f, s) /\ th[t].fd = f /\ th[t].sess = s
          /\ Creates(th[t], Res(s), g_camera_map[f], sessionsByFd[f])
          /\ cx[s].fd = f /\ cx[s].conn = "open" /\ sessionsByFd[f] = None
    BY <1>2, CreatorIs
  <1>4. g_camera_map[f] = None /\ ~cx[s].devh
    BY <1>1, <1>3 DEF Creates, Res
  <1>5. MovesTo(t, "k_close", None, th[t].ret, th[t].k)
    BY <1>1, <1>3, FoundIs DEF FormatsOpenFails
  <1>6. /\ \A d \in Contexts : d # s => Res(d)' = Res(d)
        /\ cx'[s].conn = cx[s].conn /\ cx'[s].fd = cx[s].fd
        /\ cx'[s].cleaned_up = TRUE /\ cx'[s].devh = cx[s].devh /\ Taken(s)' = Taken(s)
    BY <1>1, <1>3 DEF FormatsOpenFails, ContextRec, Res, Taken
  <1>7. Turn(t, f)
    BY <1>1, <1>3, <1>5, <1>6 DEF Owner, Turn, MovesTo
  <1>8. Duty(t, f)
    <2>1. Creates(th'[t], Res(s)', g_camera_map'[f], sessionsByFd'[f])
      BY <1>1, <1>3, <1>4, <1>5, <1>6 DEF Creates, MovesTo, CleanupPcs, Res
    <2>2. EntryOf(f)'
      BY <1>1, <1>3, <1>4 DEF EntryOf, Entry
    <2>3. QED
      BY <1>3, <1>5, <2>1, <2>2, CreateDuty
      DEF MovesTo, Releasing, Creating, CreatePcs, CleanupPcs, ReleasePcs
  <1>9. Keeps(t) /\ Erases(t, f) /\ Publishes(f) /\ \A c \in Contexts : Evolve(c)
    <2>1. \A c \in Contexts : cx'[c].devh = cx[c].devh
      BY <1>6, ResStays
    <2>2. QED
      BY <1>1, <1>3, <1>5, <1>6, <2>1
      DEF Keeps, Erases, Publishes, Evolve, MovesTo, Shelters, Contexts, None
  <1>10. Apart(t)
    BY <1>1, <1>5 DEF Apart, MovesTo
  <1>11. QED
    BY <1>7, <1>8, <1>9, <1>10, WorkOrderly DEF Work

\* A context is safe on no other ground than the entry of its own number.
LEMMA FreshIsUnsafe ==
  ASSUME SInv, NEW t \in Threads, NEW f, NEW s \in Contexts, Owner(t, f, s),
         Owns(th[t]), th[t].pc # "c_cas", g_camera_map[f] # s, cx[s].fd = f, ~cx[s].cleaned_up
  PROVE  ~Safe(s)
  <1>1. ~Mapped(s)
    BY DEF Mapped, SInv, Orderly, Entries, EntryOf, Entry, Res, Contexts, None
  <1>2. ASSUME NEW u \in Threads, th[u].pc = "c_cas", th[u].ctx = s  PROVE FALSE
    <2>1. th[u].pc \in CleanupPcs
      BY <1>2 DEF CleanupPcs
    <2>2. Owns(th[u])
      BY <2>1, OwnerIs DEF Owns
    <2>3. th[u].fd = f
      BY <1>2, <2>1 DEF SInv, Orderly, Cleaning, Cleans, Res
    <2>4. QED
      BY <1>2, <2>2, <2>3 DEF Owner
  <1>3. QED
    BY <1>1, <1>2 DEF Safe, BeingErased

LEMMA FormatsPublishOrderly ==
  ASSUME SInv, NEW t \in Threads, FormatsPublish(t)
  PROVE  Orderly' /\ g_camera_map[th[t].fd] = None
  <1> USE DEF At
  <1>1. /\ ThreadsSound /\ MapsTyped /\ th[t].pc = "f_publish"
        /\ UNCHANGED <<sessionsByFd, cx, held, cb>>
    BY DEF FormatsPublish, SInv, IInv, Typed
  <1>2. th[t].pc \in CreatePcs
    BY <1>1 DEF CreatePcs
  <1>3. PICK f \in Fds, s \in Contexts :
          /\ Owner(t, f, s) /\ th[t].fd = f /\ th[t].sess = s
          /\ Creates(th[t], Res(s), g_camera_map[f], sessionsByFd[f])
          /\ cx[s].fd = f /\ cx[s].conn = "open" /\ sessionsByFd[f] = None
    BY <1>2, CreatorIs
  <1>4. g_camera_map[f] = None /\ th[t].ctx = s /\ cx[s].devh /\ ~cx[s].cleaned_up /\ s # None
    BY <1>1, <1>3 DEF Creates, Res, Owner
  <1>5. MovesTo(t, "f_modes", s, th[t].ret, th[t].k)
    BY <1>1, <1>4, GotoIs DEF FormatsPublish
  <1>6. /\ g_camera_map'[f] = s
        /\ \A g \in Fds : g # f => g_camera_map'[g] = g_camera_map[g]
        /\ \A c : Res(c)' = Res(c)
    BY <1>1, <1>3, <1>4 DEF FormatsPublish, MapsTyped, Res, Taken
  <1>7. Turn(t, f)
    BY <1>1, <1>3, <1>5, <1>6 DEF Owner, Turn, MovesTo
  <1>8. Duty(t, f)
    <2>1. Creates(th'[t], Res(s)', g_camera_map'[f], sessionsByFd'[f])
      BY <1>1, <1>3, <1>5, <1>6 DEF Creates, MovesTo, CleanupPcs
    <2>2. EntryOf(f)'
      BY <1>1, <1>3, <1>4, <1>6 DEF EntryOf, Entry, Res
    <2>3. QED
      BY <1>3, <1>5, <2>1, <2>2, CreateDuty
      DEF MovesTo, Releasing, Creating, CreatePcs, CleanupPcs, ReleasePcs
  <1>9. Publishes(f)
    <2>1. Owns(th[t])
      BY <1>2 DEF Owns, Creating
    <2>2. ~Safe(s)
      BY <1>1, <1>3, <1>4, <2>1, FreshIsUnsafe
    <2>3. QED
      BY <1>6, <2>2 DEF Publishes
  <1>10. Keeps(t) /\ Erases(t, f) /\ \A c \in Contexts : Evolve(c)
    <2>1. Safe(s)' /\ Mapped(s)'
      BY <1>3, <1>6 DEF Safe, Mapped
    <2>2. QED
      BY <1>1, <1>4, <1>5, <1>6, <2>1
      DEF Keeps, Erases, Evolve, MovesTo, Shelters, Contexts, None
  <1>11. Apart(t)
    BY <1>1, <1>5 DEF Apart, MovesTo
  <1>12. QED
    BY <1>3, <1>4, <1>7, <1>8, <1>9, <1>10, <1>11, WorkOrderly DEF Work

LEMMA FormatsModesOrderly ==
  ASSUME SInv, NEW t \in Threads, FormatsModes(t)
  PROVE  Orderly'
  <1> USE DEF At
  <1>1. /\ ThreadsSound /\ MapsTyped /\ th[t].pc = "f_modes"
        /\ UNCHANGED <<g_camera_map, cx, held, cb>>
    BY DEF FormatsModes, SInv, IInv, Typed
  <1>2. th[t].pc \in CreatePcs
    BY <1>1 DEF CreatePcs
  <1>3. PICK f \in Fds, s \in Contexts :
          /\ Owner(t, f, s) /\ th[t].fd = f /\ th[t].sess = s
          /\ Creates(th[t], Res(s), g_camera_map[f], sessionsByFd[f])
          /\ cx[s].fd = f /\ cx[s].conn = "open" /\ sessionsByFd[f] = None
    BY <1>2, CreatorIs
  <1>4. g_camera_map[f] = s /\ th[t].k = "idle" /\ ~cx[s].cleaned_up
    BY <1>1, <1>3 DEF Creates, Res
  <1>5. GoesIdle(t)
    BY <1>1, <1>4, JniIs DEF FormatsModes, JniReturn, LeavesTo, SInv, Orderly
  <1>6. /\ sessionsByFd'[f] = s
        /\ \A g \in Fds : g # f => sessionsByFd'[g] = sessionsByFd[g]
        /\ \A c : Res(c)' = Res(c)
    BY <1>1, <1>3 DEF FormatsModes, MapsTyped, Res, Taken
  <1>7. Turn(t, f)
    BY <1>1, <1>3, <1>5, <1>6 DEF Owner, Turn, GoesIdle, Contexts, None
  <1>8. Duty(t, f)
    <2>1. EntryOf(f)'
      BY <1>1, <1>3, <1>4, <1>6 DEF EntryOf, Entry, Res
    <2>2. QED
      BY <1>5, <2>1, RestDuty DEF GoesIdle
  <1>9. Keeps(t) /\ Erases(t, f) /\ Publishes(f) /\ \A c \in Contexts : Evolve(c)
    BY <1>1, <1>5, <1>6 DEF Keeps, Erases, Publishes, Evolve, GoesIdle, Shelters, Contexts, None
  <1>10. Apart(t)
    BY <1>1, <1>5 DEF Apart, GoesIdle
  <1>11. QED
    BY <1>7, <1>8, <1>9, <1>10, WorkOrderly DEF Work

LEMMA FormatsNoModesOrderly ==
  ASSUME SInv, NEW t \in Threads, FormatsNoModes(t)
  PROVE  Orderly'
  <1> USE DEF At
  <1>1. /\ ThreadsSound /\ th[t].pc = "f_modes" /\ NonMjpeg
        /\ UNCHANGED <<g_camera_map, sessionsByFd, cx, held, cb>>
    BY DEF FormatsNoModes, SInv, IInv, Typed
  <1>2. th[t].pc \in CreatePcs
    BY <1>1 DEF CreatePcs
  <1>3. PICK f \in Fds, s \in Contexts :
          /\ Owner(t, f, s) /\ th[t].fd = f /\ th[t].sess = s
          /\ Creates(th[t], Res(s), g_camera_map[f], sessionsByFd[f])
          /\ cx[s].fd = f /\ cx[s].conn = "open" /\ sessionsByFd[f] = None
    BY <1>2, CreatorIs
  <1>4. MovesTo(t, "k_close", None, th[t].ret, th[t].k)
    BY <1>1, JniIs DEF FormatsNoModes, LeavesTo, SInv, Orderly
  <1>5. \A c : Res(c)' = Res(c)
    BY <1>1 DEF Res, Taken
  <1>6. Turn(t, f)
    BY <1>1, <1>3, <1>4, <1>5 DEF Owner, Turn, MovesTo
  <1>7. Duty(t, f)
    <2>1. Creates(th'[t], Res(s)', g_camera_map'[f], sessionsByFd'[f])
      BY <1>1, <1>3, <1>4, <1>5 DEF Creates, MovesTo, CleanupPcs
    <2>2. EntryOf(f)'
      BY <1>1, <1>3, <1>5 DEF EntryOf, Owner
    <2>3. QED
      BY <1>3, <1>4, <2>1, <2>2, CreateDuty
      DEF MovesTo, Releasing, Creating, CreatePcs, CleanupPcs, ReleasePcs
  <1>8. Keeps(t) /\ Erases(t, f) /\ Publishes(f) /\ \A c \in Contexts : Evolve(c)
    BY <1>1, <1>4, <1>5 DEF Keeps, Erases, Publishes, Evolve, MovesTo, Shelters, Contexts, None
  <1>9. Apart(t)
    BY <1>1, <1>4 DEF Apart, MovesTo
  <1>10. QED
    BY <1>6, <1>7, <1>8, <1>9, WorkOrderly DEF Work

LEMMA CloseConnectionOrderly ==
  ASSUME SInv, NEW t \in Threads, CloseConnection(t)
  PROVE  Orderly'
  <1> USE DEF At
  <1>1. /\ ThreadsSound /\ MapsTyped /\ th[t].pc = "k_close" /\ cx \in [Contexts -> ContextRec]
        /\ UNCHANGED <<g_camera_map, sessionsByFd, held, cb>>
    BY DEF CloseConnection, SInv, IInv, Typed, ContextsTyped
  <1>2. th[t].pc \in CreatePcs
    BY <1>1 DEF CreatePcs
  <1>3. PICK f \in Fds, s \in Contexts :
          /\ Owner(t, f, s) /\ th[t].fd = f /\ th[t].sess = s
          /\ Creates(th[t], Res(s), g_camera_map[f], sessionsByFd[f])
          /\ cx[s].fd = f /\ cx[s].conn = "open" /\ sessionsByFd[f] = None
    BY <1>2, CreatorIs
  <1>4. ~NonMjpeg => ~cx[s].devh /\ g_camera_map[f] = None
    BY <1>1, <1>3 DEF Creates, Res
  <1>5. GoesIdle(t)
    BY <1>1, IdleIs DEF CloseConnection
  <1>6. /\ \A d \in Contexts : d # s => Res(d)' = Res(d)
        /\ cx'[s].conn = "closed" /\ cx'[s].fd = cx[s].fd
        /\ cx'[s].cleaned_up = cx[s].cleaned_up /\ cx'[s].devh = cx[s].devh
        /\ Taken(s)' = Taken(s)
    BY <1>1, <1>3 DEF CloseConnection, ContextRec, Res, Taken
  <1>7. Turn(t, f)
    BY <1>1, <1>3, <1>5, <1>6 DEF Owner, Turn, GoesIdle
  <1>8. Duty(t, f)
    <2>1. Entry(f, g_camera_map[f], Res(g_camera_map[f]), None, Res(None))
      BY <1>3 DEF Owner
    <2>2. \A c \in Contexts : g_camera_map[f] = c =>
            /\ c # None => cx[c].fd = f /\ ~cx[c].cleaned_up
            /\ cx'[c].fd = cx[c].fd /\ cx'[c].cleaned_up = cx[c].cleaned_up
            /\ ~NonMjpeg => c = None
      <3>1. \A c \in Contexts : cx'[c].fd = cx[c].fd /\ cx'[c].cleaned_up = cx[c].cleaned_up
        BY <1>6, ResStays
      <3>2. QED
        BY <1>4, <2>1, <3>1 DEF Entry, Res
    <2>3. EntryOf(f)'
      BY <1>1, <1>3, <1>4, <2>2 DEF EntryOf, Entry, MapsTyped, Res, Taken
    <2>4. QED
      BY <1>5, <2>3, RestDuty DEF GoesIdle
  <1>9. Keeps(t) /\ Erases(t, f) /\ Publishes(f) /\ \A c \in Contexts : Evolve(c)
    <2>1. \A c \in Contexts : cx'[c].devh = cx[c].devh
      BY <1>6, ResStays
    <2>2. QED
      BY <1>1, <1>4, <1>5, <1>6, <2>1
      DEF Keeps, Erases, Publishes, Evolve, GoesIdle, Shelters, Contexts, None
  <1>10. Apart(t)
    BY <1>1, <1>5 DEF Apart, GoesIdle
  <1>11. QED
    BY <1>7, <1>8, <1>9, <1>10, WorkOrderly DEF Work

\* An owner's connection is open, so that its number is not given away.
LEMMA OwnedIsOpen ==
  ASSUME SInv, NEW u \in Threads, Owns(th[u])
  PROVE  \E d \in Contexts : cx[d].conn = "open" /\ cx[d].fd = th[u].fd
  <1>1. th[u].pc \in CreatePcs \cup ReleasePcs \cup CleanupPcs
    BY DEF Owns, Creating, Releasing
  <1>2. PICK f \in Fds, s \in Contexts : Owner(u, f, s)
    BY <1>1, OwnerIs
  <1>3. cx[s].conn = "open" /\ cx[s].fd = th[u].fd
    BY <1>1, <1>2, OwnerIs DEF Owner, Creates, Releases, Res
  <1>4. QED
    BY <1>3

LEMMA OpenConnectionOrderly ==
  ASSUME SInv, NEW t \in Threads, OpenConnection(t)
  PROVE  Orderly'
  <1>1. /\ ThreadsSound /\ MapsTyped /\ cx \in [Contexts -> ContextRec]
        /\ UNCHANGED <<g_camera_map, sessionsByFd, held, cb>>
    BY DEF OpenConnection, SInv, IInv, Typed, ContextsTyped
  <1>2. PICK f \in Fds, s \in Contexts :
          /\ cx[s].conn = "unused" /\ \A d \in Contexts : cx[d].conn = "open" => cx[d].fd # f
          /\ Begin(t, "f_old", f, s, "idle")
          /\ cx' = [cx EXCEPT ![s].conn = "open", ![s].fd = f]
    BY DEF OpenConnection
  <1>3. /\ th[t].pc = "idle" /\ OthersStay(t) /\ th'[t].pc = "f_old" /\ th'[t].fd = f
        /\ th'[t].sess = s /\ th'[t].k = "idle" /\ th'[t].ctx = None
    BY <1>1, <1>2, BeginIs
  <1>4. cx[s].fd = None /\ ~cx[s].cleaned_up /\ ~cx[s].devh /\ f # None /\ s # None
    BY <1>2 DEF SInv, Orderly, Fresh, Fds, Contexts, None
  <1>5. /\ \A d \in Contexts : d # s => Res(d)' = Res(d)
        /\ cx'[s].conn = "open" /\ cx'[s].fd = f
        /\ cx'[s].cleaned_up = cx[s].cleaned_up /\ cx'[s].devh = cx[s].devh
        /\ Taken(s)' = Taken(s)
    BY <1>1, <1>2 DEF ContextRec, Res, Taken
  <1>6. EntryOf(f)
    BY DEF SInv, Orderly, Entries
  <1>7. sessionsByFd[f] = None
    BY <1>1, <1>2, <1>6 DEF EntryOf, Entry, Res, MapsTyped
  <1>8. /\ g_camera_map[f] # s
        /\ ~NonMjpeg => g_camera_map[f] = None
    BY <1>1, <1>2, <1>4, <1>6 DEF EntryOf, Entry, Res, MapsTyped
  <1>9. Turn(t, f)
    BY <1>1, <1>2, <1>3, <1>4, <1>5, OwnedIsOpen DEF Turn
  <1>10. Duty(t, f)
    <2>1. Creates(th'[t], Res(s)', g_camera_map'[f], sessionsByFd'[f])
      BY <1>1, <1>3, <1>4, <1>5, <1>7, <1>8 DEF Creates, CleanupPcs, Res
    <2>2. EntryOf(f)'
      <3>1. g_camera_map[f] # None => Res(g_camera_map[f])' = Res(g_camera_map[f])
        BY <1>1, <1>5, <1>8 DEF MapsTyped, Res, Taken
      <3>2. QED
        BY <1>1, <1>6, <1>7, <3>1 DEF EntryOf, Entry
    <2>3. QED
      BY <1>3, <2>1, <2>2, CreateDuty DEF Releasing, Creating, CreatePcs, CleanupPcs, ReleasePcs
  <1>11. Keeps(t) /\ Erases(t, f) /\ Publishes(f) /\ \A c \in Contexts : Evolve(c)
    <2>1. \A c \in Contexts : cx'[c].devh = cx[c].devh
      BY <1>5, ResStays
    <2>2. QED
      BY <1>1, <1>3, <1>4, <1>5, <2>1
      DEF Keeps, Erases, Publishes, Evolve, Shelters, Contexts, None
  <1>12. Apart(t)
    BY <1>1, <1>3 DEF Apart
  <1>13. QED
    BY <1>9, <1>10, <1>11, <1>12, WorkOrderly DEF Work

\* Thread t takes down session s, which has number f and which nobody took
\* down before.
TakesDown(t, f, s) ==
  /\ th[t].pc \in {"idle", "k_failed"}
  /\ OthersStay(t) /\ th'[t].pc = "r_lookup" /\ th'[t].fd = f /\ th'[t].sess = s
  /\ th'[t].ctx = None \/ th'[t].ctx = th[t].ctx
  /\ sessionsByFd[f] = s /\ ~Taken(s) /\ Taken(s)'
  /\ \A d \in Contexts : d # s => Res(d)' = Res(d)
  /\ cx'[s].conn = cx[s].conn /\ cx'[s].fd = cx[s].fd
  /\ cx'[s].cleaned_up = cx[s].cleaned_up /\ cx'[s].devh = cx[s].devh
  /\ UNCHANGED <<g_camera_map, sessionsByFd, held, cb>>

LEMMA TakesDownOrderly ==
  ASSUME SInv, NEW t \in Threads, NEW f \in Fds, NEW s \in Contexts, TakesDown(t, f, s)
  PROVE  Orderly'
  <1>1. /\ ThreadsSound /\ Attended /\ CallsKeep /\ f # None /\ s # None
        /\ sessionsByFd[f] = s /\ ~Taken(s) /\ Taken(s)' /\ OthersStay(t)
        /\ th[t].pc \in {"idle", "k_failed"}
        /\ UNCHANGED <<g_camera_map, sessionsByFd, held, cb>>
    BY DEF TakesDown, SInv, IInv, Typed, Orderly, Fds, Contexts, None
  <1>2. /\ g_camera_map[f] = s /\ cx[s].fd = f /\ cx[s].conn = "open" /\ ~cx[s].cleaned_up
    BY <1>1 DEF SInv, Orderly, Entries, EntryOf, Entry, Res
  <1>3. /\ th'[t].pc = "r_lookup" /\ th'[t].fd = f /\ th'[t].sess = s
        /\ \A d \in Contexts : d # s => Res(d)' = Res(d)
        /\ cx'[s].conn = cx[s].conn /\ cx'[s].fd = f
        /\ cx'[s].cleaned_up = cx[s].cleaned_up /\ cx'[s].devh = cx[s].devh
    BY <1>2 DEF TakesDown
  <1>4. ASSUME NEW u \in Threads, u # t, Owns(th[u]), th[u].fd = f  PROVE FALSE
    <2>1. Attends(th[u], Res(th[u].sess), g_camera_map[f], s)
      BY <1>1, <1>4 DEF Attended
    <2>2. ~Creating(th[u])
      BY <1>1, <2>1 DEF Attends, Creates
    <2>3. Releases(th[u], Res(th[u].sess), g_camera_map[f], s)
      BY <1>4, <2>1, <2>2 DEF Attends, Owns
    <2>4. QED
      BY <1>1, <2>3 DEF Releases, Res
  <1>5. Turn(t, f)
    BY <1>1, <1>2, <1>3, <1>4 DEF Turn
  <1>6. Duty(t, f)
    <2>1. Releases(th'[t], Res(s)', g_camera_map'[f], sessionsByFd'[f])
      BY <1>1, <1>2, <1>3 DEF Releases, CleanupPcs, Res
    <2>2. EntryOf(f)'
      BY <1>1, <1>2, <1>3 DEF EntryOf, Entry, Res
    <2>3. QED
      BY <1>3, <2>1, <2>2, ReleaseDuty DEF Releasing, Creating, CreatePcs, CleanupPcs, ReleasePcs
  <1>7. Keeps(t) /\ Erases(t, f) /\ Publishes(f) /\ \A c \in Contexts : Evolve(c)
    <2>1. \A c \in Contexts : cx'[c].devh = cx[c].devh /\ cx'[c].cleaned_up = cx[c].cleaned_up
      BY <1>2, <1>3, ResStays
    <2>2. ASSUME NEW c \in Contexts, th'[t].ctx = c  PROVE Safe(c)'
      <3>1. th[t].ctx = c
        BY <2>2 DEF TakesDown, Contexts, None
      <3>2. Safe(c)
        BY <1>1, <3>1 DEF CallsKeep
      <3>3. QED
        BY <1>1, <2>1, <3>2 DEF Safe, Mapped, BeingErased, OthersStay
    <2>3. QED
      BY <1>1, <1>2, <1>3, <2>1, <2>2 DEF Keeps, Erases, Publishes, Evolve, Shelters
  <1>8. Apart(t)
    BY <1>1, <1>3 DEF Apart
  <1>9. QED
    BY <1>5, <1>6, <1>7, <1>8, WorkOrderly DEF Work

\* No session is taken down both by releaseCamera and by a recovery.
Disjoint == \A c \in Contexts : ~(cx[c].released /\ cx[c].recovered)

LEMMA BeginReleaseOrderly ==
  ASSUME SInv, Disjoint', NEW t \in Threads, BeginRelease(t)
  PROVE  Orderly'
  <1>1. /\ ThreadsSound /\ MapsTyped /\ cx \in [Contexts -> ContextRec]
        /\ UNCHANGED <<g_camera_map, sessionsByFd, held, cb>>
    BY DEF BeginRelease, SInv, IInv, Typed, ContextsTyped
  <1>2. PICK f \in Fds :
          /\ sessionsByFd[f] # None /\ ~cx[sessionsByFd[f]].released
          /\ Begin(t, "r_lookup", f, sessionsByFd[f], "k_remove")
          /\ cx' = [cx EXCEPT ![sessionsByFd[f]].released = TRUE]
    BY DEF BeginRelease
  <1>3. PICK s \in Contexts : s = sessionsByFd[f]
    BY <1>1, <1>2 DEF MapsTyped
  <1>4. /\ th[t].pc = "idle" /\ OthersStay(t) /\ th'[t].pc = "r_lookup" /\ th'[t].fd = f
        /\ th'[t].sess = s /\ th'[t].ctx = None
    BY <1>1, <1>2, <1>3, BeginIs
  <1>5. /\ \A d \in Contexts : d # s => Res(d)' = Res(d)
        /\ cx'[s].conn = cx[s].conn /\ cx'[s].fd = cx[s].fd
        /\ cx'[s].cleaned_up = cx[s].cleaned_up /\ cx'[s].devh = cx[s].devh
        /\ cx'[s].released /\ cx'[s].recovered = cx[s].recovered
    BY <1>1, <1>2, <1>3 DEF ContextRec, Res, Taken
  <1>6. ~Taken(s) /\ Taken(s)'
    BY <1>2, <1>3, <1>5 DEF Disjoint, Taken
  <1>7. TakesDown(t, f, s)
    BY <1>1, <1>3, <1>4, <1>5, <1>6 DEF TakesDown
  <1>8. QED
    BY <1>7, TakesDownOrderly

\* The session a recovery takes down is still the one of its number: else
\* somebody else took it down.
LEMMA RecoverOrderly ==
  ASSUME SInv, Disjoint', NEW t \in Threads, Recover(t)
  PROVE  Orderly'
  <1> USE DEF At
  <1>1. /\ ThreadsSound /\ cx \in [Contexts -> ContextRec] /\ th[t].pc = "k_failed"
        /\ UNCHANGED <<g_camera_map, sessionsByFd, held, cb>>
    BY DEF Recover, SInv, IInv, Typed, ContextsTyped
  <1>2. th[t].fd \in Fds /\ th[t].sess \in Contexts
    BY <1>1, InACall
  <1>3. PICK f \in Fds, s \in Contexts : f = th[t].fd /\ s = th[t].sess
    BY <1>2
  <1>4. MovesTo(t, "r_lookup", th[t].ctx, th[t].ret, "k_remove")
    BY <1>1, CallIs DEF Recover
  <1>5. /\ \A d \in Contexts : d # s => Res(d)' = Res(d)
        /\ cx'[s].conn = cx[s].conn /\ cx'[s].fd = cx[s].fd
        /\ cx'[s].cleaned_up = cx[s].cleaned_up /\ cx'[s].devh = cx[s].devh
        /\ ~cx[s].recovered /\ cx'[s].recovered /\ cx'[s].released = cx[s].released
    BY <1>1, <1>3 DEF Recover, ContextRec, Res, Taken
  <1>6. ~Taken(s) /\ Taken(s)'
    BY <1>5 DEF Disjoint, Taken
  <1>7. sessionsByFd[f] = s
    <2>1. Serves(th[t], Res(s), sessionsByFd[f])
      BY <1>3 DEF SInv, Orderly, Attended, Attends
    <2>2. QED
      BY <1>1, <1>3, <1>6, <2>1 DEF Serves, ServePcs, Res
  <1>8. TakesDown(t, f, s)
    BY <1>1, <1>3, <1>4, <1>5, <1>6, <1>7 DEF TakesDown, MovesTo
  <1>9. QED
    BY <1>8, TakesDownOrderly

-----------------------------------------------------------------------------
(* Invariance, and the properties *)

OwnerActions(t) ==
  \/ OpenConnection(t) \/ BeginRelease(t) \/ Recover(t)
  \/ FormatsEraseOld(t) \/ FormatsOpen(t) \/ FormatsOpenFails(t) \/ FormatsPublish(t)
  \/ FormatsModes(t) \/ FormatsNoModes(t) \/ CloseConnection(t)
  \/ ReleaseLookup(t) \/ ReleaseErase(t) \/ RemoveSession(t)
  \/ CleanupCas(t) \/ CleanupLock(t) \/ CleanupClose(t) \/ CleanupForgetBuffer(t)

LEMMA OwnerOrderly ==
  ASSUME SInv, Disjoint', NEW t \in Threads, OwnerActions(t)
  PROVE  Orderly'
  BY OpenConnectionOrderly, BeginReleaseOrderly, RecoverOrderly, FormatsEraseOldOrderly,
     FormatsOpenOrderly, FormatsOpenFailsOrderly, FormatsPublishOrderly, FormatsModesOrderly,
     FormatsNoModesOrderly,
     CloseConnectionOrderly, ReleaseLookupOrderly, ReleaseEraseOrderly, RemoveSessionOrderly,
     CleanupCasOrderly, CleanupRestOrderly
  DEF OwnerActions

\* No call that returns, and no erasure, runs the destructor of a context.
LEMMA NoDestructor ==
  ASSUME SInv, NEW t \in Threads
  PROVE  ~DestructorReturns(t)
  <1>1. Attends(th[t], Res(th[t].sess), g_camera_map[th[t].fd], sessionsByFd[th[t].fd])
    BY DEF SInv, Orderly, Attended
  <1>2. th[t].pc \notin {"dtor_map", "c_drop"}
    BY <1>1 DEF Attends, Plain, PlainPcs, ServePcs, Creating, Releasing, CreatePcs, ReleasePcs,
                CleanupPcs
  <1>3. QED
    BY <1>2 DEF DestructorReturns, At

LEMMA NextActions ==
  ASSUME SInv, Next
  PROVE  \/ \E t \in Threads : PlainActions(t) \/ OwnerActions(t)
         \/ \E c \in Contexts : CallbackActions(c)
  <1>1. ASSUME NEW t \in Threads, Begins(t) \/ ThreadStep(t)
        PROVE  PlainActions(t) \/ OwnerActions(t)
    <2>1. StartFailed(t) => GiveUp(t) \/ Recover(t)
      BY DEF StartFailed, GiveUp, Recover
    <2>2. QED
      BY <1>1, <2>1, NoDestructor DEF Begins, ThreadStep, PlainActions, OwnerActions
  <1>2. QED
    BY <1>1 DEF Next, CallbackActions

LEMMA InitSInv == Init => SInv
  <1> SUFFICES ASSUME Init  PROVE SInv
    OBVIOUS
  <1>1. IInv
    BY InitIInv
  <1>2. \A t \in Threads : th[t] = IdleThread
    BY DEF Init
  <1>3. \A c \in Contexts : cx[c] = NewContext /\ cb[c] = IdleCb
    BY DEF Init
  <1>4. \A t \in Threads : th[t].pc = "idle" /\ th[t].ctx = None
    BY <1>2 DEF IdleThread
  <1>5. Attended /\ OneOwner /\ Cleaning /\ CallsKeep
    BY <1>4 DEF Attended, Attends, Serves, Plain, PlainPcs, ServePcs, OneOwner, Owns, Creating,
           Releasing, CreatePcs, ReleasePcs, CleanupPcs, Cleaning, CallsKeep, Contexts, None
  <1>6. Entries
    BY DEF Init, Entries, EntryOf, Entry
  <1>7. Fresh /\ HandleKept /\ HandleOpen
    BY <1>3 DEF Fresh, HandleKept, HandleOpen, ConnectionOutlivesHandle, NewContext
  <1>8. PreviewsKeep
    BY <1>3 DEF PreviewsKeep, IdleCb, Contexts, None
  <1>9. BufferHolders
    <2>1. \A c \in Contexts : BufferMutex(c) \in Locks
      BY DEF BufferMutex, Locks
    <2>2. QED
      BY <2>1, HoldersAssumption DEF Init, BufferHolders
  <1>10. QED
    BY <1>1, <1>5, <1>6, <1>7, <1>8, <1>9 DEF SInv, Orderly

LEMMA NextSInv ==
  ASSUME SInv, [Next]_vars, Disjoint'
  PROVE  SInv'
  <1>1. IInv'
    BY NextIInv DEF SInv
  <1>2. CASE Next
    BY <1>1, <1>2, NextActions, PlainOrderly, OwnerOrderly, CallbackOrderly DEF SInv
  <1>3. CASE UNCHANGED vars
    <2>1. Quiet /\ UNCHANGED <<th, cb, held>>
      BY <1>3, NothingChanges DEF vars
    <2>2. MostOrderly' /\ SafeStable
      BY <2>1, QuietStep
    <2>3. PreviewsKeep'
      BY <2>1, <2>2 DEF SInv, Orderly, PreviewsKeep, SafeStable
    <2>4. BufferHolders'
      BY <1>3 DEF vars, SInv, Orderly, BufferHolders, Safe, Mapped, BeingErased
    <2>5. QED
      BY <1>1, <2>2, <2>3, <2>4 DEF SInv, Orderly, MostOrderly
  <1>4. QED
    BY <1>2, <1>3

\* Who took a session down is never forgotten.
Remembered(c) ==
  /\ cx[c].released => cx'[c].released
  /\ cx[c].recovered => cx'[c].recovered
  /\ cx'[c].recovered => cx[c].recovered \/ Recovery

LEMMA FlagsLast ==
  ASSUME IInv, [Next]_vars, NEW c \in Contexts
  PROVE  Remembered(c)
  <1>1. cx \in [Contexts -> ContextRec]
    BY DEF IInv, Typed, ContextsTyped
  <1> USE <1>1 DEF ContextRec, Remembered
  <1>2. ASSUME UNCHANGED cx  PROVE Remembered(c)
    BY <1>2
  <1>3. ASSUME NEW d, StopStream(d)  PROVE Remembered(c)
    BY <1>3 DEF StopStream
  <1>4. ASSUME NEW t \in Threads, Begins(t)  PROVE Remembered(c)
    <2>1. CASE OpenConnection(t)
      <3>1. PICK f \in Fds, d \in Contexts : cx' = [cx EXCEPT ![d].conn = "open", ![d].fd = f]
        BY <2>1 DEF OpenConnection
      <3>2. QED
        BY <3>1
    <2>2. CASE BeginRelease(t)
      <3>1. PICK f \in Fds : cx' = [cx EXCEPT ![sessionsByFd[f]].released = TRUE]
        BY <2>2 DEF BeginRelease
      <3>2. QED
        BY <3>1
    <2>3. QED
      BY <1>2, <1>4, <2>1, <2>2 DEF Begins, BeginStart, BeginStop, BeginRead
  <1>5. ASSUME NEW t \in Threads, ThreadStep(t)  PROVE Remembered(c)
    <2>1. CASE FormatsOpen(t)
      BY <2>1 DEF FormatsOpen
    <2>2. CASE FormatsOpenFails(t)
      BY <2>2 DEF FormatsOpenFails
    <2>3. CASE CloseConnection(t)
      BY <2>3 DEF CloseConnection
    <2>4. CASE StartSetBuffer(t)
      BY <2>4 DEF StartSetBuffer
    <2>5. CASE StartSettle(t) \/ StopDone(t)
      BY <2>5 DEF StartSettle, StopDone
    <2>6. CASE StartStreams(t)
      BY <2>6 DEF StartStreams
    <2>7. CASE StartFailed(t)
      BY <2>7 DEF StartFailed
    <2>8. CASE RemoveSession(t)
      BY <2>8 DEF RemoveSession
    <2>9. CASE CleanupCas(t)
      BY <2>9 DEF CleanupCas
    <2>10. CASE CleanupClose(t) \/ CleanupForgetBuffer(t)
      BY <2>10 DEF CleanupClose, CleanupForgetBuffer
    <2>11. CASE StartStopOld(t) \/ StopLock(t) \/ CleanupLock(t)
      BY <1>2, <1>3, <2>11 DEF StartStopOld, StopLock, CleanupLock
    <2>12. QED
      BY <1>2, <1>5, <2>1, <2>2, <2>3, <2>4, <2>5, <2>6, <2>7, <2>8, <2>9, <2>10, <2>11
      DEF ThreadStep, FormatsEraseOld, FormatsPublish, FormatsModes, FormatsNoModes, StartLookup,
          StartAborts, StartRetry, StartFails, FirstFrame, StopLookup, ReleaseLookup, ReleaseErase,
          DestructorReturns, ReadLookup, ReadLock, ReadUnlock
  <1>6. ASSUME NEW d \in Contexts, CallbackActions(d)  PROVE Remembered(c)
    <2>1. CASE CallbackEnter(d)
      BY <2>1 DEF CallbackEnter
    <2>2. QED
      BY <1>2, <1>6, <2>1
      DEF CallbackActions, CallbackStep, CallbackDrop, CallbackCopy, CallbackCopied, CallbackJava,
          CallbackReady, PreviewLookup, PreviewLock, PreviewUnlock, CallbackReturn
  <1>7. QED
    BY <1>2, <1>4, <1>5, <1>6 DEF Next, vars, CallbackActions

LEMMA DisjointBefore ==
  ASSUME IInv, [Next]_vars, Disjoint'
  PROVE  Disjoint
  BY FlagsLast DEF Disjoint, Remembered

\* The invariant: as long as no session is taken down twice, every number has
\* at most one owner at a time, what the two maps have for it agrees with what
\* that owner is doing, and no reference that is dropped runs a destructor.
DInv == IInv /\ (Disjoint => Orderly)

LEMMA DInvHolds == Spec => []DInv
  <1>1. Init => DInv
    BY InitSInv DEF SInv, DInv
  <1>2. DInv /\ [Next]_vars => DInv'
    <2> SUFFICES ASSUME DInv, [Next]_vars  PROVE DInv'
      OBVIOUS
    <2>1. IInv'
      BY NextIInv DEF DInv
    <2>2. ASSUME Disjoint'  PROVE Orderly'
      BY <2>2, DisjointBefore, NextSInv DEF DInv, SInv
    <2>3. QED
      BY <2>1, <2>2 DEF DInv
  <1>3. QED
    BY <1>1, <1>2, PTL DEF Spec

\* Without recoveries nothing is taken down twice.
LEMMA DisjointHolds ==
  ASSUME ~Recovery
  PROVE  Spec => []Disjoint
  <1> DEFINE Unrecovered == \A c \in Contexts : ~cx[c].recovered
  <1>1. Init => Unrecovered
    BY DEF Init, NewContext
  <1>2. DInv /\ Unrecovered /\ [Next]_vars => Unrecovered'
    BY FlagsLast DEF Remembered, DInv
  <1>3. Unrecovered => Disjoint
    BY DEF Disjoint
  <1> HIDE DEF Unrecovered
  <1>4. QED
    BY <1>1, <1>2, <1>3, DInvHolds, PTL DEF Spec

\* As long as no session is taken down both by releaseCamera and by a recovery,
\* getDeviceSupportedFormats reads the modes of a camera whose handle is still
\* open, although it has published the context by then and does not hold
\* uvc_mutex: nobody can release a session that is still being created.
THEOREM ModesWhileDisjoint == Spec => [](Disjoint => ModesFromOpenHandle)
  <1>1. SInv => ModesFromOpenHandle
    <2> SUFFICES ASSUME SInv, NEW t \in Threads, th[t].pc = "f_modes"
                 PROVE  cx[th[t].ctx].devh
      BY DEF ModesFromOpenHandle, At
    <2>1. th[t].pc \in CreatePcs
      BY DEF CreatePcs
    <2>2. QED
      BY <2>1, CreatorIs DEF Creates, Res
  <1>2. DInv => (Disjoint => ModesFromOpenHandle)
    BY <1>1 DEF DInv, SInv
  <1>3. QED
    BY <1>2, DInvHolds, PTL

\* As long as no session is taken down twice, frame_callback may use its raw
\* pointer: while it runs, the map or a call holds a reference to its context,
\* and no preview drops the last one.
THEOREM CallbackWhileDisjoint == Spec => [](Disjoint => CallbackContextAlive)
  <1>1. SInv => CallbackContextAlive
    <2> SUFFICES ASSUME SInv, NEW c \in Contexts, cb[c].pc # "idle"
                 PROVE  ~LastRef(c, None) /\ cb[c].pc # "selfjoin"
      BY DEF CallbackContextAlive
    <2>1. cx[c].devh
      BY DEF SInv, IInv, CallbackInStream, StreamOnOpenHandle
    <2>2. ASSUME NEW t \in Threads, Shelters(th[t], c)  PROVE ~LastRef(c, None)
      <3>1. t # None
        BY HoldersAssumption
      <3>2. QED
        BY <2>2, <3>1 DEF Shelters, LastRef, Unshared
    <2>3. Mapped(c) => ~LastRef(c, None)
      BY DEF Mapped, LastRef
    <2>4. QED
      BY <2>1, <2>2, <2>3 DEF SInv, Orderly, HandleKept, PreviewsKeep
  <1>2. DInv => (Disjoint => CallbackContextAlive)
    BY <1>1 DEF DInv, SInv
  <1>3. QED
    BY <1>2, DInvHolds, PTL

\* libusb_wrap_sys_device: as long as no session is taken down twice, the file
\* descriptor stays open until the handle that wraps it is closed, if every
\* camera has an MJPEG mode.
THEOREM ConnectionWhileDisjoint ==
  ASSUME ~NonMjpeg
  PROVE  Spec => [](Disjoint => ConnectionOutlivesHandle)
  <1>1. DInv => (Disjoint => ConnectionOutlivesHandle)
    BY DEF DInv, Orderly, HandleOpen
  <1>2. QED
    BY <1>1, DInvHolds, PTL

\* Who changes what the map has for a number, if every camera has an MJPEG
\* mode: the release that erases it, and the call that publishes it.
LEMMA MapSteps ==
  ASSUME SInv, ~NonMjpeg, Next, NEW f \in Fds,
         g_camera_map[f] \notin {None, g_camera_map'[f]}
  PROVE  \E t \in Threads : ReleaseErase(t) /\ th[t].fd = f
  <1>1. MapsTyped
    BY DEF SInv, IInv, Typed
  <1>2. PICK t \in Threads : PlainActions(t) \/ OwnerActions(t)
    BY NextActions, CallbackQuiet DEF Quiet
  <1>3. ~PlainActions(t)
    BY PlainActionsQuiet DEF Quiet
  <1>4. ~FormatsEraseOld(t)
    BY FormatsEraseOldOrderly
  <1>5. ~FormatsPublish(t)
    BY <1>1, FormatsPublishOrderly DEF FormatsPublish, MapsTyped
  <1>6. ReleaseErase(t)
    BY <1>2, <1>3, <1>4, <1>5
    DEF OwnerActions, OpenConnection, BeginRelease, Recover, FormatsOpen, FormatsOpenFails,
        FormatsModes,
        FormatsNoModes, CloseConnection, ReleaseLookup, RemoveSession, CleanupCas, CleanupLock,
        CleanupClose, CleanupForgetBuffer
  <1>7. th[t].fd = f
    BY <1>1, <1>6 DEF ReleaseErase, MapsTyped
  <1>8. QED
    BY <1>6, <1>7

\* What ErasedUnlocked says of a step: what is erased from the map, nobody has
\* the buffer of.
Unlocks == \A f \in Fds : g_camera_map[f] \notin {None, g_camera_map'[f]} =>
             Free(BufferMutex(g_camera_map[f]))

\* As long as no session is taken down twice, releaseUVC takes a context out
\* of the map only while nobody holds its buffer, so that who locked it finds
\* it there to unlock it.
THEOREM ErasureWhileDisjoint ==
  ASSUME ~NonMjpeg
  PROVE  Spec => [][Disjoint => Unlocks]_vars
  <1>1. DInv /\ [Next]_vars => [Disjoint => Unlocks]_vars
    <2> SUFFICES ASSUME SInv, Next, NEW f \in Fds, g_camera_map[f] \notin {None, g_camera_map'[f]}
                 PROVE  Free(BufferMutex(g_camera_map[f]))
      BY DEF DInv, SInv, Unlocks
    <2>1. PICK t \in Threads : ReleaseErase(t) /\ th[t].fd = f
      BY MapSteps
    <2>2. g_camera_map[f] = th[t].ctx
      BY <2>1, ReleaseEraseOrderly
    <2>3. PICK c \in Contexts : c = g_camera_map[f]
      BY DEF SInv, IInv, Typed, MapsTyped
    <2>4. held[BufferMutex(c)] \in {Nobody, t} /\ th[t].pc = "r_erase"
      BY <2>1, <2>2, <2>3 DEF ReleaseErase, FreeFor, At
    <2>5. held[BufferMutex(c)] # t
      BY <2>3, <2>4 DEF SInv, Orderly, BufferHolders, Mapped
    <2>6. QED
      BY <2>3, <2>4, <2>5 DEF Free
  <1>2. QED
    BY <1>1, DInvHolds, PTL DEF Spec

\* The same for an app whose starts give up instead of rebuilding the session:
\* the modes are read from an open handle,
THEOREM ModesSafe ==
  ASSUME ~Recovery
  PROVE  Spec => []ModesFromOpenHandle
  BY DisjointHolds, ModesWhileDisjoint, PTL

\* the context of a callback that runs is alive,
THEOREM CallbackSafe ==
  ASSUME ~Recovery
  PROVE  Spec => []CallbackContextAlive
  BY DisjointHolds, CallbackWhileDisjoint, PTL

\* the connection outlives the handle if every camera has an MJPEG mode,
THEOREM ConnectionSafe ==
  ASSUME ~Recovery, ~NonMjpeg
  PROVE  Spec => []ConnectionOutlivesHandle
  BY DisjointHolds, ConnectionWhileDisjoint, PTL

\* and then what is erased from the map is unlocked.
THEOREM ErasureSafe ==
  ASSUME ~Recovery, ~NonMjpeg
  PROVE  Spec => ErasedUnlocked
  <1>1. ErasedUnlocked <=> [][Unlocks]_vars
    BY DEF ErasedUnlocked, Unlocks
  <1>2. QED
    BY <1>1, DisjointHolds, ErasureWhileDisjoint, PTL

=============================================================================
