------------------------- MODULE SessionServiceProofs -------------------------
(****************************************************************************)
(* For any number of devices, file descriptors and threads, and any bounds: *)
(* no session is left in a transient state; and, as long as no session is   *)
(* taken down twice, the tables and the camera indices agree and no         *)
(* connection leaks.                                                        *)
(****************************************************************************)
EXTENDS SessionService, FiniteSetTheorems, SequenceTheorems, TLAPS

USE ServiceAssumption

(****************************************************************************)
(* The inductive invariant                                                  *)
(****************************************************************************)
StartPcs  == {"starting", "unmap", "close", "reopen", "formats", "giveUp", "byIndex",
              "setStarting", "started", "failed"}
Taking    == {"unmap", "close", "reopen", "formats", "giveUp"}
Exists(s) == s \in DOMAIN session

\* What the control state of a thread says of its locals.
SoundRecord(r) ==
  /\ r.pc \in {"formats", "byFd"} => r.fd \in Fds /\ r.dev \in Devices
  /\ r.pc \in WorkerPcs \ {"idle", "formats", "byFd"} => Exists(r.s)
  /\ r.pc = "byFd" => r.s = None /\ r.s0 = None
  /\ r.pc = "formats" => (r.s = None <=> r.s0 = None)
  /\ r.pc \in ({"claim"} \cup StartPcs) \ {"formats", "byIndex"} => r.s0 # None
  /\ (r.pc = "formats" /\ r.s # None) \/ r.pc = "byIndex" => r.idx = session[r.s].idx

Sound ==
  /\ \A t \in Workers : SoundRecord(thr[t])
  /\ main.pc \in {"unmap", "close"} => Exists(main.s)
  /\ main.pc = "open" => main.dev \in Devices
  /\ Len(session) + Cardinality(Creating) <= MaxSessions

\* A table entry stands under the key of its session, and a session that is taken
\* down is not found any more.
Keyed ==
  /\ \A f \in Fds : sessionsByFd[f] # None => session[sessionsByFd[f]].fd = f
  /\ \A i \in Indices : sessionsByIndex[i] # None => session[sessionsByIndex[i]].idx = i
  /\ \A t \in Workers : thr[t].pc \in Taking \ {"unmap"} => thr[t].s \notin Registered
  /\ main.pc = "close" => main.s \notin Registered

\* A transient state has somebody who ends it.
Attended ==
  \A s \in Registered :
    /\ session[s].state = "STARTING" =>
         \E t \in Workers : /\ thr[t].pc \in StartPcs /\ thr[t].s0 # None
                            /\ s \in {thr[t].s, thr[t].s0}
    /\ session[s].state = "STOPPING" =>
         \E t \in Workers : thr[t].pc = "stopping" /\ thr[t].s = s
    /\ session[s].state = "RELEASING" => main.pc = "unmap" /\ main.s = s

\* An open descriptor belongs to one session or to one thread that creates one.
Creates(t) == thr[t].pc \in {"formats", "byFd"}

Owned ==
  /\ \A s \in DOMAIN session : session[s].open => session[s].fd \in opened
  /\ \A r, s \in DOMAIN session :
       session[r].open /\ session[s].open /\ session[r].fd = session[s].fd => r = s
  /\ \A t \in Workers : Creates(t) =>
       /\ thr[t].fd \in opened
       /\ \A s \in DOMAIN session : session[s].open => session[s].fd # thr[t].fd
       /\ \A u \in Workers : Creates(u) /\ thr[u].fd = thr[t].fd => u = t
  /\ \A f \in opened : \/ \E s \in DOMAIN session : session[s].open /\ session[s].fd = f
                       \/ \E t \in Workers : Creates(t) /\ thr[t].fd = f

\* The takers of a session.
Live(s)        == session[s].releases = 0
TakenBy(t, s)  == thr[t].s = s /\ thr[t].pc \in Taking
TakenByMain(s) == main.s = s /\ main.pc \in {"unmap", "close"}
Taken(s)       == TakenByMain(s) \/ \E t \in Workers : TakenBy(t, s)
Counts(s)      == Live(s) \/ Taken(s)
Leaving(s)     == \/ TakenByMain(s)
                  \/ \E t \in Workers : thr[t].s = s /\ thr[t].pc \in {"unmap", "close"}
Closing(s)     == \/ main.s = s /\ main.pc = "close"
                  \/ \E t \in Workers : thr[t].s = s /\ thr[t].pc = "close"

Counted ==
  \A s \in DOMAIN session : /\ Live(s) => session[s].open
                            /\ Taken(s) => ~Live(s)
                            /\ s \in Registered => Live(s) \/ Leaving(s)

\* As long as no session is taken down twice: who takes it down is alone, ...
OneTaker ==
  \A s \in DOMAIN session :
    /\ Leaving(s) => session[s].open
    /\ session[s].open => sessionsByFd[session[s].fd] = s \/ Closing(s)
    /\ \A t \in Workers : TakenBy(t, s) =>
         /\ ~TakenByMain(s)
         /\ \A u \in Workers : TakenBy(u, s) => u = t

\* ... an index has one owner, and is reserved exactly as long as it has one, ...
OneOwner ==
  /\ \A r, s \in DOMAIN session :
       Counts(r) /\ Counts(s) /\ session[r].idx = session[s].idx => r = s
  /\ \A t \in Creating :
       /\ \A s \in DOMAIN session : Counts(s) => session[s].idx # thr[t].idx
       /\ \A u \in Creating : thr[u].idx = thr[t].idx => u = t
       /\ thr[t].idx \in reservedIndices
  /\ \A s \in DOMAIN session : Counts(s) => session[s].idx \in reservedIndices
  /\ \A i \in reservedIndices : \/ \E s \in DOMAIN session : Counts(s) /\ session[s].idx = i
                                \/ \E t \in Creating : thr[t].idx = i

\* ... and it leads to its session, once createSession has got that far.
Indexed ==
  /\ \A i \in Indices : sessionsByIndex[i] # None =>
       Live(sessionsByIndex[i]) \/ Leaving(sessionsByIndex[i])
  /\ \A s \in DOMAIN session :
       Live(s) => \/ sessionsByIndex[session[s].idx] = s
                  \/ \E t \in Workers : thr[t].pc = "byIndex" /\ thr[t].s = s

Orderly == Disjoint => OneTaker /\ OneOwner /\ Indexed

IInv == TypeOK /\ Sound /\ Keyed /\ Attended /\ Owned /\ Counted /\ Orderly

(****************************************************************************)
(* What a step does to the sessions                                         *)
(****************************************************************************)
Kept ==
  /\ session' \in Seq(SessionSet) /\ Len(session') = Len(session)
  /\ DOMAIN session' = DOMAIN session
  /\ \A s \in DOMAIN session :
       /\ session'[s].fd = session[s].fd /\ session'[s].idx = session[s].idx
       /\ session'[s].releases >= session[s].releases

StatesOnly ==
  \A s \in DOMAIN session : /\ session'[s].releases = session[s].releases
                            /\ session'[s].open = session[s].open

LEMMA Shape ==
  ASSUME TypeOK
  PROVE  /\ Len(session) \in Nat /\ DOMAIN session = 1 .. Len(session)
         /\ \A s \in DOMAIN session : session[s] \in SessionSet
         /\ \A f \in Fds : sessionsByFd[f] # None => Exists(sessionsByFd[f])
         /\ \A i \in Indices : sessionsByIndex[i] # None => Exists(sessionsByIndex[i])
         /\ \A s : s \in Registered <=> s # None /\ \E f \in Fds : sessionsByFd[f] = s
         /\ None \notin DOMAIN session
         /\ IsFiniteSet(Creating) /\ Cardinality(Creating) \in Nat
  <1>1. Creating \subseteq Workers
    BY DEF Creating
  <1>2. IsFiniteSet(Creating) /\ Cardinality(Creating) \in Nat
    BY <1>1, FS_Subset, FS_CardinalityType
  <1>3. QED
    BY <1>2, ElementOfSeq DEF TypeOK, Registered, Exists, None

LEMMA Edited ==
  ASSUME TypeOK, NEW s \in DOMAIN session, NEW e \in SessionSet,
         session' = [session EXCEPT ![s] = e]
  PROVE  /\ session' \in Seq(SessionSet) /\ Len(session') = Len(session)
         /\ DOMAIN session' = DOMAIN session
         /\ \A r \in DOMAIN session : session'[r] = IF r = s THEN e ELSE session[r]
  BY Shape, ExceptSeq DEF TypeOK

LEMMA Unedited ==
  ASSUME TypeOK, UNCHANGED session
  PROVE  Kept /\ StatesOnly
  BY Shape DEF TypeOK, Kept, StatesOnly, SessionSet

LEMMA StateSet ==
  ASSUME TypeOK, NEW s \in DOMAIN session, NEW st \in States, SetState(s, st)
  PROVE  /\ Kept /\ StatesOnly
         /\ \A r \in DOMAIN session :
              session'[r].state = IF r = s THEN st ELSE session[r].state
  <1> DEFINE e == [session[s] EXCEPT !.state = st]
  <1>1. e \in SessionSet /\ session' = [session EXCEPT ![s] = e]
    BY Shape DEF SessionSet, SetState
  <1>2. /\ e.fd = session[s].fd /\ e.idx = session[s].idx /\ e.open = session[s].open
        /\ e.releases = session[s].releases /\ e.state = st
        /\ \A r \in DOMAIN session : session[r].releases \in Nat
    BY Shape DEF SessionSet
  <1> HIDE DEF e
  <1>3. /\ session' \in Seq(SessionSet) /\ Len(session') = Len(session)
        /\ DOMAIN session' = DOMAIN session
        /\ \A r \in DOMAIN session : session'[r] = IF r = s THEN e ELSE session[r]
    BY <1>1, Edited
  <1>4. QED
    BY <1>1, <1>2, <1>3 DEF Kept, StatesOnly

LEMMA CountedUp ==
  ASSUME TypeOK, NEW s \in DOMAIN session, NEW n \in Nat, n >= session[s].releases,
         session' = [session EXCEPT ![s].releases = n]
  PROVE  /\ Kept
         /\ \A r \in DOMAIN session :
              /\ session'[r].state = session[r].state /\ session'[r].open = session[r].open
              /\ session'[r].releases = IF r = s THEN n ELSE session[r].releases
  <1> DEFINE e == [session[s] EXCEPT !.releases = n]
  <1>1. e \in SessionSet /\ session' = [session EXCEPT ![s] = e]
    BY Shape DEF SessionSet
  <1>2. /\ e.fd = session[s].fd /\ e.idx = session[s].idx /\ e.open = session[s].open
        /\ e.releases = n /\ e.state = session[s].state
        /\ \A r \in DOMAIN session : session[r].releases \in Nat
    BY Shape DEF SessionSet
  <1> HIDE DEF e
  <1>3. /\ session' \in Seq(SessionSet) /\ Len(session') = Len(session)
        /\ DOMAIN session' = DOMAIN session
        /\ \A r \in DOMAIN session : session'[r] = IF r = s THEN e ELSE session[r]
    BY <1>1, Edited
  <1>4. QED
    BY <1>1, <1>2, <1>3 DEF Kept

LEMMA Closed ==
  ASSUME TypeOK, NEW s \in DOMAIN session, CloseConnection(s)
  PROVE  /\ Kept
         /\ \A r \in DOMAIN session :
              /\ session'[r].state = session[r].state
              /\ session'[r].releases = session[r].releases
              /\ session'[r].open = IF r = s THEN FALSE ELSE session[r].open
         /\ \A f : f \in opened' <=>
              f \in opened /\ ~(session[s].open /\ f = session[s].fd)
  <1> DEFINE e == [session[s] EXCEPT !.open = FALSE]
  <1>1. e \in SessionSet /\ session' = [session EXCEPT ![s] = e]
    BY Shape DEF SessionSet, CloseConnection
  <1>2. /\ e.fd = session[s].fd /\ e.idx = session[s].idx /\ e.open = FALSE
        /\ e.releases = session[s].releases /\ e.state = session[s].state
        /\ \A r \in DOMAIN session : session[r].releases \in Nat
    BY Shape DEF SessionSet
  <1> HIDE DEF e
  <1>3. /\ session' \in Seq(SessionSet) /\ Len(session') = Len(session)
        /\ DOMAIN session' = DOMAIN session
        /\ \A r \in DOMAIN session : session'[r] = IF r = s THEN e ELSE session[r]
    BY <1>1, Edited
  <1>4. QED
    BY <1>1, <1>2, <1>3 DEF Kept, CloseConnection

LEMMA Returned ==
  ASSUME TypeOK, Sound, NEW t \in Workers, thr[t].pc \in {"started", "failed"}, StartReturns(t)
  PROVE  /\ Kept /\ StatesOnly
         /\ \A s \in DOMAIN session :
              session'[s].state =
                IF s \in {thr[t].s, thr[t].s0} /\ session[s].state = "STARTING"
                THEN IF thr[t].pc = "started" /\ s = thr[t].s THEN "STREAMING" ELSE "IDLE"
                ELSE session[s].state
  <1>1. \A s \in DOMAIN session : Settled(t, s) \in SessionSet
    BY Shape DEF Settled, SessionSet, States
  <1>2. session' = [s \in 1 .. Len(session) |-> Settled(t, s)]
    BY Shape DEF StartReturns
  <1>3. session' \in Seq(SessionSet) /\ Len(session') = Len(session)
        /\ DOMAIN session' = DOMAIN session
    BY <1>1, <1>2, Shape
  <1>4. \A s \in DOMAIN session : session'[s] = Settled(t, s)
    BY <1>2, Shape
  <1>5. ASSUME NEW s \in DOMAIN session
        PROVE  /\ session'[s].fd = session[s].fd /\ session'[s].idx = session[s].idx
               /\ session'[s].releases = session[s].releases
               /\ session'[s].open = session[s].open /\ session[s].releases \in Nat
    <2>1. session[s] \in SessionSet /\ session'[s] = Settled(t, s)
      BY <1>4, Shape
    <2>2. QED
      BY <2>1 DEF Settled, SessionSet
  <1>6. QED
    BY <1>3, <1>4, <1>5, Shape DEF Kept, StatesOnly, Settled, SessionSet

(****************************************************************************)
(* A step of one thread that leaves the maps by descriptor and index alone  *)
(****************************************************************************)
Becomes(t, r) == thr' = [thr EXCEPT ![t] = r]

LEMMA Moved ==
  ASSUME TypeOK, NEW t \in Workers, NEW r \in ThreadSet, Becomes(t, r)
  PROVE  \A u \in Workers : thr'[u] = IF u = t THEN r ELSE thr[u]
  BY DEF TypeOK, Becomes

LEMMA SoundStep ==
  ASSUME TypeOK, Sound, Kept, main' = main \/ (main' \in MainSet /\ main'.pc = "idle"),
         NEW t \in Workers, NEW r \in ThreadSet, Becomes(t, r), SoundRecord(r),
         thr[t].pc # "byFd", r.pc # "byFd"
  PROVE  /\ thr' \in [Workers -> ThreadSet'] /\ main' \in MainSet'
         /\ Creating' = Creating /\ Sound'
  <1>1. \A u \in Workers : thr'[u] = IF u = t THEN r ELSE thr[u]
    BY Moved
  <1>2. Len(session') = Len(session) /\ DOMAIN session' = DOMAIN session
    BY DEF Kept
  <1>3. thr' \in [Workers -> ThreadSet'] /\ main' \in MainSet'
    BY <1>2 DEF TypeOK, Becomes, ThreadSet, MainSet
  <1>4. Creating' = Creating
    BY <1>1 DEF Creating
  <1>5. \A u \in Workers : SoundRecord(thr[u])'
    <2>1. SUFFICES ASSUME NEW u \in Workers, NEW q, q = thr'[u], SoundRecord(q)
                   PROVE  SoundRecord(thr[u])'
      BY <1>1 DEF Sound
    <2>2. Exists(q.s) => session'[q.s].idx = session[q.s].idx
      BY DEF Kept, Exists
    <2>3. q.pc \in WorkerPcs /\ q.s \in 0 .. Len(session)
      BY <1>1, <2>1 DEF TypeOK, ThreadSet
    <2>4. q.s # None => Exists(q.s)
      BY <2>3, Shape DEF Exists, None
    <2>5. QED
      BY <1>2, <2>1, <2>2, <2>3, <2>4 DEF SoundRecord, Exists, WorkerPcs
  <1>6. Sound'
    BY <1>2, <1>4, <1>5 DEF Sound, Exists
  <1>7. QED
    BY <1>3, <1>4, <1>6

LEMMA WorkerStep ==
  ASSUME TypeOK, Sound, Keyed, Kept, UNCHANGED <<sessionsByFd, sessionsByIndex>>,
         main' = main \/ (main' \in MainSet /\ main'.pc = "idle"),
         NEW t \in Workers, NEW r \in ThreadSet, Becomes(t, r), SoundRecord(r),
         thr[t].pc # "byFd", r.pc # "byFd",
         r.pc \in Taking \ {"unmap"} => r.s \notin Registered
  PROVE  /\ thr' \in [Workers -> ThreadSet'] /\ main' \in MainSet'
         /\ sessionsByFd' \in [Fds -> 0 .. Len(session')]
         /\ sessionsByIndex' \in [Indices -> 0 .. Len(session')]
         /\ Creating' = Creating /\ Sound' /\ Keyed'
  <1>1. \A u \in Workers : thr'[u] = IF u = t THEN r ELSE thr[u]
    BY Moved
  <1>2. /\ thr' \in [Workers -> ThreadSet'] /\ main' \in MainSet'
        /\ Creating' = Creating /\ Sound'
    BY SoundStep
  <1>3. /\ sessionsByFd' \in [Fds -> 0 .. Len(session')]
        /\ sessionsByIndex' \in [Indices -> 0 .. Len(session')]
    BY DEF TypeOK, Kept
  <1>4. Registered' = Registered
    BY DEF Registered
  <1>5. Keyed'
    BY <1>1, <1>4, Shape DEF Keyed, Kept, Exists
  <1>6. QED
    BY <1>2, <1>3, <1>5

\* The states of the sessions stay, and so does who attends to them.
LEMMA AttendedStep ==
  ASSUME TypeOK, Attended, NEW t \in Workers, NEW r \in ThreadSet, Becomes(t, r),
         main.pc = "unmap" => UNCHANGED main, Registered' \subseteq Registered,
         \A s \in Registered : session'[s].state = session[s].state,
         thr[t].pc \in StartPcs /\ thr[t].s0 # None
           => r.pc \in StartPcs /\ r.s = thr[t].s /\ r.s0 = thr[t].s0,
         thr[t].pc # "stopping"
  PROVE  Attended'
  <1>1. \A u \in Workers : thr'[u] = IF u = t THEN r ELSE thr[u]
    BY Moved
  <1>2. SUFFICES ASSUME NEW s \in Registered' PROVE
          /\ session[s].state = "STARTING" =>
               \E u \in Workers : /\ thr'[u].pc \in StartPcs /\ thr'[u].s0 # None
                                  /\ s \in {thr'[u].s, thr'[u].s0}
          /\ session[s].state = "STOPPING" =>
               \E u \in Workers : thr'[u].pc = "stopping" /\ thr'[u].s = s
          /\ session[s].state = "RELEASING" => main'.pc = "unmap" /\ main'.s = s
    BY DEF Attended
  <1>3. CASE session[s].state = "STARTING"
    <2>1. PICK u \in Workers : /\ thr[u].pc \in StartPcs /\ thr[u].s0 # None
                               /\ s \in {thr[u].s, thr[u].s0}
      BY <1>3 DEF Attended
    <2>2. QED
      BY <1>1, <1>3, <2>1
  <1>4. CASE session[s].state = "STOPPING"
    <2>1. PICK u \in Workers : thr[u].pc = "stopping" /\ thr[u].s = s
      BY <1>4 DEF Attended
    <2>2. QED
      BY <1>1, <1>4, <2>1
  <1>5. QED
    BY <1>3, <1>4 DEF Attended

(****************************************************************************)
(* A step that neither opens nor closes, takes or gives up anything         *)
(****************************************************************************)
LEMMA SameOrder ==
  ASSUME TypeOK, Counted, Orderly, Kept, StatesOnly,
         UNCHANGED <<sessionsByFd, sessionsByIndex, reservedIndices>>,
         Creating' = Creating, \A t \in Creating : thr'[t].idx = thr[t].idx,
         \A s \in DOMAIN session :
           /\ TakenByMain(s)' <=> TakenByMain(s)
           /\ Leaving(s)' <=> Leaving(s)
           /\ Closing(s)' <=> Closing(s)
           /\ \A t \in Workers : TakenBy(t, s)' <=> TakenBy(t, s)
           /\ \A t \in Workers : thr'[t].pc = "byIndex" /\ thr'[t].s = s
                                <=> thr[t].pc = "byIndex" /\ thr[t].s = s
  PROVE  Counted' /\ Orderly'
  <1>1. DOMAIN session' = DOMAIN session
    BY DEF Kept
  <1>2. \A s \in DOMAIN session :
          /\ Taken(s)' <=> Taken(s)
          /\ Live(s)' <=> Live(s)
          /\ session'[s].fd = session[s].fd /\ session'[s].idx = session[s].idx
          /\ session'[s].open = session[s].open
    BY DEF Taken, Live, Kept, StatesOnly
  <1>3. Counted'
    BY <1>1, <1>2 DEF Counted, Registered
  <1>4. Disjoint' => Disjoint
    BY <1>1 DEF Disjoint, StatesOnly
  <1>5. OneTaker => OneTaker'
    BY <1>1, <1>2 DEF OneTaker
  <1>6. \A s \in DOMAIN session : Counts(s)' <=> Counts(s)
    BY <1>2 DEF Counts
  <1>7. OneOwner => OneOwner'
    BY <1>1, <1>2, <1>6 DEF OneOwner
  <1>8. Indexed => Indexed'
    BY <1>1, <1>2, Shape DEF Indexed, Exists
  <1>9. QED
    BY <1>3, <1>4, <1>5, <1>7, <1>8 DEF Orderly

\* Who takes a session down stays the same.
LEMMA SameTakers ==
  ASSUME TypeOK, NEW t \in Workers, NEW r \in ThreadSet, Becomes(t, r),
         \/ main' = main
         \/ main.pc \notin {"unmap", "close"} /\ main'.pc \notin {"unmap", "close"},
         LET Keeps(q) == q.s # None /\ q.pc \in Taking \cup {"byIndex"} IN
         Keeps(thr[t]) \/ Keeps(r) =>
           /\ r.s = thr[t].s
           /\ r.pc \in {"reopen", "formats", "giveUp"} /\ thr[t].pc \in {"reopen", "formats", "giveUp"},
         NEW s \in DOMAIN session
  PROVE  /\ TakenByMain(s)' <=> TakenByMain(s)
         /\ Leaving(s)' <=> Leaving(s)
         /\ Closing(s)' <=> Closing(s)
         /\ Taken(s)' <=> Taken(s)
         /\ \A u \in Workers : TakenBy(u, s)' <=> TakenBy(u, s)
         /\ \A u \in Workers : thr'[u].pc = "byIndex" /\ thr'[u].s = s
                              <=> thr[u].pc = "byIndex" /\ thr[u].s = s
  <1>1. \A u \in Workers : thr'[u] = IF u = t THEN r ELSE thr[u]
    BY Moved
  <1>2. s # None
    BY Shape
  <1>3. ASSUME NEW u \in Workers
        PROVE  /\ TakenBy(u, s)' <=> TakenBy(u, s)
               /\ \A pc \in {"byIndex", "close", "unmap"} :
                    thr'[u].pc = pc /\ thr'[u].s = s <=> thr[u].pc = pc /\ thr[u].s = s
    BY <1>1, <1>2 DEF TakenBy, Taking
  <1>4. /\ TakenByMain(s)' <=> TakenByMain(s)
        /\ main'.s = s /\ main'.pc = "close" <=> main.s = s /\ main.pc = "close"
    BY DEF TakenByMain
  <1>5. QED
    BY <1>3, <1>4 DEF Leaving, Closing, Taken

LEMMA Undisturbed ==
  ASSUME TypeOK, Owned, Counted, Orderly, Kept, StatesOnly,
         UNCHANGED <<opened, sessionsByFd, sessionsByIndex, reservedIndices>>,
         main'.pc \in {"unmap", "close"} <=> main.pc \in {"unmap", "close"},
         main.pc \in {"unmap", "close"} => main'.s = main.s /\ main'.pc = main.pc,
         \A t \in Workers :
           /\ thr'[t].pc \in Taking \cup {"byFd", "byIndex"}
              <=> thr[t].pc \in Taking \cup {"byFd", "byIndex"}
           /\ thr[t].pc \in Taking \cup {"byFd", "byIndex"} =>
                /\ thr'[t].s = thr[t].s /\ thr'[t].fd = thr[t].fd /\ thr'[t].idx = thr[t].idx
                /\ thr'[t].pc = thr[t].pc \/ (thr[t].pc = "reopen" /\ thr'[t].pc = "giveUp")
  PROVE  Owned' /\ Counted' /\ Orderly'
  <1>1. /\ \A t \in Workers : Creates(t)' <=> Creates(t)
        /\ \A t \in Workers : Creates(t) => thr'[t].fd = thr[t].fd
        /\ Creating' = Creating
        /\ \A t \in Creating : thr'[t].idx = thr[t].idx
    BY DEF Creates, Creating, Taking
  <1>2. \A s : /\ TakenByMain(s)' <=> TakenByMain(s)
               /\ \A t \in Workers : TakenBy(t, s)' <=> TakenBy(t, s)
               /\ \A t \in Workers : thr'[t].pc = "byIndex" /\ thr'[t].s = s
                                    <=> thr[t].pc = "byIndex" /\ thr[t].s = s
               /\ \A t \in Workers : thr'[t].pc = "close" /\ thr'[t].s = s
                                    <=> thr[t].pc = "close" /\ thr[t].s = s
               /\ \A t \in Workers : thr'[t].pc = "unmap" /\ thr'[t].s = s
                                    <=> thr[t].pc = "unmap" /\ thr[t].s = s
    BY DEF TakenByMain, TakenBy, Taking
  <1>3. ASSUME NEW s PROVE (Leaving(s)' <=> Leaving(s)) /\ (Closing(s)' <=> Closing(s))
    <2>1. main'.s = s /\ main'.pc = "close" <=> main.s = s /\ main.pc = "close"
      OBVIOUS
    <2>2. \A t \in Workers : thr'[t].s = s /\ thr'[t].pc = "close" <=> thr[t].s = s /\ thr[t].pc = "close"
      BY <1>2
    <2>3. \A t \in Workers : thr'[t].s = s /\ thr'[t].pc = "unmap" <=> thr[t].s = s /\ thr[t].pc = "unmap"
      BY <1>2
    <2>4. Closing(s)' <=> Closing(s)
      BY <2>1, <2>2 DEF Closing
    <2>5. Leaving(s)' <=> Leaving(s)
      BY <1>2, <2>2, <2>3 DEF Leaving
    <2>6. QED
      BY <2>4, <2>5
  <1>4. Owned'
    BY <1>1 DEF Owned, Kept, StatesOnly
  <1>5. QED
    BY <1>1, <1>2, <1>3, <1>4, SameOrder

QuietPcs == {"idle", "claim", "starting", "setStarting", "started", "failed",
             "stopMark", "stopping"}

LEMMA QuietStep ==
  ASSUME IInv, Kept, StatesOnly,
         UNCHANGED <<bus, opened, sessionsByFd, sessionsByIndex, reservedIndices,
                     initializingDevices, main, todo>>,
         userCalls' \in 0 .. MaxUserCalls,
         NEW t \in Workers, NEW r \in ThreadSet, Becomes(t, r), SoundRecord(r),
         \/ thr[t].pc \in QuietPcs /\ r.pc \in QuietPcs
         \/ thr[t].pc = "reopen" /\ r = [thr[t] EXCEPT !.pc = "giveUp"]
  PROVE  TypeOK' /\ Sound' /\ Keyed' /\ Owned' /\ Counted' /\ Orderly'
  <1>1. thr[t] \in ThreadSet
    BY DEF IInv, TypeOK
  <1>2. /\ thr[t].pc # "byFd" /\ r.pc # "byFd"
        /\ r.pc \in Taking \cup {"byFd", "byIndex"}
           <=> thr[t].pc \in Taking \cup {"byFd", "byIndex"}
        /\ thr[t].pc \in Taking \cup {"byFd", "byIndex"} =>
             /\ r.s = thr[t].s /\ r.fd = thr[t].fd /\ r.idx = thr[t].idx
             /\ r.pc = "giveUp" /\ thr[t].pc = "reopen"
    BY <1>1 DEF QuietPcs, Taking, ThreadSet
  <1>3. r.pc \in Taking \ {"unmap"} => r.s \notin Registered
    BY <1>2 DEF Taking, IInv, Keyed
  <1>4. /\ thr' \in [Workers -> ThreadSet'] /\ main' \in MainSet'
        /\ sessionsByFd' \in [Fds -> 0 .. Len(session')]
        /\ sessionsByIndex' \in [Indices -> 0 .. Len(session')]
        /\ Sound' /\ Keyed'
    BY <1>2, <1>3, WorkerStep DEF IInv
  <1>5. TypeOK'
    BY <1>4 DEF IInv, TypeOK, Kept, bus
  <1>6. \A u \in Workers : thr'[u] = IF u = t THEN r ELSE thr[u]
    BY Moved DEF IInv
  <1>7. Owned' /\ Counted' /\ Orderly'
    BY <1>2, <1>6, Undisturbed DEF IInv
  <1>8. QED
    BY <1>4, <1>5, <1>7

\* startStreaming and stopStreaming up to the look at the state, and the steps of a
\* start that leave the sessions alone.
LEMMA LooksOnly ==
  ASSUME IInv, NEW t \in Workers,
         \/ \E f \in Fds : StartStreaming(t, f) \/ StopStreaming(t, f)
         \/ NothingToStart(t) \/ NothingToStop(t) \/ AttemptSucceeds(t) \/ ReopenFails(t)
  PROVE  IInv'
  <1> USE DEF IInv
  <1>1. thr[t] \in ThreadSet /\ SoundRecord(thr[t])
    BY DEF TypeOK, Sound
  <1>2. Kept /\ StatesOnly
    BY Unedited DEF StartStreaming, StopStreaming, NothingToStart, NothingToStop,
                    AttemptSucceeds, ReopenFails, tables
  <1>3. \A s : s \in Registered => Exists(s) /\ s \in 0 .. Len(session)
    BY Shape DEF Exists
  <1>4. ASSUME NEW r \in ThreadSet, Becomes(t, r), SoundRecord(r),
               UNCHANGED <<bus, opened, tables, initializingDevices, main, todo>>,
               userCalls' \in 0 .. MaxUserCalls,
               \/ thr[t].pc \in QuietPcs \ {"stopping"} /\ r.pc \in QuietPcs
               \/ thr[t].pc = "reopen" /\ r = [thr[t] EXCEPT !.pc = "giveUp"],
               thr[t].pc \in StartPcs => r.pc \in StartPcs /\ r.s = thr[t].s /\ r.s0 = thr[t].s0
        PROVE  IInv'
    <2>1. TypeOK' /\ Sound' /\ Keyed' /\ Owned' /\ Counted' /\ Orderly'
      BY <1>2, <1>4, QuietStep DEF QuietPcs, tables
    <2>2. Attended'
      BY <1>4, AttendedStep DEF Registered, tables, QuietPcs
    <2>3. QED
      BY <2>1, <2>2
  <1>7. Idle \in ThreadSet /\ SoundRecord(Idle) /\ Idle.pc = "idle"
    BY Shape DEF ThreadSet, SoundRecord, Idle, WorkerPcs, StartPcs, Indices, None, NoFd
  <1>c. 1 \in 0 .. MaxAttempts /\ (userCalls < MaxUserCalls => userCalls + 1 \in 0 .. MaxUserCalls)
    BY DEF TypeOK
  <1>5. ASSUME NEW f \in Fds, StartStreaming(t, f)
        PROVE  IInv'
    <2> DEFINE r == [Idle EXCEPT !.pc = "claim", !.s = sessionsByFd[f],
                                 !.s0 = sessionsByFd[f], !.n = 1]
    <2>1. sessionsByFd[f] \in Registered
      BY <1>5 DEF StartStreaming, Registered
    <2>2. r \in ThreadSet /\ r.pc = "claim" /\ r.s = sessionsByFd[f] /\ r.s0 = sessionsByFd[f]
      BY <2>1, <1>3, <1>7, <1>c DEF ThreadSet, WorkerPcs
    <2>3. Becomes(t, r)
      BY <1>5 DEF StartStreaming, Becomes
    <2> HIDE DEF r
    <2>4. SoundRecord(r)
      BY <2>1, <2>2, <1>3, Shape DEF SoundRecord, WorkerPcs, StartPcs
    <2>5. QED
      BY <1>4, <1>5, <1>c, <2>2, <2>3, <2>4 DEF StartStreaming, QuietPcs, StartPcs
  <1>6. ASSUME NEW f \in Fds, StopStreaming(t, f)
        PROVE  IInv'
    <2> DEFINE r == [Idle EXCEPT !.pc = "stopMark", !.s = sessionsByFd[f],
                                 !.s0 = sessionsByFd[f]]
    <2>1. sessionsByFd[f] \in Registered
      BY <1>6 DEF StopStreaming, Registered
    <2>2. r \in ThreadSet /\ r.pc = "stopMark" /\ r.s = sessionsByFd[f] /\ r.s0 = sessionsByFd[f]
      BY <2>1, <1>3, <1>7, <1>c DEF ThreadSet, WorkerPcs
    <2>3. Becomes(t, r)
      BY <1>6 DEF StopStreaming, Becomes
    <2> HIDE DEF r
    <2>4. SoundRecord(r)
      BY <2>1, <2>2, <1>3, Shape DEF SoundRecord, WorkerPcs, StartPcs
    <2>5. QED
      BY <1>4, <1>6, <1>c, <2>2, <2>3, <2>4 DEF StopStreaming, QuietPcs, StartPcs
  <1>8. CASE NothingToStart(t) \/ NothingToStop(t)
    BY <1>4, <1>7, <1>8 DEF NothingToStart, NothingToStop, Becomes, QuietPcs, StartPcs, TypeOK
  <1>9. CASE AttemptSucceeds(t)
    <2> DEFINE r == [thr[t] EXCEPT !.pc = "started"]
    <2>1. r \in ThreadSet /\ SoundRecord(r) /\ r.pc = "started" /\ r.s = thr[t].s /\ r.s0 = thr[t].s0
      BY <1>1, <1>9 DEF ThreadSet, SoundRecord, WorkerPcs, StartPcs, AttemptSucceeds
    <2>2. Becomes(t, r)
      BY <1>9 DEF AttemptSucceeds, Step, Becomes
    <2> HIDE DEF r
    <2>3. QED
      BY <1>4, <1>9, <2>1, <2>2 DEF AttemptSucceeds, QuietPcs, StartPcs, TypeOK
  <1>10. CASE ReopenFails(t)
    <2> DEFINE r == [thr[t] EXCEPT !.pc = "giveUp"]
    <2>1. r \in ThreadSet /\ SoundRecord(r) /\ r.pc = "giveUp" /\ r.s = thr[t].s /\ r.s0 = thr[t].s0
      BY <1>1, <1>10 DEF ThreadSet, SoundRecord, WorkerPcs, StartPcs, ReopenFails
    <2>2. Becomes(t, r)
      BY <1>10 DEF ReopenFails, Step, Becomes
    <2>3. QED
      BY <1>4, <1>10, <2>1, <2>2 DEF ReopenFails, QuietPcs, StartPcs, TypeOK
  <1>11. QED
    BY <1>5, <1>6, <1>8, <1>9, <1>10

\* The steps that change the state of a session.
LEMMA ChangesState ==
  ASSUME IInv, NEW t \in Workers,
         \/ ClaimStart(t) \/ MarkStopping(t) \/ ReplacementStarts(t)
         \/ StartReturns(t) \/ StopReturns(t)
  PROVE  IInv'
  <1> USE DEF IInv
  <1>1. thr[t] \in ThreadSet /\ SoundRecord(thr[t])
    BY DEF TypeOK, Sound
  <1>2. thr[t].pc # "idle" => thr[t].s \in DOMAIN session \/ thr[t].pc \in {"formats", "byFd"}
    BY <1>1 DEF SoundRecord, ThreadSet, Exists
  <1>3. /\ Registered \subseteq DOMAIN session /\ userCalls \in 0 .. MaxUserCalls
        /\ Idle \in ThreadSet /\ SoundRecord(Idle) /\ Idle.pc = "idle"
    <2>1. Idle \in ThreadSet /\ SoundRecord(Idle) /\ Idle.pc = "idle"
      BY Shape DEF ThreadSet, SoundRecord, Idle, WorkerPcs, StartPcs, Indices, None, NoFd
    <2>2. QED
      BY <2>1, Shape DEF Exists, TypeOK
  <1>4. ASSUME NEW r \in ThreadSet, Becomes(t, r), SoundRecord(r), Kept, StatesOnly,
               UNCHANGED <<bus, opened, sessionsByFd, sessionsByIndex, reservedIndices,
                           initializingDevices, main, todo, userCalls>>,
               thr[t].pc \in QuietPcs, r.pc \in QuietPcs, Attended'
        PROVE  IInv'
    <2>1. TypeOK' /\ Sound' /\ Keyed' /\ Owned' /\ Counted' /\ Orderly'
      BY <1>3, <1>4, QuietStep
    <2>2. QED
      BY <1>4, <2>1
  \* A thread takes its session to a state to which it attends itself.
  <1>5. ASSUME NEW r \in ThreadSet, Becomes(t, r), NEW st \in {"STARTING", "STOPPING"},
               SetState(thr[t].s, st), thr[t].s \in DOMAIN session,
               UNCHANGED <<sessionsByFd, main>>,
               st = "STARTING" => r.pc \in StartPcs /\ r.s0 # None /\ r.s = thr[t].s,
               st = "STOPPING" => r.pc = "stopping" /\ r.s = thr[t].s,
               thr[t].pc \in StartPcs => r.pc \in StartPcs /\ r.s = thr[t].s /\ r.s0 = thr[t].s0,
               thr[t].pc # "stopping"
        PROVE  Kept /\ StatesOnly /\ Attended'
    <2>1. st \in States
      BY DEF States
    <2>2. /\ Kept /\ StatesOnly
          /\ \A s \in DOMAIN session :
               session'[s].state = IF s = thr[t].s THEN st ELSE session[s].state
      BY <1>5, <2>1, StateSet
    <2>3. \A u \in Workers : thr'[u] = IF u = t THEN r ELSE thr[u]
      BY <1>5, Moved
    <2>4. Registered' = Registered
      BY <1>5 DEF Registered
    <2>5. SUFFICES ASSUME NEW s \in Registered PROVE
          /\ session'[s].state = "STARTING" =>
               \E u \in Workers : /\ thr'[u].pc \in StartPcs /\ thr'[u].s0 # None
                                  /\ s \in {thr'[u].s, thr'[u].s0}
          /\ session'[s].state = "STOPPING" =>
               \E u \in Workers : thr'[u].pc = "stopping" /\ thr'[u].s = s
          /\ session'[s].state = "RELEASING" => main'.pc = "unmap" /\ main'.s = s
      BY <2>2, <2>4 DEF Attended
    <2>6. CASE s = thr[t].s
      BY <1>3, <1>5, <2>2, <2>3, <2>6
    <2>7. CASE s # thr[t].s /\ session[s].state = "STARTING"
      <3>1. PICK u \in Workers : /\ thr[u].pc \in StartPcs /\ thr[u].s0 # None
                                 /\ s \in {thr[u].s, thr[u].s0}
        BY <2>7 DEF Attended
      <3>2. QED
        BY <1>3, <1>5, <2>2, <2>3, <2>7, <3>1
    <2>8. CASE s # thr[t].s /\ session[s].state # "STARTING"
      BY <1>3, <1>5, <2>2, <2>3, <2>8 DEF Attended
    <2>9. QED
      BY <2>6, <2>7, <2>8
  <1>6. CASE ClaimStart(t)
    <2> DEFINE r == [thr[t] EXCEPT !.pc = "starting"]
    <2>1. r \in ThreadSet /\ r.pc = "starting" /\ r.s = thr[t].s /\ r.s0 = thr[t].s0
      BY <1>1 DEF ThreadSet, WorkerPcs
    <2>2. Becomes(t, r) /\ thr[t].pc = "claim"
      BY <1>6 DEF ClaimStart, Step, Becomes
    <2>3. r.s0 # None /\ thr[t].s \in DOMAIN session
      BY <1>1, <1>2, <2>1, <2>2 DEF SoundRecord
    <2> HIDE DEF r
    <2>4. SoundRecord(r)
      BY <2>1, <2>3 DEF SoundRecord, StartPcs, Exists
    <2>5. Kept /\ StatesOnly /\ Attended'
      BY <1>5, <1>6, <2>1, <2>2, <2>3 DEF ClaimStart, StartPcs
    <2>6. QED
      BY <1>4, <1>6, <2>1, <2>2, <2>4, <2>5 DEF ClaimStart, QuietPcs
  <1>7. CASE MarkStopping(t)
    <2> DEFINE r == [thr[t] EXCEPT !.pc = "stopping"]
    <2>1. r \in ThreadSet /\ r.pc = "stopping" /\ r.s = thr[t].s /\ r.s0 = thr[t].s0
      BY <1>1 DEF ThreadSet, WorkerPcs
    <2>2. Becomes(t, r) /\ thr[t].pc = "stopMark"
      BY <1>7 DEF MarkStopping, Step, Becomes
    <2>3. thr[t].s \in DOMAIN session
      BY <1>1, <1>2, <2>1, <2>2
    <2> HIDE DEF r
    <2>4. SoundRecord(r)
      BY <2>1, <2>3 DEF SoundRecord, StartPcs, Exists
    <2>5. Kept /\ StatesOnly /\ Attended'
      BY <1>5, <1>7, <2>1, <2>2, <2>3 DEF MarkStopping, StartPcs
    <2>6. QED
      BY <1>4, <1>7, <2>1, <2>2, <2>4, <2>5 DEF MarkStopping, QuietPcs
  <1>8. CASE ReplacementStarts(t)
    <2> DEFINE r == [Idle EXCEPT !.pc = "starting", !.s = thr[t].s,
                                 !.s0 = thr[t].s0, !.n = thr[t].n]
    <2>1. thr[t].s \in 0 .. Len(session) /\ thr[t].s0 \in 0 .. Len(session)
          /\ thr[t].n \in 0 .. MaxAttempts
      BY <1>1 DEF ThreadSet
    <2>2. r \in ThreadSet /\ r.pc = "starting" /\ r.s = thr[t].s /\ r.s0 = thr[t].s0
      BY <1>3, <2>1 DEF ThreadSet, WorkerPcs
    <2>3. Becomes(t, r) /\ thr[t].pc = "setStarting"
      BY <1>8 DEF ReplacementStarts, Becomes
    <2>4. r.s0 # None /\ thr[t].s \in DOMAIN session
      BY <1>1, <1>2, <2>2, <2>3 DEF SoundRecord, StartPcs
    <2> HIDE DEF r
    <2>5. SoundRecord(r)
      BY <2>2, <2>4 DEF SoundRecord, StartPcs, Exists
    <2>6. Kept /\ StatesOnly /\ Attended'
      BY <1>5, <1>8, <2>2, <2>3, <2>4 DEF ReplacementStarts, StartPcs
    <2>7. QED
      BY <1>4, <1>8, <2>2, <2>3, <2>5, <2>6 DEF ReplacementStarts, QuietPcs
  \* A thread that ends leaves none of its sessions in the state it attended to.
  <1>9. ASSUME Becomes(t, Idle), Kept, UNCHANGED <<sessionsByFd, main>>,
               \A s \in DOMAIN session :
                 /\ session'[s].state \in {session[s].state, "IDLE", "STREAMING"}
                 /\ session'[s].state = "STARTING" /\ thr[t].pc \in StartPcs
                    => s \notin {thr[t].s, thr[t].s0}
                 /\ session'[s].state = "STOPPING" /\ thr[t].pc = "stopping" => s # thr[t].s
        PROVE  Attended'
    <2>1. \A u \in Workers : thr'[u] = IF u = t THEN Idle ELSE thr[u]
      BY <1>3, <1>9, Moved
    <2>2. Registered' = Registered
      BY <1>9 DEF Registered
    <2>3. SUFFICES ASSUME NEW s \in Registered PROVE
          /\ session'[s].state = "STARTING" =>
               \E u \in Workers : /\ thr'[u].pc \in StartPcs /\ thr'[u].s0 # None
                                  /\ s \in {thr'[u].s, thr'[u].s0}
          /\ session'[s].state = "STOPPING" =>
               \E u \in Workers : thr'[u].pc = "stopping" /\ thr'[u].s = s
          /\ session'[s].state = "RELEASING" => main'.pc = "unmap" /\ main'.s = s
      BY <2>2 DEF Attended
    <2>4. CASE session'[s].state = "STARTING"
      <3>1. session[s].state = "STARTING"
        BY <1>3, <1>9, <2>4
      <3>2. PICK u \in Workers : /\ thr[u].pc \in StartPcs /\ thr[u].s0 # None
                                 /\ s \in {thr[u].s, thr[u].s0}
        BY <3>1 DEF Attended
      <3>3. u # t
        BY <1>3, <1>9, <2>4, <3>2
      <3>4. QED
        BY <2>1, <2>4, <3>2, <3>3
    <2>5. CASE session'[s].state = "STOPPING"
      <3>1. session[s].state = "STOPPING"
        BY <1>3, <1>9, <2>5
      <3>2. PICK u \in Workers : thr[u].pc = "stopping" /\ thr[u].s = s
        BY <3>1 DEF Attended
      <3>3. u # t
        BY <1>3, <1>9, <2>5, <3>2
      <3>4. QED
        BY <2>1, <2>5, <3>2, <3>3
    <2>6. CASE session'[s].state = "RELEASING"
      BY <1>3, <1>9, <2>6 DEF Attended
    <2>7. QED
      BY <2>4, <2>5, <2>6
  <1>10. CASE StartReturns(t)
    <2>1. thr[t].pc \in {"started", "failed"} /\ Becomes(t, Idle)
      BY <1>10 DEF StartReturns, Becomes
    <2>2. /\ Kept /\ StatesOnly
          /\ \A s \in DOMAIN session :
               session'[s].state =
                 IF s \in {thr[t].s, thr[t].s0} /\ session[s].state = "STARTING"
                 THEN IF thr[t].pc = "started" /\ s = thr[t].s THEN "STREAMING" ELSE "IDLE"
                 ELSE session[s].state
      BY <1>10, <2>1, Returned
    <2>3. Attended'
      BY <1>9, <1>10, <2>1, <2>2 DEF StartReturns
    <2>4. QED
      BY <1>3, <1>4, <1>10, <2>1, <2>2, <2>3 DEF StartReturns, QuietPcs
  <1>11. CASE StopReturns(t)
    <2>1. thr[t].pc = "stopping" /\ Becomes(t, Idle) /\ thr[t].s \in DOMAIN session
      BY <1>2, <1>11 DEF StopReturns, Becomes
    <2>2. CASE session[thr[t].s].state = "STOPPING"
      <3>1. SetState(thr[t].s, "IDLE") /\ "IDLE" \in States
        BY <1>11, <2>2 DEF StopReturns, SetState, States
      <3>2. /\ Kept /\ StatesOnly
            /\ \A s \in DOMAIN session :
                 session'[s].state = IF s = thr[t].s THEN "IDLE" ELSE session[s].state
        BY <2>1, <3>1, StateSet
      <3>3. Attended'
        BY <1>9, <1>11, <2>1, <3>2 DEF StopReturns, StartPcs
      <3>4. QED
        BY <1>3, <1>4, <1>11, <2>1, <3>2, <3>3 DEF StopReturns, QuietPcs
    <2>3. CASE session[thr[t].s].state # "STOPPING"
      <3>1. UNCHANGED session /\ Kept /\ StatesOnly
        BY <1>11, <2>3, Unedited DEF StopReturns
      <3>2. Attended'
        BY <1>9, <1>11, <2>1, <2>3, <3>1 DEF StopReturns, StartPcs
      <3>3. QED
        BY <1>3, <1>4, <1>11, <2>1, <3>1, <3>2 DEF StopReturns, QuietPcs
    <2>4. QED
      BY <2>2, <2>3
  <1>12. QED
    BY <1>6, <1>7, <1>8, <1>10, <1>11

(****************************************************************************)
(* The main thread and the bus, as long as no session is released           *)
(****************************************************************************)
LEMMA MainQuietStep ==
  ASSUME IInv, UNCHANGED <<opened, tables, initializingDevices, thr>>,
         attached' \subseteq Devices, detachSent' \subseteq Devices, todo' \subseteq Fds,
         userCalls' = userCalls, main' \in MainSet,
         \/ main' = main
         \/ main.pc \notin {"unmap", "close"} /\ main'.pc \notin {"unmap", "close"},
         main'.pc = "open" => main'.dev \in Devices
  PROVE  IInv'
  <1> USE DEF IInv, tables
  <1>1. TypeOK'
    BY DEF TypeOK, ThreadSet, MainSet
  <1>2. Sound'
    BY DEF Sound, SoundRecord, Creating, Exists
  <1>3. Registered' = Registered
    BY DEF Registered
  <1>4. Keyed' /\ Attended'
    BY <1>3 DEF Keyed, Attended
  <1>5. Kept /\ StatesOnly
    BY Unedited
  <1>6. Owned' /\ Counted' /\ Orderly'
    BY <1>5, Undisturbed
  <1>7. QED
    BY <1>1, <1>2, <1>4, <1>6

LEMMA MainQuiet ==
  ASSUME IInv,
         \/ \E d \in Devices : Unplug(d) \/ Refresh(d) \/ Detached(d)
         \/ OpenFails \/ InitCameraRefused \/ StopIfIdle \/ StayInBackground \/ ReleaseAll
         \/ Destroyed
         \/ \E f \in Fds : /\ ReleaseCamera(f)
                           /\ sessionsByFd[f] = None \/ session[sessionsByFd[f]].state = "RELEASING"
  PROVE  IInv'
  <1> USE DEF IInv
  <1>1. /\ Idle \in MainSet /\ Idle.pc = "idle" /\ main \in MainSet
        /\ \A s \in Registered : session[s].fd \in Fds
        /\ \A d \in Devices : [Idle EXCEPT !.pc = "open", !.dev = d] \in MainSet
        /\ attached \subseteq Devices /\ detachSent \subseteq Devices /\ todo \subseteq Fds
    <2>1. Idle \in MainSet /\ Idle.pc = "idle"
      BY Shape DEF MainSet, MainPcs, Idle, None, NoFd
    <2>2. \A s \in Registered : session[s].fd \in Fds
      BY Shape DEF Exists, SessionSet
    <2>3. \A d \in Devices : [Idle EXCEPT !.pc = "open", !.dev = d] \in MainSet
      BY <2>1 DEF MainSet, MainPcs
    <2>4. QED
      BY <2>1, <2>2, <2>3 DEF TypeOK
  <1>2. main.pc = "open" => main.dev \in Devices
    BY DEF Sound
  <1>3. ASSUME NEW d \in Devices, Unplug(d)
        PROVE  IInv'
    BY <1>1, <1>2, <1>3, MainQuietStep DEF Unplug, TypeOK
  <1>4. ASSUME NEW d \in Devices, Refresh(d)
        PROVE  IInv'
    <2> DEFINE r == [Idle EXCEPT !.pc = "open", !.dev = d]
    <2>1. r \in MainSet /\ r.pc = "open" /\ r.dev = d
      BY <1>1 DEF MainSet
    <2>2. main' = r
      BY <1>4 DEF Refresh
    <2> HIDE DEF r
    <2>3. QED
      BY <1>1, <1>4, <2>1, <2>2, MainQuietStep DEF Refresh, ActivityFree, TypeOK, bus
  <1>5. ASSUME NEW d \in Devices, Detached(d)
        PROVE  IInv'
    <2>1. todo' \subseteq Fds
      <3>1. CASE Of(d) = {}
        BY <1>1, <1>5, <3>1 DEF Detached
      <3>2. CASE Of(d) # {}
        <4>1. PICK s \in Of(d) : todo' = {session[s].fd}
          BY <1>5, <3>2 DEF Detached
        <4>2. s \in Registered
          BY DEF Of
        <4>3. QED
          BY <1>1, <4>1, <4>2
      <3>3. QED
        BY <3>1, <3>2
    <2>2. QED
      BY <1>1, <1>2, <1>5, <2>1, MainQuietStep DEF Detached, TypeOK
  <1>6. CASE OpenFails \/ InitCameraRefused
    BY <1>1, <1>6, MainQuietStep DEF OpenFails, InitCameraRefused, TypeOK, bus
  <1>7. CASE StopIfIdle
    <2>1. main' \in MainSet /\ main'.pc = "idle" /\ main.pc = "idle"
      <3>1. main' = [main EXCEPT !.n = 1] /\ main.pc = "idle"
        BY <1>7 DEF StopIfIdle, ActivityFree
      <3>2. \A m \in MainSet : [m EXCEPT !.n = 1] \in MainSet /\ [m EXCEPT !.n = 1].pc = m.pc
        BY DEF MainSet
      <3>3. QED
        BY <1>1, <3>1, <3>2
    <2>2. todo' \subseteq Fds
      BY <1>1, <1>7 DEF StopIfIdle
    <2>3. QED
      BY <1>1, <1>7, <2>1, <2>2, MainQuietStep DEF StopIfIdle, TypeOK, bus
  <1>8. CASE StayInBackground
    BY <1>1, <1>8, MainQuietStep DEF StayInBackground, TypeOK, bus
  <1>9. CASE ReleaseAll
    <2>1. main' \in MainSet /\ main'.pc = "idle" /\ main.pc = "idle"
      <3>1. PICK n \in 0 .. 3 : main' = [main EXCEPT !.n = n] /\ main.pc = "idle"
        BY <1>9 DEF ReleaseAll
      <3>2. \A m \in MainSet : [m EXCEPT !.n = n] \in MainSet /\ [m EXCEPT !.n = n].pc = m.pc
        BY DEF MainSet
      <3>3. QED
        BY <1>1, <3>1, <3>2
    <2>2. todo' \subseteq Fds
      BY <1>1, <1>9 DEF ReleaseAll
    <2>3. QED
      BY <1>1, <1>9, <2>1, <2>2, MainQuietStep DEF ReleaseAll, TypeOK, bus
  <1>10. CASE Destroyed
    <2>1. main' \in MainSet /\ main'.pc = "dead" /\ main.pc = "idle"
      BY <1>1, <1>10 DEF Destroyed, MainStep, MainSet, MainPcs
    <2>2. QED
      BY <1>1, <1>10, <2>1, MainQuietStep DEF Destroyed, TypeOK, bus
  <1>11. ASSUME NEW f \in Fds, ReleaseCamera(f),
                sessionsByFd[f] = None \/ session[sessionsByFd[f]].state = "RELEASING"
         PROVE  IInv'
    BY <1>1, <1>2, <1>11, MainQuietStep DEF ReleaseCamera, TypeOK, bus, tables
  <1>12. QED
    BY <1>3, <1>4, <1>5, <1>6, <1>7, <1>8, <1>9, <1>10, <1>11

(****************************************************************************)
(* Descriptors that are opened and closed for a session that is created     *)
(****************************************************************************)
LEMMA Opens ==
  ASSUME IInv, NEW t \in Workers, NEW f \in Fds, InitCamera(t, f) \/ Reopen(t, f)
  PROVE  IInv'
  <1> USE DEF IInv
  <1>1. /\ thr[t] \in ThreadSet /\ SoundRecord(thr[t]) /\ main \in MainSet
        /\ Idle \in ThreadSet /\ Idle \in MainSet /\ Idle.pc = "idle"
        /\ Idle.s = None /\ Idle.s0 = None
    <2>1. /\ Idle \in ThreadSet /\ Idle \in MainSet /\ Idle.pc = "idle"
          /\ Idle.s = None /\ Idle.s0 = None
      BY Shape DEF ThreadSet, MainSet, MainPcs, Idle, WorkerPcs, Indices, None, NoFd
    <2>2. QED
      BY <2>1 DEF TypeOK, Sound
  <1>2. /\ Kept /\ StatesOnly /\ f \notin opened /\ opened' = opened \cup {f}
        /\ UNCHANGED <<bus, sessionsByFd, sessionsByIndex, reservedIndices, todo, userCalls>>
        /\ UNCHANGED session
    BY Unedited DEF InitCamera, Reopen, FreeFds, tables
  \* The thread gets the descriptor; a recovery still has its session.
  <1>3. ASSUME NEW r \in ThreadSet, Becomes(t, r), SoundRecord(r), r.pc = "formats", r.fd = f,
               \/ thr[t].pc = "idle" /\ r.s = None /\ r.s0 = None
               \/ thr[t].pc = "reopen" /\ r.s = thr[t].s /\ r.s0 = thr[t].s0,
               \/ main' = main
               \/ main' \in MainSet /\ main.pc = "open" /\ main'.pc = "idle",
               initializingDevices' \subseteq Devices
        PROVE  IInv'
    <2>1. \A u \in Workers : thr'[u] = IF u = t THEN r ELSE thr[u]
      BY <1>3, Moved
    <2>2. r.s \notin Registered
      BY <1>1, <1>3 DEF Keyed, Taking, Registered, SoundRecord
    <2>3. /\ thr' \in [Workers -> ThreadSet'] /\ main' \in MainSet'
          /\ sessionsByFd' \in [Fds -> 0 .. Len(session')]
          /\ sessionsByIndex' \in [Indices -> 0 .. Len(session')]
          /\ Creating' = Creating /\ Sound' /\ Keyed'
      BY <1>2, <1>3, <2>2, WorkerStep
    <2>4. TypeOK'
      BY <1>2, <1>3, <2>3 DEF TypeOK, bus
    <2>5. Attended'
      <3>1. Registered' = Registered
        BY <1>2 DEF Registered
      <3>2. QED
        BY <1>1, <1>2, <1>3, <3>1, AttendedStep DEF StartPcs
    <2>6. Owned'
      <3>1. \A u \in Workers : Creates(u)' <=> Creates(u) \/ u = t
        BY <1>3, <2>1 DEF Creates
      <3>2. ~Creates(t)
        BY <1>3 DEF Creates
      <3>3. \A s \in DOMAIN session : session[s].open => session[s].fd # f
        BY <1>2 DEF Owned
      <3>4. \A u \in Workers : Creates(u) => thr[u].fd # f
        BY <1>2 DEF Owned
      <3>5. QED
        BY <1>2, <1>3, <2>1, <3>1, <3>2, <3>3, <3>4 DEF Owned
    <2>7. Counted' /\ Orderly'
      <3>1. \A u \in Creating : thr'[u].idx = thr[u].idx
        BY <1>3, <2>1 DEF Creating
      <3>2. QED
        BY <1>2, <1>3, <2>3, <3>1, SameTakers, SameOrder DEF Taking
    <2>8. QED
      BY <2>3, <2>4, <2>5, <2>6, <2>7
  <1>4. CASE InitCamera(t, f)
    <2> DEFINE r == [Idle EXCEPT !.pc = "formats", !.dev = main.dev, !.fd = f]
    <2>1. main.dev \in Devices /\ main.pc = "open" /\ thr[t].pc = "idle"
      BY <1>4 DEF InitCamera, TypeOK
    <2>2. r \in ThreadSet /\ r.pc = "formats" /\ r.fd = f /\ r.dev = main.dev
          /\ r.s = None /\ r.s0 = None
      BY <1>1, <2>1 DEF ThreadSet, WorkerPcs
    <2>3. Becomes(t, r)
      BY <1>4 DEF InitCamera, Becomes
    <2> HIDE DEF r
    <2>4. SoundRecord(r)
      BY <2>1, <2>2 DEF SoundRecord, StartPcs
    <2>5. QED
      BY <1>1, <1>3, <1>4, <2>1, <2>2, <2>3, <2>4 DEF InitCamera, TypeOK
  <1>5. CASE Reopen(t, f)
    <2> DEFINE r == [thr[t] EXCEPT !.pc = "formats", !.fd = f,
                       !.dev = session[thr[t].s].dev, !.idx = session[thr[t].s].idx]
    <2>1. thr[t].pc = "reopen" /\ thr[t].s \in DOMAIN session /\ thr[t].s0 # None
      BY <1>1, <1>5 DEF Reopen, SoundRecord, StartPcs, WorkerPcs, Exists
    <2>2. session[thr[t].s].dev \in Devices /\ session[thr[t].s].idx \in Indices
      BY <2>1, Shape DEF SessionSet
    <2>3. r \in ThreadSet /\ r.pc = "formats" /\ r.fd = f /\ r.dev = session[thr[t].s].dev
          /\ r.s = thr[t].s /\ r.s0 = thr[t].s0 /\ r.idx = session[thr[t].s].idx
      BY <1>1, <2>2 DEF ThreadSet, WorkerPcs
    <2>4. Becomes(t, r)
      BY <1>5 DEF Reopen, Becomes
    <2> HIDE DEF r
    <2>5. SoundRecord(r)
      BY <2>1, <2>2, <2>3, Shape DEF SoundRecord, StartPcs
    <2>6. QED
      BY <1>3, <1>5, <2>1, <2>3, <2>4, <2>5 DEF Reopen, TypeOK
  <1>6. QED
    BY <1>4, <1>5

LEMMA Missing ==
  ASSUME IInv, NEW t \in Workers, FormatsMissing(t)
  PROVE  IInv'
  <1> USE DEF IInv
  <1>1. /\ thr[t] \in ThreadSet /\ SoundRecord(thr[t]) /\ thr[t].pc = "formats"
        /\ Idle \in ThreadSet /\ Idle.pc = "idle" /\ Idle.s = None
    <2>1. Idle \in ThreadSet /\ Idle.pc = "idle" /\ Idle.s = None
      BY Shape DEF ThreadSet, Idle, WorkerPcs, Indices, None, NoFd
    <2>2. QED
      BY <2>1 DEF TypeOK, Sound, FormatsMissing
  <1>2. /\ Kept /\ StatesOnly /\ opened' = opened \ {thr[t].fd} /\ UNCHANGED session
        /\ UNCHANGED <<bus, sessionsByFd, sessionsByIndex, reservedIndices, main, todo, userCalls>>
        /\ initializingDevices' \subseteq Devices
    BY Unedited DEF FormatsMissing, tables, EndInit, TypeOK
  <1>3. ASSUME NEW r \in ThreadSet, Becomes(t, r), SoundRecord(r),
               \/ thr[t].s = None /\ r.pc = "idle"
               \/ thr[t].s # None /\ r.pc = "giveUp" /\ r.s = thr[t].s /\ r.s0 = thr[t].s0
        PROVE  IInv'
    <2>1. \A u \in Workers : thr'[u] = IF u = t THEN r ELSE thr[u]
      BY <1>3, Moved
    <2>2. r.pc \in Taking \ {"unmap"} => r.s \notin Registered
      BY <1>1, <1>3 DEF Keyed, Taking
    <2>3. /\ thr' \in [Workers -> ThreadSet'] /\ main' \in MainSet'
          /\ sessionsByFd' \in [Fds -> 0 .. Len(session')]
          /\ sessionsByIndex' \in [Indices -> 0 .. Len(session')]
          /\ Creating' = Creating /\ Sound' /\ Keyed'
      BY <1>1, <1>2, <1>3, <2>2, WorkerStep
    <2>4. TypeOK'
      BY <1>2, <1>3, <2>3 DEF TypeOK, bus
    <2>5. Attended'
      <3>1. Registered' = Registered
        BY <1>2 DEF Registered
      <3>2. thr[t].s = None => thr[t].s0 = None
        BY <1>1 DEF SoundRecord
      <3>3. QED
        BY <1>1, <1>2, <1>3, <3>1, <3>2, AttendedStep DEF StartPcs
    <2>6. Owned'
      <3>1. \A u \in Workers : Creates(u)' <=> Creates(u) /\ u # t
        BY <1>3, <2>1 DEF Creates
      <3>2. Creates(t)
        BY <1>1 DEF Creates
      <3>3. QED
        BY <1>2, <2>1, <3>1, <3>2 DEF Owned
    <2>7. Counted' /\ Orderly'
      <3>1. \A u \in Creating : thr'[u].idx = thr[u].idx
        BY <1>1, <2>1 DEF Creating
      <3>2. QED
        BY <1>1, <1>2, <1>3, <2>3, <3>1, SameTakers, SameOrder DEF Taking
    <2>8. QED
      BY <2>3, <2>4, <2>5, <2>6, <2>7
  <1>4. CASE thr[t].s = None
    <2>1. Becomes(t, Idle) /\ SoundRecord(Idle)
      BY <1>1, <1>4 DEF FormatsMissing, EndInit, Becomes, SoundRecord, StartPcs
    <2>2. QED
      BY <1>1, <1>3, <1>4, <2>1
  <1>5. CASE thr[t].s # None
    <2> DEFINE r == [thr[t] EXCEPT !.pc = "giveUp"]
    <2>1. r \in ThreadSet /\ r.pc = "giveUp" /\ r.s = thr[t].s /\ r.s0 = thr[t].s0
      BY <1>1 DEF ThreadSet, WorkerPcs
    <2>2. Becomes(t, r)
      BY <1>5 DEF FormatsMissing, Step, Becomes
    <2>3. Exists(thr[t].s) /\ thr[t].s0 # None
      BY <1>1, <1>5, Shape DEF SoundRecord, ThreadSet, Exists
    <2> HIDE DEF r
    <2>4. SoundRecord(r)
      BY <2>1, <2>3 DEF SoundRecord, StartPcs
    <2>5. QED
      BY <1>3, <1>5, <2>1, <2>2, <2>4
  <1>6. QED
    BY <1>4, <1>5

(****************************************************************************)
(* Indices that are reserved and given back                                 *)
(****************************************************************************)
LEMMA Reserves ==
  ASSUME IInv, NEW t \in Workers, AllocateIndex(t)
  PROVE  IInv'
  <1> USE DEF IInv
  <1>1. PICK i \in Indices : /\ FirstFree(i) /\ reservedIndices' = reservedIndices \cup {i}
                             /\ thr' = [thr EXCEPT ![t].pc = "byFd", ![t].idx = i]
    BY DEF AllocateIndex
  <1> DEFINE r == [thr[t] EXCEPT !.pc = "byFd", !.idx = i]
  <1>2. /\ thr[t] \in ThreadSet /\ SoundRecord(thr[t])
        /\ thr[t].pc = "formats" /\ thr[t].s = None /\ Room
    BY DEF TypeOK, Sound, AllocateIndex
  <1>3. /\ r \in ThreadSet /\ r.pc = "byFd" /\ r.idx = i /\ r.fd = thr[t].fd
        /\ r.dev = thr[t].dev /\ r.s = None /\ r.s0 = thr[t].s0 /\ Becomes(t, r)
    BY <1>1, <1>2 DEF ThreadSet, WorkerPcs, Becomes
  <1> HIDE DEF r
  <1>4. SoundRecord(r)
    BY <1>2, <1>3 DEF SoundRecord, StartPcs
  <1>5. \A u \in Workers : thr'[u] = IF u = t THEN r ELSE thr[u]
    BY <1>3, Moved
  <1>6. /\ Kept /\ StatesOnly /\ UNCHANGED session
        /\ UNCHANGED <<bus, opened, sessionsByFd, sessionsByIndex, initializingDevices,
                       main, todo, userCalls>>
    BY Unedited DEF AllocateIndex
  <1>7. Creating' = Creating \cup {t} /\ t \notin Creating
    BY <1>2, <1>3, <1>5 DEF Creating
  <1>8. TypeOK'
    <2>1. ThreadSet' = ThreadSet /\ MainSet' = MainSet
      BY <1>6 DEF ThreadSet, MainSet
    <2>2. QED
      BY <1>1, <1>3, <1>6, <2>1 DEF TypeOK, Becomes, bus
  <1>9. Sound'
    <2>1. Cardinality(Creating') = Cardinality(Creating) + 1
      BY <1>7, Shape, FS_AddElement
    <2>2. Len(session) + Cardinality(Creating') <= MaxSessions
      BY <1>2, <2>1, Shape DEF Room
    <2>3. QED
      BY <1>4, <1>5, <1>6, <2>2 DEF Sound, SoundRecord, Exists
  <1>10. Registered' = Registered
    BY <1>6 DEF Registered
  <1>11. Keyed'
    BY <1>3, <1>5, <1>6, <1>10 DEF Keyed, Taking
  <1>12. Attended'
    <2>1. thr[t].s0 = None
      BY <1>2 DEF SoundRecord
    <2>2. QED
      BY <1>2, <1>3, <1>6, <1>10, <2>1, AttendedStep
  <1>13. Owned'
    <2>1. /\ \A u \in Workers : Creates(u)' <=> Creates(u)
          /\ \A u \in Workers : thr'[u].fd = thr[u].fd
      BY <1>2, <1>3, <1>5 DEF Creates
    <2>2. QED
      BY <1>6, <2>1 DEF Owned
  <1>14. ASSUME NEW s \in DOMAIN session
         PROVE  /\ TakenByMain(s)' <=> TakenByMain(s)
                /\ Leaving(s)' <=> Leaving(s)
                /\ Closing(s)' <=> Closing(s)
                /\ Taken(s)' <=> Taken(s)
                /\ Counts(s)' <=> Counts(s)
                /\ \A u \in Workers : TakenBy(u, s)' <=> TakenBy(u, s)
                /\ \A u \in Workers : thr'[u].pc = "byIndex" /\ thr'[u].s = s
                                     <=> thr[u].pc = "byIndex" /\ thr[u].s = s
    BY <1>2, <1>3, <1>6, SameTakers DEF Counts, Live
  <1>15. Counted'
    BY <1>6, <1>10, <1>14 DEF Counted, Live
  <1>16. Orderly'
    <2> SUFFICES ASSUME Disjoint PROVE OneTaker' /\ OneOwner' /\ Indexed'
      BY <1>6 DEF Orderly, Disjoint
    <2>1. OneTaker /\ OneOwner /\ Indexed
      BY DEF Orderly
    <2>2. OneTaker'
      BY <1>6, <1>14, <2>1 DEF OneTaker
    <2>3. Indexed'
      BY <1>6, <1>14, <2>1, Shape DEF Indexed, Live, Exists
    <2>4. i \notin reservedIndices
      BY <1>1 DEF FirstFree, FreeIndices
    <2>5. OneOwner'
      <3>1. \A s \in DOMAIN session : Counts(s) => session[s].idx # i
        BY <2>1, <2>4 DEF OneOwner
      <3>2. \A u \in Creating : thr[u].idx # i /\ thr'[u] = thr[u]
        BY <1>5, <1>7, <2>1, <2>4 DEF OneOwner, Creating
      <3>3. thr'[t].idx = i
        BY <1>3, <1>5
      <3>4. \A r0, s \in DOMAIN session' :
              Counts(r0)' /\ Counts(s)' /\ session'[r0].idx = session'[s].idx => r0 = s
        BY <1>6, <1>14, <2>1 DEF OneOwner
      <3>5. \A u \in Creating' :
              /\ \A s \in DOMAIN session' : Counts(s)' => session'[s].idx # thr'[u].idx
              /\ \A w \in Creating' : thr'[w].idx = thr'[u].idx => w = u
              /\ thr'[u].idx \in reservedIndices'
        <4>1. \A u \in Creating :
                /\ \A s \in DOMAIN session : Counts(s) => session[s].idx # thr[u].idx
                /\ \A w \in Creating : thr[w].idx = thr[u].idx => w = u
                /\ thr[u].idx \in reservedIndices
          BY <2>1 DEF OneOwner
        <4>2. reservedIndices' = reservedIndices \cup {i}
          BY <1>1
        <4>3. QED
          BY <1>6, <1>7, <1>14, <3>1, <3>2, <3>3, <4>1, <4>2
      <3>6. \A s \in DOMAIN session' : Counts(s)' => session'[s].idx \in reservedIndices'
        BY <1>1, <1>6, <1>14, <2>1 DEF OneOwner
      <3>7. \A j \in reservedIndices' : \/ \E s \in DOMAIN session' : Counts(s)' /\ session'[s].idx = j
                                        \/ \E u \in Creating' : thr'[u].idx = j
        <4>1. \A j \in reservedIndices : \/ \E s \in DOMAIN session : Counts(s) /\ session[s].idx = j
                                         \/ \E u \in Creating : thr[u].idx = j
          BY <2>1 DEF OneOwner
        <4>2. reservedIndices' = reservedIndices \cup {i}
          BY <1>1
        <4>3. QED
          BY <1>6, <1>7, <1>14, <3>2, <3>3, <4>1, <4>2
      <3>8. QED
        BY <3>4, <3>5, <3>6, <3>7 DEF OneOwner
    <2>6. QED
      BY <2>2, <2>3, <2>5
  <1>17. QED
    BY <1>8, <1>9, <1>11, <1>12, <1>13, <1>15, <1>16

LEMMA GivesUp ==
  ASSUME IInv, NEW t \in Workers, RecoveryGivesUp(t)
  PROVE  IInv'
  <1> USE DEF IInv
  <1> DEFINE s == thr[t].s
             r == [thr[t] EXCEPT !.pc = "failed"]
  <1>1. thr[t] \in ThreadSet /\ SoundRecord(thr[t]) /\ thr[t].pc = "giveUp"
    BY DEF TypeOK, Sound, RecoveryGivesUp
  <1>2. r \in ThreadSet /\ r.pc = "failed" /\ r.s = s /\ r.s0 = thr[t].s0 /\ Becomes(t, r)
    BY <1>1 DEF ThreadSet, WorkerPcs, RecoveryGivesUp, Step, Becomes
  <1>3. s \in DOMAIN session /\ r.s0 # None
    BY <1>1, <1>2 DEF SoundRecord, WorkerPcs, StartPcs, Exists
  <1> HIDE DEF r, s
  <1>4. SoundRecord(r)
    BY <1>2, <1>3 DEF SoundRecord, Exists
  <1>5. /\ Kept /\ StatesOnly /\ UNCHANGED session
        /\ reservedIndices' = reservedIndices \ {session[s].idx}
        /\ UNCHANGED <<bus, opened, sessionsByFd, sessionsByIndex, initializingDevices,
                       main, todo, userCalls>>
    BY Unedited DEF RecoveryGivesUp, s
  <1>6. \A u \in Workers : thr'[u] = IF u = t THEN r ELSE thr[u]
    BY <1>2, Moved
  <1>7. /\ thr' \in [Workers -> ThreadSet'] /\ main' \in MainSet'
        /\ sessionsByFd' \in [Fds -> 0 .. Len(session')]
        /\ sessionsByIndex' \in [Indices -> 0 .. Len(session')]
        /\ Creating' = Creating /\ Sound' /\ Keyed'
    BY <1>1, <1>2, <1>4, <1>5, WorkerStep DEF Taking
  <1>8. TypeOK'
    BY <1>5, <1>7 DEF TypeOK, bus
  <1>9. Registered' = Registered
    BY <1>5 DEF Registered
  <1>10. Attended'
    BY <1>1, <1>2, <1>5, <1>9, AttendedStep DEF StartPcs, s
  <1>11. Owned'
    <2>1. \A u \in Workers : (Creates(u)' <=> Creates(u)) /\ (Creates(u) => thr'[u].fd = thr[u].fd)
      BY <1>1, <1>2, <1>6 DEF Creates
    <2>2. QED
      BY <1>5, <2>1 DEF Owned
  \* The thread was one of those that take s down; the others stay.
  <1>12. ASSUME NEW q \in DOMAIN session
         PROVE  /\ TakenByMain(q)' <=> TakenByMain(q)
                /\ Leaving(q)' <=> Leaving(q)
                /\ Closing(q)' <=> Closing(q)
                /\ \A u \in Workers : TakenBy(u, q)' <=> TakenBy(u, q) /\ ~(u = t /\ q = s)
                /\ \A u \in Workers : thr'[u].pc = "byIndex" /\ thr'[u].s = q
                                     <=> thr[u].pc = "byIndex" /\ thr[u].s = q
    <2>1. ASSUME NEW u \in Workers
          PROVE  /\ TakenBy(u, q)' <=> TakenBy(u, q) /\ ~(u = t /\ q = s)
                 /\ \A pc \in {"byIndex", "close", "unmap"} :
                      thr'[u].pc = pc /\ thr'[u].s = q <=> thr[u].pc = pc /\ thr[u].s = q
      BY <1>1, <1>2, <1>6 DEF TakenBy, Taking, s
    <2>2. QED
      BY <1>5, <2>1 DEF TakenByMain, Leaving, Closing
  <1>13. Counted'
    BY <1>5, <1>9, <1>12 DEF Counted, Live, Taken
  <1>14. Orderly'
    <2> SUFFICES ASSUME Disjoint PROVE OneTaker' /\ OneOwner' /\ Indexed'
      BY <1>5 DEF Orderly, Disjoint
    <2>1. OneTaker /\ OneOwner /\ Indexed
      BY DEF Orderly
    <2>2. OneTaker'
      BY <1>5, <1>12, <2>1 DEF OneTaker
    <2>3. Indexed'
      BY <1>5, <1>12, <2>1, Shape DEF Indexed, Live, Exists
    <2>4. TakenBy(t, s)
      BY <1>1 DEF TakenBy, Taking, s
    <2>5. ~Live(s)
      BY <1>3, <2>4 DEF Counted, Taken
    <2>6. \A q \in DOMAIN session : Counts(q)' <=> Counts(q) /\ q # s
      <3>1. ASSUME NEW q \in DOMAIN session, q # s PROVE Counts(q)' <=> Counts(q)
        BY <1>5, <1>12, <3>1 DEF Counts, Taken, Live
      <3>2. ~TakenByMain(s) /\ \A u \in Workers : TakenBy(u, s) => u = t
        BY <1>3, <2>1, <2>4 DEF OneTaker
      <3>3. ASSUME NEW q \in DOMAIN session, q = s PROVE ~Counts(q)'
        <4>1. ~TakenByMain(q)' /\ \A u \in Workers : ~TakenBy(u, q)'
          BY <1>12, <3>2, <3>3
        <4>2. session'[q].releases # 0
          BY <1>5, <2>5, <3>3 DEF Live
        <4>3. QED
          BY <4>1, <4>2 DEF Counts, Taken, Live
      <3>4. QED
        BY <3>1, <3>3
    <2>7. Counts(s)
      BY <2>4 DEF Counts, Taken
    <2>8. \A u \in Creating : thr'[u].idx = thr[u].idx
      BY <1>1, <1>6 DEF Creating
    <2>9. OneOwner'
      BY <1>3, <1>5, <1>7, <2>1, <2>6, <2>7, <2>8 DEF OneOwner
    <2>10. QED
      BY <2>2, <2>3, <2>9
  <1>15. QED
    BY <1>7, <1>8, <1>10, <1>11, <1>13, <1>14

\* A step of the main thread leaves the workers as they are.
LEMMA SameThreads ==
  ASSUME TypeOK, Sound, Kept, UNCHANGED thr
  PROVE  /\ thr' \in [Workers -> ThreadSet'] /\ Creating' = Creating
         /\ MainSet' = MainSet /\ \A u \in Workers : SoundRecord(thr[u])'
  <1>1. Len(session') = Len(session) /\ DOMAIN session' = DOMAIN session
    BY DEF Kept
  <1>2. ThreadSet' = ThreadSet /\ MainSet' = MainSet /\ Creating' = Creating
    BY <1>1 DEF ThreadSet, MainSet, Creating
  <1>3. ASSUME NEW u \in Workers, NEW q, q = thr[u], SoundRecord(q)
        PROVE  SoundRecord(q)'
    <2>1. Exists(q.s) => session'[q.s].idx = session[q.s].idx
      BY DEF Kept, Exists
    <2>2. q.pc \in WorkerPcs /\ q.s \in 0 .. Len(session)
      BY <1>3 DEF TypeOK, ThreadSet
    <2>3. q.s # None => Exists(q.s)
      BY <2>2, Shape DEF Exists, None
    <2>4. QED
      BY <1>1, <1>3, <2>1, <2>2, <2>3 DEF SoundRecord, Exists, WorkerPcs
  <1>4. \A u \in Workers : SoundRecord(thr[u])'
    BY <1>3 DEF Sound, SoundRecord, Exists
  <1>5. QED
    BY <1>2, <1>4 DEF TypeOK

(****************************************************************************)
(* A session is taken down                                                  *)
(****************************************************************************)
LEMMA TakeOrder ==
  ASSUME IInv, Kept, NEW s \in DOMAIN session,
         session'[s].releases = session[s].releases + 1,
         \A q \in DOMAIN session :
           /\ session'[q].open = session[q].open
           /\ q # s => session'[q].releases = session[q].releases,
         UNCHANGED <<sessionsByFd, sessionsByIndex, reservedIndices>>,
         Creating' = Creating, \A u \in Creating : thr'[u].idx = thr[u].idx,
         \A q \in DOMAIN session :
           /\ TakenByMain(q) => TakenByMain(q)'
           /\ TakenByMain(q)' => TakenByMain(q) \/ q = s
           /\ \A u \in Workers : /\ TakenBy(u, q) => TakenBy(u, q)'
                                 /\ TakenBy(u, q)' => TakenBy(u, q) \/ q = s
           /\ Leaving(q)' <=> Leaving(q) \/ q = s
           /\ Closing(q)' <=> Closing(q)
           /\ \A u \in Workers : thr'[u].pc = "byIndex" /\ thr'[u].s = q
                                <=> thr[u].pc = "byIndex" /\ thr[u].s = q,
         \A u, w \in Workers :
           TakenBy(u, s)' /\ ~TakenBy(u, s) /\ TakenBy(w, s)' /\ ~TakenBy(w, s) => u = w,
         \A u \in Workers : TakenBy(u, s)' /\ TakenByMain(s)' => TakenBy(u, s) \/ TakenByMain(s),
         Taken(s)'
  PROVE  Counted' /\ Orderly'
  <1> USE DEF IInv
  <1>1. /\ DOMAIN session' = DOMAIN session
        /\ \A q \in DOMAIN session : /\ session[q].releases \in Nat
                                     /\ session'[q].fd = session[q].fd
                                     /\ session'[q].idx = session[q].idx
    BY Shape DEF Kept, SessionSet
  <1>2. /\ ~Live(s)'
        /\ \A q \in DOMAIN session : Live(q)' <=> Live(q) /\ q # s
    BY <1>1 DEF Live
  <1>3. \A q \in DOMAIN session : Taken(q)' => Taken(q) \/ q = s
    BY DEF Taken
  <1>4. Counted'
    BY <1>1, <1>2, <1>3 DEF Counted, Registered
  <1>5. SUFFICES ASSUME Disjoint' PROVE OneTaker' /\ OneOwner' /\ Indexed'
    BY <1>4 DEF Orderly
  <1>6. Disjoint /\ Live(s)
    BY <1>1, <1>5 DEF Disjoint, Live
  <1>7. OneTaker /\ OneOwner /\ Indexed
    BY <1>6 DEF Orderly
  <1>8. ~Taken(s) /\ session[s].open
    BY <1>6 DEF Counted
  <1>9. ~TakenByMain(s) /\ \A u \in Workers : ~TakenBy(u, s)
    BY <1>8 DEF Taken
  <1>10. OneTaker'
    <2>1. \A q \in DOMAIN session : Leaving(q)' => session'[q].open
      BY <1>7, <1>8 DEF OneTaker
    <2>2. \A q \in DOMAIN session :
            session'[q].open => sessionsByFd'[session'[q].fd] = q \/ Closing(q)'
      BY <1>1, <1>7 DEF OneTaker
    <2>3. ASSUME NEW q \in DOMAIN session, NEW u \in Workers, TakenBy(u, q)'
          PROVE  ~TakenByMain(q)' /\ \A w \in Workers : TakenBy(w, q)' => w = u
      <3>1. CASE q = s
        BY <1>9, <2>3, <3>1
      <3>2. CASE q # s
        BY <1>7, <2>3, <3>2 DEF OneTaker
      <3>3. QED
        BY <3>1, <3>2
    <2>4. QED
      BY <1>1, <2>1, <2>2, <2>3 DEF OneTaker
  <1>11. \A q \in DOMAIN session : Counts(q)' <=> Counts(q)
    <2>1. ASSUME NEW q \in DOMAIN session, q = s PROVE Counts(q)' /\ Counts(q)
      BY <1>6, <2>1 DEF Counts
    <2>2. ASSUME NEW q \in DOMAIN session, q # s PROVE Taken(q)' <=> Taken(q)
      BY <2>2 DEF Taken
    <2>3. QED
      BY <1>2, <2>1, <2>2 DEF Counts
  <1>12. OneOwner'
    BY <1>1, <1>7, <1>11 DEF OneOwner
  <1>13. Indexed'
    <2>1. ASSUME NEW i \in Indices, sessionsByIndex'[i] # None
          PROVE  Live(sessionsByIndex[i])' \/ Leaving(sessionsByIndex[i])'
      <3>1. PICK q \in DOMAIN session : q = sessionsByIndex[i]
        BY <2>1, Shape DEF Exists
      <3>2. Live(q) \/ Leaving(q)
        BY <1>7, <2>1, <3>1 DEF Indexed
      <3>3. Live(q)' \/ Leaving(q)'
        BY <1>2, <3>2
      <3>4. QED
        BY <3>1, <3>3 DEF Live, Leaving, TakenByMain
    <2>2. \A q \in DOMAIN session :
            Live(q)' => \/ sessionsByIndex'[session'[q].idx] = q
                        \/ \E u \in Workers : thr'[u].pc = "byIndex" /\ thr'[u].s = q
      BY <1>1, <1>2, <1>7 DEF Indexed
    <2>3. QED
      BY <1>1, <2>1, <2>2 DEF Indexed
  <1>14. QED
    BY <1>10, <1>12, <1>13

\* A failed attempt: the session is taken down for a recovery, or given up.
LEMMA Attempts ==
  ASSUME IInv, NEW t \in Workers, AttemptFails(t)
  PROVE  IInv'
  <1> USE DEF IInv
  <1>1. thr[t] \in ThreadSet /\ SoundRecord(thr[t]) /\ thr[t].pc = "starting"
    BY DEF TypeOK, Sound, AttemptFails
  <1>2. PICK s \in DOMAIN session : s = thr[t].s /\ thr[t].s0 # None
    BY <1>1 DEF SoundRecord, WorkerPcs, StartPcs, Exists
  <1>3. CASE thr[t].n = MaxAttempts
    <2> DEFINE r == [thr[t] EXCEPT !.pc = "failed"]
    <2>1. /\ r \in ThreadSet /\ r.pc = "failed" /\ r.s = s /\ r.s0 = thr[t].s0 /\ Becomes(t, r)
      BY <1>1, <1>2, <1>3 DEF ThreadSet, WorkerPcs, AttemptFails, Step, Becomes
    <2> HIDE DEF r
    <2>2. SoundRecord(r)
      BY <1>2, <2>1 DEF SoundRecord, Exists
    <2>3. /\ Kept /\ StatesOnly /\ UNCHANGED <<tables, main>>
          /\ UNCHANGED <<bus, opened, initializingDevices, todo, userCalls>>
          /\ userCalls \in 0 .. MaxUserCalls
      BY <1>3, Unedited DEF AttemptFails, TypeOK, tables
    <2>4. TypeOK' /\ Sound' /\ Keyed' /\ Owned' /\ Counted' /\ Orderly'
      BY <1>1, <2>1, <2>2, <2>3, QuietStep DEF QuietPcs, tables
    <2>5. Attended'
      BY <1>1, <1>2, <2>1, <2>3, AttendedStep DEF Registered, tables, StartPcs
    <2>6. QED
      BY <2>4, <2>5
  <1>4. CASE thr[t].n # MaxAttempts
    <2> DEFINE r == [thr[t] EXCEPT !.pc = "unmap", !.n = @ + 1]
    <2>1. /\ r \in ThreadSet /\ r.pc = "unmap" /\ r.s = s /\ r.s0 = thr[t].s0 /\ Becomes(t, r)
      <3>1. thr[t].n + 1 \in 0 .. MaxAttempts
        BY <1>1, <1>4 DEF ThreadSet
      <3>2. r \in ThreadSet /\ r.pc = "unmap" /\ r.s = s /\ r.s0 = thr[t].s0
        BY <1>1, <1>2, <3>1 DEF ThreadSet, WorkerPcs
      <3>3. QED
        BY <1>4, <3>2 DEF AttemptFails, Becomes
    <2> HIDE DEF r
    <2>2. SoundRecord(r)
      BY <1>2, <2>1 DEF SoundRecord, Exists
    <2>3. /\ Kept
          /\ \A q \in DOMAIN session :
               /\ session'[q].state = session[q].state /\ session'[q].open = session[q].open
               /\ session'[q].releases =
                    IF q = s THEN session[s].releases + 1 ELSE session[q].releases
      <3>1. session[s].releases \in Nat
        BY Shape DEF SessionSet
      <3>2. session' = [session EXCEPT ![s].releases = session[s].releases + 1]
        BY <1>2, <1>4 DEF AttemptFails
      <3>3. session[s].releases + 1 \in Nat /\ session[s].releases + 1 >= session[s].releases
        BY <3>1
      <3> DEFINE n == session[s].releases + 1
      <3> HIDE DEF n
      <3>4. n \in Nat /\ n >= session[s].releases
        BY <3>3 DEF n
      <3>5. session' = [session EXCEPT ![s].releases = n]
        BY <3>2 DEF n
      <3>6. /\ Kept
            /\ \A q \in DOMAIN session :
                 /\ session'[q].state = session[q].state /\ session'[q].open = session[q].open
                 /\ session'[q].releases = IF q = s THEN n ELSE session[q].releases
        BY <3>4, <3>5, CountedUp
      <3>7. QED
        BY <3>6 DEF n
    <2>4. UNCHANGED <<bus, opened, sessionsByFd, sessionsByIndex, reservedIndices,
                      initializingDevices, main, todo, userCalls>>
      BY DEF AttemptFails
    <2>5. \A u \in Workers : thr'[u] = IF u = t THEN r ELSE thr[u]
      BY <2>1, Moved
    <2>6. /\ thr' \in [Workers -> ThreadSet'] /\ main' \in MainSet'
          /\ sessionsByFd' \in [Fds -> 0 .. Len(session')]
          /\ sessionsByIndex' \in [Indices -> 0 .. Len(session')]
          /\ Creating' = Creating /\ Sound' /\ Keyed'
      BY <1>1, <2>1, <2>2, <2>3, <2>4, WorkerStep
    <2>7. TypeOK'
      BY <2>3, <2>4, <2>6 DEF TypeOK, Kept, bus
    <2>8. Attended'
      <3>1. Registered' = Registered /\ Registered \subseteq DOMAIN session
        BY <2>4, Shape DEF Registered, Exists
      <3>2. QED
        BY <1>1, <1>2, <2>1, <2>3, <2>4, <3>1, AttendedStep DEF StartPcs
    <2>9. Owned'
      <3>1. \A u \in Workers : (Creates(u)' <=> Creates(u)) /\ (Creates(u) => thr'[u].fd = thr[u].fd)
        BY <1>1, <2>1, <2>5 DEF Creates
      <3>2. QED
        BY <2>3, <2>4, <3>1 DEF Owned, Kept
    <2>10. ASSUME NEW q \in DOMAIN session
           PROVE  /\ TakenByMain(q)' <=> TakenByMain(q)
                  /\ \A u \in Workers : TakenBy(u, q)' <=> TakenBy(u, q) \/ (u = t /\ q = s)
                  /\ Leaving(q)' <=> Leaving(q) \/ q = s
                  /\ Closing(q)' <=> Closing(q)
                  /\ \A u \in Workers : thr'[u].pc = "byIndex" /\ thr'[u].s = q
                                       <=> thr[u].pc = "byIndex" /\ thr[u].s = q
      <3>1. ASSUME NEW u \in Workers
            PROVE  /\ TakenBy(u, q)' <=> TakenBy(u, q) \/ (u = t /\ q = s)
                   /\ thr'[u].s = q /\ thr'[u].pc = "unmap"
                      <=> (thr[u].s = q /\ thr[u].pc = "unmap") \/ (u = t /\ q = s)
                   /\ \A pc \in {"byIndex", "close"} :
                        thr'[u].pc = pc /\ thr'[u].s = q <=> thr[u].pc = pc /\ thr[u].s = q
        BY <1>1, <1>2, <2>1, <2>5 DEF TakenBy, Taking
      <3>2. QED
        BY <2>4, <3>1 DEF TakenByMain, Leaving, Closing
    <2>11. Counted' /\ Orderly'
      <3>1. \A u \in Creating : thr'[u].idx = thr[u].idx
        BY <1>1, <2>5 DEF Creating
      <3>2. Taken(s)'
        BY <2>10 DEF Taken
      <3>3. session'[s].releases = session[s].releases + 1
        BY <2>3
      <3>4. QED
        BY <2>3, <2>4, <2>6, <2>10, <3>1, <3>2, <3>3, TakeOrder
    <2>12. QED
      BY <2>6, <2>7, <2>8, <2>9, <2>11
  <1>5. QED
    BY <1>3, <1>4

\* releaseSession begins on the main thread.
LEMMA Releases ==
  ASSUME IInv, NEW f \in Fds, ReleaseCamera(f),
         sessionsByFd[f] # None, session[sessionsByFd[f]].state # "RELEASING"
  PROVE  IInv'
  <1> USE DEF IInv
  <1>1. PICK s \in DOMAIN session : s = sessionsByFd[f]
    BY Shape DEF Exists
  <1>2. /\ main.pc = "idle" /\ main \in MainSet
        /\ main' = [main EXCEPT !.pc = "unmap", !.s = s]
        /\ session' = [session EXCEPT ![s].state = "RELEASING", ![s].releases = @ + 1]
        /\ UNCHANGED <<bus, opened, sessionsByFd, sessionsByIndex, reservedIndices,
                       initializingDevices, thr, todo, userCalls>>
    BY <1>1 DEF ReleaseCamera, TypeOK
  <1>3. /\ Kept /\ \A q \in DOMAIN session : session'[q].open = session[q].open
        /\ session'[s].state = "RELEASING"
        /\ session'[s].releases = session[s].releases + 1
        /\ \A q \in DOMAIN session : q # s => session'[q] = session[q]
    <2> DEFINE n == session[s].releases + 1
               e == [session[s] EXCEPT !.state = "RELEASING", !.releases = n]
    <2>1. session[s] \in SessionSet /\ session[s].releases \in Nat
          /\ \A q \in DOMAIN session : session[q].releases \in Nat
      BY Shape DEF SessionSet
    <2>2. /\ e \in SessionSet /\ e.fd = session[s].fd /\ e.idx = session[s].idx
          /\ e.open = session[s].open /\ e.state = "RELEASING"
          /\ e.releases = n
      <3>1. n \in Nat
        BY <2>1
      <3> HIDE DEF n
      <3>2. QED
        BY <2>1, <3>1 DEF SessionSet, States
    <2>3. session' = [session EXCEPT ![s] = e]
      BY <1>2, <2>1 DEF TypeOK, SessionSet
    <2> HIDE DEF e
    <2>4. /\ session' \in Seq(SessionSet) /\ Len(session') = Len(session)
          /\ DOMAIN session' = DOMAIN session
          /\ \A r \in DOMAIN session : session'[r] = IF r = s THEN e ELSE session[r]
      BY <2>2, <2>3, Edited
    <2>5. session[s].releases \in Nat /\ n \in Nat /\ n >= session[s].releases
      BY <2>1
    <2> HIDE DEF n
    <2>6. session'[s] = e
      BY <2>4
    <2>7. \A q \in DOMAIN session : q # s => session'[q] = session[q]
      BY <2>4
    <2>8. ASSUME NEW q \in DOMAIN session
          PROVE  /\ session'[q].fd = session[q].fd /\ session'[q].idx = session[q].idx
                 /\ session'[q].open = session[q].open
                 /\ session'[q].releases >= session[q].releases
      <3>1. CASE q = s
        BY <2>2, <2>5, <2>6, <3>1
      <3>2. CASE q # s
        <4>1. session'[q] = session[q] /\ session[q].releases \in Nat
          BY <2>1, <2>7, <3>2
        <4>2. QED
          BY <4>1
      <3>3. QED
        BY <3>1, <3>2
    <2>9. Kept
      BY <2>4, <2>8 DEF Kept
    <2>10. session'[s].releases = session[s].releases + 1
      BY <2>2, <2>6 DEF n
    <2>11. QED
      BY <2>2, <2>6, <2>7, <2>8, <2>9, <2>10
  <1>4. /\ main' \in MainSet' /\ main'.pc = "unmap" /\ main'.s = s
    <2>1. s \in 0 .. Len(session) /\ Len(session') = Len(session)
      BY <1>3, Shape DEF Kept
    <2>2. [main EXCEPT !.pc = "unmap", !.s = s] \in MainSet
      BY <1>2, <2>1 DEF MainSet, MainPcs
    <2>3. MainSet' = MainSet
      BY <2>1 DEF MainSet
    <2>4. QED
      BY <1>2, <2>2, <2>3 DEF MainSet
  <1>5. TypeOK'
    <2>1. ThreadSet' = ThreadSet
      BY <1>3 DEF Kept, ThreadSet
    <2>2. QED
      BY <1>2, <1>3, <1>4, <2>1 DEF TypeOK, Kept, bus
  <1>6. Creating' = Creating
    BY <1>2 DEF Creating
  <1>7. Sound'
    BY <1>2, <1>3, <1>4, <1>6, SameThreads DEF Sound, Kept, Exists
  <1>8. Registered' = Registered /\ Registered \subseteq DOMAIN session
    BY <1>2, Shape DEF Registered, Exists
  <1>9. Keyed'
    BY <1>2, <1>3, <1>4, <1>8, Shape DEF Keyed, Kept, Exists
  <1>10. Attended'
    <2>1. ASSUME NEW q \in Registered
          PROVE  /\ session'[q].state = "STARTING" =>
                      \E u \in Workers : /\ thr[u].pc \in StartPcs /\ thr[u].s0 # None
                                         /\ q \in {thr[u].s, thr[u].s0}
                 /\ session'[q].state = "STOPPING" =>
                      \E u \in Workers : thr[u].pc = "stopping" /\ thr[u].s = q
                 /\ session'[q].state = "RELEASING" => main'.pc = "unmap" /\ main'.s = q
      <3>1. CASE q = s
        BY <1>3, <1>4, <3>1
      <3>2. CASE q # s
        <4>1. session'[q] = session[q] /\ session[q].state # "RELEASING"
          BY <1>2, <1>3, <1>8, <3>2 DEF Attended
        <4>2. QED
          BY <4>1 DEF Attended
      <3>3. QED
        BY <3>1, <3>2
    <2>2. QED
      BY <1>2, <1>8, <2>1 DEF Attended
  <1>11. Owned'
    BY <1>2, <1>3 DEF Owned, Kept, Creates
  <1>12. ASSUME NEW q \in DOMAIN session
         PROVE  /\ TakenByMain(q)' <=> q = s
                /\ ~TakenByMain(q)
                /\ \A u \in Workers : TakenBy(u, q)' <=> TakenBy(u, q)
                /\ Leaving(q)' <=> Leaving(q) \/ q = s
                /\ Closing(q)' <=> Closing(q)
                /\ \A u \in Workers : thr'[u].pc = "byIndex" /\ thr'[u].s = q
                                     <=> thr[u].pc = "byIndex" /\ thr[u].s = q
    BY <1>2, <1>4 DEF TakenByMain, TakenBy, Leaving, Closing
  <1>13. Counted' /\ Orderly'
    <2>1. Taken(s)'
      BY <1>12 DEF Taken
    <2>2. \A q \in DOMAIN session :
            /\ session'[q].open = session[q].open
            /\ q # s => session'[q].releases = session[q].releases
      BY <1>3
    <2>3. session'[s].releases = session[s].releases + 1 /\ Kept
      BY <1>3
    <2>4. \A u \in Creating : thr'[u].idx = thr[u].idx
      BY <1>2
    <2>5. \A u \in Workers : TakenBy(u, s)' /\ TakenByMain(s)' => TakenBy(u, s) \/ TakenByMain(s)
      BY <1>12
    <2>6. QED
      BY <1>2, <1>6, <1>12, <2>1, <2>2, <2>3, <2>4, <2>5, TakeOrder
  <1>14. QED
    BY <1>5, <1>7, <1>9, <1>10, <1>11, <1>13

(****************************************************************************)
(* A session leaves the table of descriptors                                *)
(****************************************************************************)
LEMMA Unmapped ==
  ASSUME IInv, NEW s \in DOMAIN session, Unmap(s)
  PROVE  /\ sessionsByFd' \in [Fds -> 0 .. Len(session)]
         /\ Registered' \subseteq Registered /\ s \notin Registered'
         /\ \A f \in Fds : sessionsByFd'[f] = IF f = session[s].fd THEN None ELSE sessionsByFd[f]
  <1> USE DEF IInv
  <1>1. session[s].fd \in Fds /\ Len(session) \in Nat
    BY Shape DEF SessionSet
  <1>2. \A f \in Fds : sessionsByFd'[f] = IF f = session[s].fd THEN None ELSE sessionsByFd[f]
    BY <1>1 DEF Unmap, TypeOK
  <1>3. sessionsByFd' \in [Fds -> 0 .. Len(session)]
    BY <1>1 DEF Unmap, TypeOK, None
  <1>4. \A f \in Fds : sessionsByFd[f] = s /\ s # None => f = session[s].fd
    BY DEF Keyed
  <1>5. QED
    BY <1>2, <1>3, <1>4 DEF Registered

LEMMA UnmapOrder ==
  ASSUME IInv, NEW s \in DOMAIN session, Unmap(s), Leaving(s),
         UNCHANGED <<session, sessionsByIndex, reservedIndices>>,
         Creating' = Creating, \A u \in Creating : thr'[u].idx = thr[u].idx,
         \A q \in DOMAIN session :
           /\ TakenByMain(q)' <=> TakenByMain(q)
           /\ \A u \in Workers : TakenBy(u, q)' <=> TakenBy(u, q)
           /\ Leaving(q)' <=> Leaving(q)
           /\ Closing(q) => Closing(q)'
           /\ \A u \in Workers : thr'[u].pc = "byIndex" /\ thr'[u].s = q
                                <=> thr[u].pc = "byIndex" /\ thr[u].s = q,
         Closing(s)'
  PROVE  Counted' /\ Orderly'
  <1> USE DEF IInv
  <1>1. \A q \in DOMAIN session :
          (Taken(q)' <=> Taken(q)) /\ (Live(q)' <=> Live(q)) /\ (Counts(q)' <=> Counts(q))
    BY DEF Taken, Live, Counts
  <1>2. Counted'
    BY <1>1, Unmapped DEF Counted
  <1>3. SUFFICES ASSUME Disjoint PROVE OneTaker' /\ OneOwner' /\ Indexed'
    BY <1>2 DEF Orderly, Disjoint
  <1>4. OneTaker /\ OneOwner /\ Indexed
    BY <1>3 DEF Orderly
  <1>5. OneTaker'
    <2>1. ASSUME NEW q \in DOMAIN session, session[q].open
          PROVE  sessionsByFd'[session[q].fd] = q \/ Closing(q)'
      <3>1. CASE q = s
        BY <3>1
      <3>2. CASE q # s
        <4>1. session[s].open
          BY <1>4 DEF OneTaker
        <4>2. session[q].fd # session[s].fd
          BY <2>1, <3>2, <4>1 DEF Owned
        <4>3. session[q].fd \in Fds
          BY Shape DEF SessionSet
        <4>4. sessionsByFd'[session[q].fd] = sessionsByFd[session[q].fd]
          BY <4>2, <4>3, Unmapped
        <4>5. QED
          BY <1>4, <2>1, <4>4 DEF OneTaker
      <3>3. QED
        BY <3>1, <3>2
    <2>2. QED
      BY <1>4, <2>1 DEF OneTaker
  <1>6. OneOwner'
    BY <1>1, <1>4 DEF OneOwner
  <1>7. Indexed'
    BY <1>1, <1>4, Shape DEF Indexed, Exists
  <1>8. QED
    BY <1>5, <1>6, <1>7

LEMMA RecoveryUnmaps ==
  ASSUME IInv, NEW t \in Workers, RecoveryUnmap(t)
  PROVE  IInv'
  <1> USE DEF IInv
  <1>1. thr[t] \in ThreadSet /\ SoundRecord(thr[t]) /\ thr[t].pc = "unmap"
    BY DEF TypeOK, Sound, RecoveryUnmap
  <1>2. PICK s \in DOMAIN session : s = thr[t].s /\ thr[t].s0 # None
    BY <1>1 DEF SoundRecord, WorkerPcs, StartPcs, Exists
  <1> DEFINE r == [thr[t] EXCEPT !.pc = "close"]
  <1>3. r \in ThreadSet /\ r.pc = "close" /\ r.s = s /\ r.s0 = thr[t].s0 /\ Becomes(t, r)
    BY <1>1, <1>2 DEF ThreadSet, WorkerPcs, RecoveryUnmap, Step, Becomes
  <1> HIDE DEF r
  <1>4. SoundRecord(r)
    BY <1>2, <1>3 DEF SoundRecord, Exists
  <1>5. /\ Kept /\ StatesOnly /\ Unmap(s)
        /\ UNCHANGED <<bus, opened, session, sessionsByIndex, reservedIndices,
                       initializingDevices, main, todo, userCalls>>
    BY <1>2, Unedited DEF RecoveryUnmap
  <1>6. \A u \in Workers : thr'[u] = IF u = t THEN r ELSE thr[u]
    BY <1>3, Moved
  <1>7. /\ sessionsByFd' \in [Fds -> 0 .. Len(session)]
        /\ Registered' \subseteq Registered /\ s \notin Registered'
        /\ \A f \in Fds : sessionsByFd'[f] = IF f = session[s].fd THEN None ELSE sessionsByFd[f]
    BY <1>5, Unmapped
  <1>8. /\ thr' \in [Workers -> ThreadSet'] /\ main' \in MainSet'
        /\ Creating' = Creating /\ Sound'
    BY <1>1, <1>3, <1>4, <1>5, SoundStep
  <1>9. TypeOK'
    BY <1>5, <1>7, <1>8 DEF TypeOK, bus, Kept
  <1>10. Keyed'
    BY <1>3, <1>5, <1>6, <1>7 DEF Keyed, Taking
  <1>11. Attended'
    BY <1>1, <1>2, <1>3, <1>5, <1>7, AttendedStep DEF StartPcs
  <1>12. Owned'
    <2>1. \A u \in Workers : (Creates(u)' <=> Creates(u)) /\ (Creates(u) => thr'[u].fd = thr[u].fd)
      BY <1>1, <1>3, <1>6 DEF Creates
    <2>2. QED
      BY <1>5, <2>1 DEF Owned
  <1>13. ASSUME NEW q \in DOMAIN session
         PROVE  /\ TakenByMain(q)' <=> TakenByMain(q)
                /\ \A u \in Workers : TakenBy(u, q)' <=> TakenBy(u, q)
                /\ Leaving(q)' <=> Leaving(q)
                /\ Closing(q)' <=> Closing(q) \/ q = s
                /\ \A u \in Workers : thr'[u].pc = "byIndex" /\ thr'[u].s = q
                                     <=> thr[u].pc = "byIndex" /\ thr[u].s = q
    <2>1. ASSUME NEW u \in Workers
          PROVE  /\ TakenBy(u, q)' <=> TakenBy(u, q)
                 /\ thr'[u].s = q /\ thr'[u].pc \in {"unmap", "close"}
                    <=> thr[u].s = q /\ thr[u].pc \in {"unmap", "close"}
                 /\ thr'[u].s = q /\ thr'[u].pc = "close"
                    <=> (thr[u].s = q /\ thr[u].pc = "close") \/ (u = t /\ q = s)
                 /\ thr'[u].pc = "byIndex" /\ thr'[u].s = q
                    <=> thr[u].pc = "byIndex" /\ thr[u].s = q
      BY <1>1, <1>2, <1>3, <1>6 DEF TakenBy, Taking
    <2>2. QED
      BY <1>5, <2>1 DEF TakenByMain, Leaving, Closing
  <1>14. Counted' /\ Orderly'
    <2>1. Leaving(s) /\ Closing(s)'
      BY <1>1, <1>2, <1>13 DEF Leaving
    <2>2. \A u \in Creating : thr'[u].idx = thr[u].idx
      BY <1>1, <1>6 DEF Creating
    <2>3. QED
      BY <1>5, <1>8, <1>13, <2>1, <2>2, UnmapOrder
  <1>15. QED
    BY <1>8, <1>9, <1>10, <1>11, <1>12, <1>14

LEMMA MainUnmaps ==
  ASSUME IInv, MainUnmap
  PROVE  IInv'
  <1> USE DEF IInv
  <1>1. PICK s \in DOMAIN session : s = main.s
    BY DEF Sound, MainUnmap, Exists
  <1>2. /\ Kept /\ StatesOnly /\ Unmap(s) /\ main.pc = "unmap" /\ main \in MainSet
        /\ main' = [main EXCEPT !.pc = "close"]
        /\ UNCHANGED <<bus, opened, session, sessionsByIndex, reservedIndices,
                       initializingDevices, thr, todo, userCalls>>
    BY <1>1, Unedited DEF MainUnmap, MainStep, TypeOK
  <1>3. main' \in MainSet /\ main'.pc = "close" /\ main'.s = s
    BY <1>1, <1>2 DEF MainSet, MainPcs
  <1>4. /\ thr' \in [Workers -> ThreadSet'] /\ Creating' = Creating
        /\ MainSet' = MainSet /\ \A u \in Workers : SoundRecord(thr[u])'
    BY <1>2, SameThreads
  <1>5. /\ sessionsByFd' \in [Fds -> 0 .. Len(session)]
        /\ Registered' \subseteq Registered /\ s \notin Registered'
        /\ \A f \in Fds : sessionsByFd'[f] = IF f = session[s].fd THEN None ELSE sessionsByFd[f]
    BY <1>2, Unmapped
  <1>6. TypeOK'
    BY <1>2, <1>3, <1>4, <1>5 DEF TypeOK, bus, Kept
  <1>7. Sound'
    BY <1>2, <1>3, <1>4 DEF Sound, Kept, Exists
  <1>8. Keyed'
    BY <1>2, <1>3, <1>5 DEF Keyed
  <1>9. Attended'
    BY <1>1, <1>2, <1>5 DEF Attended
  <1>10. Owned'
    BY <1>2 DEF Owned, Creates
  <1>11. ASSUME NEW q \in DOMAIN session
         PROVE  /\ TakenByMain(q)' <=> TakenByMain(q)
                /\ \A u \in Workers : TakenBy(u, q)' <=> TakenBy(u, q)
                /\ Leaving(q)' <=> Leaving(q)
                /\ Closing(q)' <=> Closing(q) \/ q = s
                /\ \A u \in Workers : thr'[u].pc = "byIndex" /\ thr'[u].s = q
                                     <=> thr[u].pc = "byIndex" /\ thr[u].s = q
    BY <1>1, <1>2, <1>3 DEF TakenByMain, TakenBy, Leaving, Closing
  <1>12. Counted' /\ Orderly'
    <2>1. Leaving(s) /\ Closing(s)'
      BY <1>1, <1>2, <1>11 DEF Leaving, TakenByMain
    <2>2. \A u \in Creating : thr'[u].idx = thr[u].idx
      BY <1>2
    <2>3. QED
      BY <1>2, <1>4, <1>11, <2>1, <2>2, UnmapOrder
  <1>13. QED
    BY <1>6, <1>7, <1>8, <1>9, <1>10, <1>12

(****************************************************************************)
(* A session leaves the table of indices, and its connection is closed      *)
(****************************************************************************)
LEMMA OwnedClosed ==
  ASSUME IInv, NEW s \in DOMAIN session, CloseConnection(s),
         \A u \in Workers : (Creates(u)' <=> Creates(u)) /\ (Creates(u) => thr'[u].fd = thr[u].fd)
  PROVE  Owned'
  <1> USE DEF IInv
  <1>1. /\ DOMAIN session' = DOMAIN session
        /\ \A q \in DOMAIN session :
             /\ session'[q].fd = session[q].fd
             /\ session'[q].open <=> session[q].open /\ q # s
        /\ \A f : f \in opened' <=> f \in opened /\ ~(session[s].open /\ f = session[s].fd)
    <2>1. \A q \in DOMAIN session : session[q].open \in BOOLEAN
      BY Shape DEF SessionSet
    <2>2. QED
      BY <2>1, Closed DEF Kept
  <1>2. \A q \in DOMAIN session' : session'[q].open => session'[q].fd \in opened'
    BY <1>1 DEF Owned
  <1>3. \A q, r \in DOMAIN session' :
          session'[r].open /\ session'[q].open /\ session'[r].fd = session'[q].fd => r = q
    BY <1>1 DEF Owned
  <1>4. \A u \in Workers : Creates(u)' =>
          /\ thr'[u].fd \in opened'
          /\ \A q \in DOMAIN session' : session'[q].open => session'[q].fd # thr'[u].fd
          /\ \A w \in Workers : Creates(w)' /\ thr'[w].fd = thr'[u].fd => w = u
    BY <1>1 DEF Owned
  <1>5. \A f \in opened' : \/ \E q \in DOMAIN session' : session'[q].open /\ session'[q].fd = f
                           \/ \E u \in Workers : Creates(u)' /\ thr'[u].fd = f
    BY <1>1 DEF Owned
  <1>6. QED
    BY <1>2, <1>3, <1>4, <1>5 DEF Owned

LEMMA Unindexed ==
  ASSUME IInv, NEW s \in DOMAIN session, Unindex(s)
  PROVE  /\ sessionsByIndex' \in [Indices -> 0 .. Len(session)]
         /\ \A i \in Indices :
              /\ sessionsByIndex'[i] \in {None, sessionsByIndex[i]}
              /\ sessionsByIndex'[i] # s
              /\ i # session[s].idx => sessionsByIndex'[i] = sessionsByIndex[i]
  <1> USE DEF IInv
  <1> DEFINE i == session[s].idx
             j == sessionsByIndex[i]
  <1>1. i \in Indices /\ Len(session) \in Nat /\ s # None
    BY Shape DEF SessionSet
  <1>2. sessionsByIndex \in [Indices -> 0 .. Len(session)]
    BY DEF TypeOK
  <1>3. \A k \in Indices : sessionsByIndex[k] = s => k = i
    BY <1>1 DEF Keyed
  <1>4. CASE j # None /\ session[j].fd = session[s].fd
    BY <1>1, <1>2, <1>3, <1>4 DEF Unindex, None
  <1>5. CASE ~(j # None /\ session[j].fd = session[s].fd)
    BY <1>1, <1>2, <1>3, <1>5 DEF Unindex
  <1>6. QED
    BY <1>4, <1>5

LEMMA CloseOrder ==
  ASSUME IInv, NEW s \in DOMAIN session, CloseConnection(s), Unindex(s), UNCHANGED sessionsByFd,
         Leaving(s), s \notin Registered,
         Creating' = Creating, \A u \in Creating : thr'[u].idx = thr[u].idx,
         \A q \in DOMAIN session :
           /\ TakenByMain(q)' => TakenByMain(q)
           /\ \A u \in Workers : TakenBy(u, q)' => TakenBy(u, q)
           /\ q # s => /\ Taken(q)' <=> Taken(q)
                       /\ Leaving(q)' <=> Leaving(q)
                       /\ Closing(q)' <=> Closing(q)
           /\ \A u \in Workers : thr'[u].pc = "byIndex" /\ thr'[u].s = q
                                <=> thr[u].pc = "byIndex" /\ thr[u].s = q,
         OneTaker => ~Leaving(s)',
         \/ UNCHANGED reservedIndices /\ Taken(s)'
         \/ /\ reservedIndices' = reservedIndices \ {session[s].idx}
            /\ OneTaker => ~Taken(s)'
  PROVE  Counted' /\ Orderly'
  <1> USE DEF IInv
  <1>1. /\ DOMAIN session' = DOMAIN session
        /\ \A q \in DOMAIN session :
             /\ session'[q].fd = session[q].fd /\ session'[q].idx = session[q].idx
             /\ session'[q].releases = session[q].releases
             /\ session'[q].open <=> session[q].open /\ q # s
    <2>1. \A q \in DOMAIN session : session[q].open \in BOOLEAN
      BY Shape DEF SessionSet
    <2>2. QED
      BY <2>1, Closed DEF Kept
  <1>2. Taken(s) /\ ~Live(s)
    <2>1. Taken(s)
      BY DEF Leaving, Taken, TakenBy, Taking
    <2>2. QED
      BY <2>1 DEF Counted
  <1>3. \A q \in DOMAIN session : (Live(q)' <=> Live(q)) /\ (Taken(q)' => Taken(q))
    BY <1>1 DEF Live, Taken
  <1>4. Counted'
    BY <1>1, <1>2, <1>3 DEF Counted, Registered
  <1>5. SUFFICES ASSUME Disjoint PROVE OneTaker' /\ OneOwner' /\ Indexed'
    BY <1>1, <1>4 DEF Orderly, Disjoint
  <1>6. OneTaker /\ OneOwner /\ Indexed
    BY <1>5 DEF Orderly
  <1>7. ~Leaving(s)'
    BY <1>6
  <1>8. OneTaker'
    <2>1. \A q \in DOMAIN session : Leaving(q)' => session'[q].open
      BY <1>1, <1>6, <1>7 DEF OneTaker
    <2>2. \A q \in DOMAIN session :
            session'[q].open => sessionsByFd'[session'[q].fd] = q \/ Closing(q)'
      BY <1>1, <1>6 DEF OneTaker
    <2>3. \A q \in DOMAIN session, u \in Workers : TakenBy(u, q)' =>
            ~TakenByMain(q)' /\ \A w \in Workers : TakenBy(w, q)' => w = u
      BY <1>6 DEF OneTaker
    <2>4. QED
      BY <1>1, <2>1, <2>2, <2>3 DEF OneTaker
  <1>9. Indexed'
    <2>1. ASSUME NEW i \in Indices, sessionsByIndex'[i] # None
          PROVE  Live(sessionsByIndex[i])' \/ Leaving(sessionsByIndex[i])'
      <3>1. sessionsByIndex'[i] = sessionsByIndex[i] /\ sessionsByIndex[i] # s
        BY <2>1, Unindexed
      <3>2. PICK q \in DOMAIN session : q = sessionsByIndex[i]
        BY <2>1, <3>1, Shape DEF Exists
      <3>3. Live(q) \/ Leaving(q)
        BY <1>6, <2>1, <3>1, <3>2 DEF Indexed
      <3>4. Live(q)' \/ Leaving(q)'
        BY <1>3, <3>1, <3>2, <3>3
      <3>5. q = sessionsByIndex'[i]
        BY <3>1, <3>2
      <3>6. QED
        BY <3>4, <3>5 DEF Live, Leaving, TakenByMain
    <2>2. ASSUME NEW q \in DOMAIN session, Live(q)'
          PROVE  \/ sessionsByIndex'[session'[q].idx] = q
                 \/ \E u \in Workers : thr'[u].pc = "byIndex" /\ thr'[u].s = q
      <3>1. Live(q) /\ q # s
        BY <1>2, <1>3, <2>2
      <3>2. session[q].idx # session[s].idx /\ session[q].idx \in Indices
        BY <1>2, <1>6, <3>1, Shape DEF OneOwner, Counts, SessionSet
      <3>3. sessionsByIndex'[session[q].idx] = sessionsByIndex[session[q].idx]
        BY <3>2, Unindexed
      <3>4. QED
        BY <1>1, <1>6, <3>1, <3>3 DEF Indexed
    <2>3. QED
      BY <1>1, <2>1, <2>2 DEF Indexed
  <1>10. OneOwner'
    <2>1. CASE UNCHANGED reservedIndices /\ Taken(s)'
      <3>1. \A q \in DOMAIN session : Counts(q)' <=> Counts(q)
        <4>1. ASSUME NEW q \in DOMAIN session, q = s PROVE Counts(q)' /\ Counts(q)
          BY <1>2, <2>1, <4>1 DEF Counts, Taken, TakenBy, TakenByMain
        <4>2. QED
          BY <1>3, <4>1 DEF Counts
      <3>2. QED
        BY <1>1, <1>6, <2>1, <3>1 DEF OneOwner
    <2>2. CASE /\ reservedIndices' = reservedIndices \ {session[s].idx}
               /\ OneTaker => ~Taken(s)'
      <3>1. \A q \in DOMAIN session : Counts(q)' <=> Counts(q) /\ q # s
        <4>1. ASSUME NEW q \in DOMAIN session, q = s PROVE ~Counts(q)'
          BY <1>2, <1>3, <1>6, <2>2, <4>1 DEF Counts, Taken, TakenBy, TakenByMain
        <4>2. QED
          BY <1>3, <4>1 DEF Counts
      <3>2. Counts(s)
        BY <1>2 DEF Counts
      <3>3. QED
        BY <1>1, <1>6, <2>2, <3>1, <3>2 DEF OneOwner
    <2>3. QED
      BY <2>1, <2>2
  <1>11. QED
    BY <1>8, <1>9, <1>10

LEMMA RecoveryCloses ==
  ASSUME IInv, NEW t \in Workers, RecoveryClose(t)
  PROVE  IInv'
  <1> USE DEF IInv
  <1>1. thr[t] \in ThreadSet /\ SoundRecord(thr[t]) /\ thr[t].pc = "close"
    BY DEF TypeOK, Sound, RecoveryClose
  <1>2. PICK s \in DOMAIN session : s = thr[t].s /\ thr[t].s0 # None
    BY <1>1 DEF SoundRecord, WorkerPcs, StartPcs, Exists
  <1> DEFINE r == [thr[t] EXCEPT !.pc = "reopen"]
  <1>3. r \in ThreadSet /\ r.pc = "reopen" /\ r.s = s /\ r.s0 = thr[t].s0 /\ Becomes(t, r)
    BY <1>1, <1>2 DEF ThreadSet, WorkerPcs, RecoveryClose, Step, Becomes
  <1> HIDE DEF r
  <1>4. SoundRecord(r)
    BY <1>2, <1>3 DEF SoundRecord, Exists
  <1>5. /\ CloseConnection(s) /\ Unindex(s)
        /\ UNCHANGED <<bus, sessionsByFd, reservedIndices, initializingDevices, main, todo,
                       userCalls>>
    BY <1>2 DEF RecoveryClose
  <1>6. /\ Kept /\ \A q \in DOMAIN session : session'[q].state = session[q].state
        /\ opened' \subseteq opened
    BY <1>5, Closed
  <1>7. \A u \in Workers : thr'[u] = IF u = t THEN r ELSE thr[u]
    BY <1>3, Moved
  <1>8. /\ thr' \in [Workers -> ThreadSet'] /\ main' \in MainSet'
        /\ Creating' = Creating /\ Sound'
    BY <1>1, <1>3, <1>4, <1>5, <1>6, SoundStep
  <1>9. /\ sessionsByIndex' \in [Indices -> 0 .. Len(session)]
        /\ \A i \in Indices : sessionsByIndex'[i] \in {None, sessionsByIndex[i]}
    BY <1>5, Unindexed
  <1>10. TypeOK'
    BY <1>5, <1>6, <1>8, <1>9 DEF TypeOK, bus, Kept
  <1>11. Registered' = Registered /\ Registered \subseteq DOMAIN session
    BY <1>5, Shape DEF Registered, Exists
  <1>12. Keyed'
    <2>1. \A f \in Fds : sessionsByFd'[f] # None => session'[sessionsByFd'[f]].fd = f
      BY <1>5, <1>6, Shape DEF Keyed, Kept, Exists
    <2>2. \A i \in Indices : sessionsByIndex'[i] # None => session'[sessionsByIndex'[i]].idx = i
      BY <1>6, <1>9, Shape DEF Keyed, Kept, Exists
    <2>3. \A u \in Workers : thr'[u].pc \in Taking \ {"unmap"} => thr'[u].s \notin Registered'
      BY <1>1, <1>2, <1>3, <1>7, <1>11 DEF Keyed, Taking
    <2>4. QED
      BY <1>5, <1>11, <2>1, <2>2, <2>3 DEF Keyed
  <1>13. Attended'
    BY <1>1, <1>2, <1>3, <1>5, <1>6, <1>11, AttendedStep DEF StartPcs
  <1>14. Owned'
    <2>1. \A u \in Workers : (Creates(u)' <=> Creates(u)) /\ (Creates(u) => thr'[u].fd = thr[u].fd)
      BY <1>1, <1>3, <1>7 DEF Creates
    <2>2. QED
      BY <1>5, <2>1, OwnedClosed
  <1>15. ASSUME NEW q \in DOMAIN session
         PROVE  /\ TakenByMain(q)' <=> TakenByMain(q)
                /\ \A u \in Workers : TakenBy(u, q)' <=> TakenBy(u, q)
                /\ Taken(q)' <=> Taken(q)
                /\ q # s => (Leaving(q)' <=> Leaving(q)) /\ (Closing(q)' <=> Closing(q))
                /\ \A u \in Workers : thr'[u].pc = "byIndex" /\ thr'[u].s = q
                                     <=> thr[u].pc = "byIndex" /\ thr[u].s = q
    <2>1. ASSUME NEW u \in Workers
          PROVE  /\ TakenBy(u, q)' <=> TakenBy(u, q)
                 /\ q # s => (thr'[u].s = q /\ thr'[u].pc \in {"unmap", "close"}
                              <=> thr[u].s = q /\ thr[u].pc \in {"unmap", "close"})
                 /\ q # s => (thr'[u].s = q /\ thr'[u].pc = "close"
                              <=> thr[u].s = q /\ thr[u].pc = "close")
                 /\ thr'[u].pc = "byIndex" /\ thr'[u].s = q
                    <=> thr[u].pc = "byIndex" /\ thr[u].s = q
      BY <1>1, <1>2, <1>3, <1>7 DEF TakenBy, Taking
    <2>2. QED
      BY <1>5, <2>1 DEF TakenByMain, Leaving, Closing, Taken
  <1>16. Counted' /\ Orderly'
    <2>1. Leaving(s) /\ TakenBy(t, s) /\ Taken(s)' /\ s \notin Registered
      BY <1>1, <1>2, <1>15 DEF Leaving, Taken, TakenBy, Taking, Keyed
    <2>2. \A u \in Creating : thr'[u].idx = thr[u].idx
      BY <1>1, <1>7 DEF Creating
    <2>3. OneTaker => ~Leaving(s)'
      <3>1. SUFFICES ASSUME OneTaker PROVE ~Leaving(s)'
        OBVIOUS
      <3>2. ~TakenByMain(s)' /\ \A u \in Workers : TakenBy(u, s)' => u = t
        BY <1>15, <2>1, <3>1 DEF OneTaker
      <3>3. \A u \in Workers : ~(thr'[u].s = s /\ thr'[u].pc \in {"unmap", "close"})
        BY <1>3, <1>7, <3>2 DEF TakenBy, Taking
      <3>4. QED
        BY <3>2, <3>3 DEF Leaving
    <2>4. QED
      BY <1>5, <1>8, <1>15, <2>1, <2>2, <2>3, CloseOrder
  <1>17. QED
    BY <1>8, <1>10, <1>12, <1>13, <1>14, <1>16

LEMMA MainCloses ==
  ASSUME IInv, MainClose
  PROVE  IInv'
  <1> USE DEF IInv
  <1>1. PICK s \in DOMAIN session : s = main.s
    BY DEF Sound, MainClose, Exists
  <1>2. /\ CloseConnection(s) /\ Unindex(s) /\ main.pc = "close" /\ main \in MainSet
        /\ main' = [main EXCEPT !.pc = "idle", !.s = None]
        /\ reservedIndices' = reservedIndices \ {session[s].idx}
        /\ todo' \subseteq todo
        /\ UNCHANGED <<bus, sessionsByFd, initializingDevices, thr, userCalls>>
    BY <1>1 DEF MainClose, TypeOK
  <1>3. main' \in MainSet /\ main'.pc = "idle"
    <2>1. None \in 0 .. Len(session)
      BY Shape DEF None
    <2>2. QED
      BY <1>2, <2>1 DEF MainSet, MainPcs
  <1>4. /\ Kept /\ \A q \in DOMAIN session : session'[q].state = session[q].state
        /\ opened' \subseteq opened
    BY <1>2, Closed
  <1>5. /\ thr' \in [Workers -> ThreadSet'] /\ Creating' = Creating
        /\ MainSet' = MainSet /\ \A u \in Workers : SoundRecord(thr[u])'
    BY <1>2, <1>4, SameThreads
  <1>6. /\ sessionsByIndex' \in [Indices -> 0 .. Len(session)]
        /\ \A i \in Indices : sessionsByIndex'[i] \in {None, sessionsByIndex[i]}
    BY <1>2, Unindexed
  <1>7. TypeOK'
    BY <1>2, <1>3, <1>4, <1>5, <1>6 DEF TypeOK, bus, Kept
  <1>8. Sound'
    BY <1>3, <1>4, <1>5 DEF Sound, Kept
  <1>9. Registered' = Registered /\ Registered \subseteq DOMAIN session
    BY <1>2, Shape DEF Registered, Exists
  <1>10. Keyed'
    <2>1. \A f \in Fds : sessionsByFd'[f] # None => session'[sessionsByFd'[f]].fd = f
      BY <1>2, <1>4, Shape DEF Keyed, Kept, Exists
    <2>2. \A i \in Indices : sessionsByIndex'[i] # None => session'[sessionsByIndex'[i]].idx = i
      BY <1>4, <1>6, Shape DEF Keyed, Kept, Exists
    <2>3. QED
      BY <1>2, <1>3, <1>9, <2>1, <2>2 DEF Keyed
  <1>11. Attended'
    BY <1>2, <1>4, <1>9 DEF Attended
  <1>12. Owned'
    BY <1>2, OwnedClosed DEF Creates
  <1>13. ASSUME NEW q \in DOMAIN session
         PROVE  /\ ~TakenByMain(q)'
                /\ \A u \in Workers : TakenBy(u, q)' <=> TakenBy(u, q)
                /\ q # s => /\ Taken(q)' <=> Taken(q)
                            /\ Leaving(q)' <=> Leaving(q)
                            /\ Closing(q)' <=> Closing(q)
                /\ \A u \in Workers : thr'[u].pc = "byIndex" /\ thr'[u].s = q
                                     <=> thr[u].pc = "byIndex" /\ thr[u].s = q
    BY <1>1, <1>2, <1>3 DEF TakenByMain, TakenBy, Leaving, Closing, Taken
  <1>14. Counted' /\ Orderly'
    <2>1. Leaving(s) /\ TakenByMain(s) /\ s \notin Registered
      BY <1>1, <1>2 DEF Leaving, TakenByMain, Keyed
    <2>2. \A u \in Creating : thr'[u].idx = thr[u].idx
      BY <1>2
    <2>3. OneTaker => ~Taken(s)' /\ ~Leaving(s)'
      <3>1. SUFFICES ASSUME OneTaker PROVE ~Taken(s)' /\ ~Leaving(s)'
        OBVIOUS
      <3>2. ~TakenByMain(s)' /\ \A u \in Workers : ~TakenBy(u, s)'
        BY <1>13, <2>1, <3>1 DEF OneTaker
      <3>3. QED
        BY <3>2 DEF Taken, Leaving, TakenBy, Taking
    <2>4. QED
      BY <1>2, <1>5, <1>13, <2>1, <2>2, <2>3, CloseOrder
  <1>15. QED
    BY <1>7, <1>8, <1>10, <1>11, <1>12, <1>14

(****************************************************************************)
(* A session is created: first under its descriptor ...                     *)
(****************************************************************************)
LEMMA Registers ==
  ASSUME IInv, NEW t \in Workers, RegisterByFd(t)
  PROVE  IInv'
  <1> USE DEF IInv
  <1>1. /\ thr[t] \in ThreadSet /\ SoundRecord(thr[t]) /\ Creates(t)
        /\ thr[t].fd \in Fds /\ thr[t].dev \in Devices /\ thr[t].idx \in Indices
        /\ thr[t].pc = "byFd" \/ (thr[t].pc = "formats" /\ thr[t].s # None /\ Room)
    BY DEF TypeOK, Sound, SoundRecord, RegisterByFd, Creates, ThreadSet
  <1>2. PICK f \in Fds, i \in Indices : f = thr[t].fd /\ i = thr[t].idx
    BY <1>1
  <1>3. PICK n \in Nat : n = Len(session) + 1
    BY Shape
  <1> DEFINE e == [dev |-> thr[t].dev, fd |-> f, idx |-> i,
                   state |-> "IDLE", open |-> TRUE, releases |-> 0]
             r == [thr[t] EXCEPT !.pc = "byIndex", !.s = n]
  <1>4. e \in SessionSet
    BY <1>1, <1>2 DEF SessionSet, States
  <1>5. /\ session' = Append(session, e)
        /\ sessionsByFd' = [sessionsByFd EXCEPT ![f] = n]
        /\ Becomes(t, r)
        /\ UNCHANGED <<bus, opened, sessionsByIndex, reservedIndices, initializingDevices,
                       main, todo, userCalls>>
    BY <1>2, <1>3 DEF RegisterByFd, Becomes
  <1>6. /\ session' \in Seq(SessionSet) /\ Len(session') = n /\ DOMAIN session' = 1 .. n
        /\ n \notin DOMAIN session /\ DOMAIN session' = DOMAIN session \cup {n}
        /\ \A q \in DOMAIN session : session'[q] = session[q]
        /\ session'[n] = e
    <2>1. session \in Seq(SessionSet)
      BY DEF TypeOK
    <2>2. /\ session' \in Seq(SessionSet) /\ Len(session') = n
          /\ \A q \in 1 .. Len(session) : session'[q] = session[q]
          /\ session'[n] = e
      BY <1>3, <1>4, <1>5, <2>1, AppendProperties
    <2>3. DOMAIN session' = 1 .. n
      BY <2>2
    <2>4. QED
      BY <1>3, <2>2, <2>3, Shape
  <1>7. r.pc = "byIndex" /\ r.s = n /\ r.s0 = thr[t].s0 /\ r.idx = i /\ r \in ThreadSet'
    <2>1. r.pc = "byIndex" /\ r.s = n /\ r.s0 = thr[t].s0 /\ r.idx = i
      BY <1>1, <1>2 DEF ThreadSet
    <2>2. n \in 0 .. n /\ 0 .. Len(session) \subseteq 0 .. n /\ ThreadSet \subseteq ThreadSet'
      BY <1>3, <1>6, Shape DEF ThreadSet
    <2>3. \A q \in ThreadSet' : [q EXCEPT !.pc = "byIndex", !.s = n] \in ThreadSet'
      BY <1>6, <2>2 DEF ThreadSet, WorkerPcs
    <2>4. QED
      BY <1>1, <2>1, <2>2, <2>3
  <1>8. \A u \in Workers : thr'[u] = IF u = t THEN r ELSE thr[u]
    BY <1>5 DEF Becomes, TypeOK
  <1>9. /\ e.fd = f /\ e.idx = i /\ e.state = "IDLE" /\ e.open = TRUE /\ e.releases = 0
        /\ session[n] = session[n]
    OBVIOUS
  <1> HIDE DEF e, r
  <1>10. /\ ThreadSet \subseteq ThreadSet' /\ MainSet \subseteq MainSet'
         /\ 0 .. Len(session) \subseteq 0 .. n /\ n \in 0 .. n
    BY <1>3, <1>6, Shape DEF ThreadSet, MainSet
  <1>11. /\ n <= MaxSessions /\ n + Cardinality(Creating') <= MaxSessions
         /\ \A u \in Creating' : u # t /\ u \in Creating
         /\ \A u \in Creating : u # t => u \in Creating'
    <2>1. Len(session) + Cardinality(Creating) <= MaxSessions
      BY DEF Sound
    <2>2. CASE thr[t].pc = "byFd"
      <3>1. Creating' = Creating \ {t} /\ t \in Creating
        BY <1>7, <1>8, <2>2 DEF Creating
      <3>2. Cardinality(Creating') = Cardinality(Creating) - 1
        BY <3>1, Shape, FS_RemoveElement
      <3>3. Cardinality(Creating') \in Nat
        BY <3>1, Shape, FS_RemoveElement, FS_CardinalityType
      <3>4. QED
        BY <1>3, <2>1, <3>1, <3>2, <3>3, Shape
    <2>3. CASE thr[t].pc = "formats" /\ Room
      <3>1. Creating' = Creating /\ t \notin Creating
        BY <1>7, <1>8, <2>3 DEF Creating
      <3>2. QED
        BY <1>3, <2>3, <3>1, Shape DEF Room
    <2>4. QED
      BY <1>1, <2>2, <2>3
  <1>12. TypeOK'
    <2>1. thr' \in [Workers -> ThreadSet']
      BY <1>5, <1>7, <1>10 DEF TypeOK, Becomes
    <2>2. /\ sessionsByFd' \in [Fds -> 0 .. Len(session')]
          /\ sessionsByIndex' \in [Indices -> 0 .. Len(session')]
          /\ main' \in MainSet'
      BY <1>5, <1>6, <1>10 DEF TypeOK
    <2>3. QED
      BY <1>5, <1>6, <1>11, <2>1, <2>2 DEF TypeOK, bus
  <1>13. Sound'
    <2>1. ASSUME NEW u \in Workers, NEW q, q = thr[u], SoundRecord(q)
          PROVE  SoundRecord(q)'
      <3>1. q.pc \in WorkerPcs /\ q.s \in 0 .. Len(session)
        BY <2>1 DEF TypeOK, ThreadSet
      <3>2. q.s # None => Exists(q.s)
        BY <3>1, Shape DEF Exists, None
      <3>3. Exists(q.s) => Exists(q.s)' /\ session'[q.s].idx = session[q.s].idx
        BY <1>6 DEF Exists
      <3>4. QED
        BY <2>1, <3>1, <3>2, <3>3 DEF SoundRecord, Exists, WorkerPcs
    <2>2. ASSUME NEW u \in Workers, u # t PROVE SoundRecord(thr[u])'
      <3>1. PICK q : q = thr[u] /\ q = thr'[u]
        BY <1>8, <2>2
      <3>2. SoundRecord(q)'
        BY <2>1, <3>1 DEF Sound
      <3>3. QED
        BY <3>1, <3>2 DEF SoundRecord, Exists
    <2>3. SoundRecord(thr[t])'
      BY <1>6, <1>7, <1>8, <1>9 DEF SoundRecord, Exists, StartPcs
    <2>4. main'.pc \in {"unmap", "close"} => Exists(main.s)'
      BY <1>5, <1>6 DEF Sound, Exists
    <2>5. QED
      BY <1>5, <1>6, <1>11, <2>2, <2>3, <2>4 DEF Sound
  <1>14. Registered' \subseteq Registered \cup {n} /\ Registered \subseteq DOMAIN session
    <2>1. \A g \in Fds : sessionsByFd'[g] = IF g = f THEN n ELSE sessionsByFd[g]
      BY <1>5 DEF TypeOK
    <2>2. QED
      BY <2>1, Shape DEF Registered, Exists
  <1>15. Keyed'
    <2>1. \A g \in Fds : sessionsByFd'[g] # None => session'[sessionsByFd'[g]].fd = g
      <3>1. \A g \in Fds : sessionsByFd'[g] = IF g = f THEN n ELSE sessionsByFd[g]
        BY <1>5 DEF TypeOK
      <3>2. QED
        BY <1>6, <1>9, <3>1, Shape DEF Keyed, Exists
    <2>2. \A k \in Indices : sessionsByIndex'[k] # None => session'[sessionsByIndex'[k]].idx = k
      BY <1>5, <1>6, Shape DEF Keyed, Exists
    <2>3. ASSUME NEW u \in Workers, thr'[u].pc \in Taking \ {"unmap"}
          PROVE  thr'[u].s \notin Registered'
      <3>1. u # t /\ thr'[u] = thr[u]
        BY <1>7, <1>8, <2>3 DEF Taking
      <3>2. thr[u].s # n
        BY <1>3, Shape DEF TypeOK, ThreadSet
      <3>3. QED
        BY <1>14, <2>3, <3>1, <3>2 DEF Keyed
    <2>4. main'.pc = "close" => main'.s \notin Registered'
      BY <1>3, <1>5, <1>14, Shape DEF Keyed, TypeOK, MainSet
    <2>5. QED
      BY <2>1, <2>2, <2>3, <2>4 DEF Keyed
  <1>16. Attended'
    <2>1. ASSUME NEW q \in Registered, session[q].state = "STARTING"
          PROVE  \E u \in Workers : /\ thr'[u].pc \in StartPcs /\ thr'[u].s0 # None
                                    /\ q \in {thr'[u].s, thr'[u].s0}
      <3>1. PICK u \in Workers : /\ thr[u].pc \in StartPcs /\ thr[u].s0 # None
                                 /\ q \in {thr[u].s, thr[u].s0}
        BY <2>1 DEF Attended
      <3>2. CASE u = t
        <4>1. thr[t].pc = "formats" /\ thr[t].s \notin Registered
          BY <1>1, <3>1, <3>2 DEF StartPcs, Keyed, Taking
        <4>2. q = thr[t].s0 /\ thr[t].s0 # None
          BY <2>1, <3>1, <3>2, <4>1
        <4>3. QED
          BY <1>7, <1>8, <4>2 DEF StartPcs
      <3>3. CASE u # t
        BY <1>8, <3>1, <3>3
      <3>4. QED
        BY <3>2, <3>3
    <2>2. ASSUME NEW q \in Registered, session[q].state = "STOPPING"
          PROVE  \E u \in Workers : thr'[u].pc = "stopping" /\ thr'[u].s = q
      <3>1. PICK u \in Workers : thr[u].pc = "stopping" /\ thr[u].s = q
        BY <2>2 DEF Attended
      <3>2. u # t
        BY <1>1, <3>1
      <3>3. QED
        BY <1>8, <3>1, <3>2
    <2>3. \A q \in Registered : session[q].state = "RELEASING" => main'.pc = "unmap" /\ main'.s = q
      BY <1>5 DEF Attended
    <2>4. \A q \in Registered : session'[q].state = session[q].state
      BY <1>6, <1>14
    <2>5. session'[n].state = "IDLE"
      BY <1>6, <1>9
    <2>6. QED
      BY <1>14, <2>1, <2>2, <2>3, <2>4, <2>5 DEF Attended
  <1>17. /\ \A u \in Workers : Creates(u)' <=> Creates(u) /\ u # t
         /\ \A u \in Workers : u # t => thr'[u] = thr[u]
    BY <1>7, <1>8 DEF Creates
  <1>18. /\ \A q \in DOMAIN session : session[q].open => session[q].fd # f
         /\ \A u \in Workers : Creates(u) /\ u # t => thr[u].fd # f
         /\ f \in opened
    BY <1>1, <1>2 DEF Owned
  <1>19. Owned'
    <2>1. \A q \in DOMAIN session' : session'[q].open => session'[q].fd \in opened'
      BY <1>5, <1>6, <1>9, <1>18 DEF Owned
    <2>2. \A p, q \in DOMAIN session' :
            session'[p].open /\ session'[q].open /\ session'[p].fd = session'[q].fd => p = q
      <3>1. SUFFICES ASSUME NEW p \in DOMAIN session', NEW q \in DOMAIN session',
                            session'[p].open, session'[q].open,
                            session'[p].fd = session'[q].fd, p # q
                     PROVE  FALSE
        OBVIOUS
      <3>2. p # n /\ q # n
        BY <1>6, <1>9, <1>18, <3>1
      <3>3. QED
        BY <1>6, <3>1, <3>2 DEF Owned
    <2>3. \A u \in Workers : Creates(u)' =>
            /\ thr'[u].fd \in opened'
            /\ \A q \in DOMAIN session' : session'[q].open => session'[q].fd # thr'[u].fd
            /\ \A w \in Workers : Creates(w)' /\ thr'[w].fd = thr'[u].fd => w = u
      BY <1>5, <1>6, <1>9, <1>17, <1>18 DEF Owned
    <2>4. \A g \in opened' : \/ \E q \in DOMAIN session' : session'[q].open /\ session'[q].fd = g
                             \/ \E u \in Workers : Creates(u)' /\ thr'[u].fd = g
      BY <1>2, <1>5, <1>6, <1>9, <1>17 DEF Owned
    <2>5. QED
      BY <2>1, <2>2, <2>3, <2>4 DEF Owned
  <1>20. ASSUME NEW q \in DOMAIN session
         PROVE  /\ TakenByMain(q)' <=> TakenByMain(q)
                /\ \A u \in Workers : TakenBy(u, q)' <=> TakenBy(u, q) /\ u # t
                /\ Leaving(q)' <=> Leaving(q)
                /\ Closing(q)' <=> Closing(q)
                /\ Live(q)' <=> Live(q)
                /\ Taken(q)' => Taken(q)
                /\ \A u \in Workers : thr[u].pc = "byIndex" /\ thr[u].s = q
                                     => thr'[u].pc = "byIndex" /\ thr'[u].s = q
    <2>1. q # n
      BY <1>6
    <2>2. ASSUME NEW u \in Workers
          PROVE  /\ TakenBy(u, q)' <=> TakenBy(u, q) /\ u # t
                 /\ \A pc \in {"unmap", "close"} :
                      thr'[u].s = q /\ thr'[u].pc = pc <=> thr[u].s = q /\ thr[u].pc = pc
                 /\ thr[u].pc = "byIndex" /\ thr[u].s = q
                    => thr'[u].pc = "byIndex" /\ thr'[u].s = q
      BY <1>1, <1>7, <1>8, <2>1 DEF TakenBy, Taking
    <2>3. QED
      BY <1>5, <1>6, <2>2 DEF TakenByMain, Leaving, Closing, Taken, Live
  \* Nobody takes the new session down yet.
  <1>21. /\ ~TakenByMain(n)' /\ ~Leaving(n)' /\ ~Taken(n)' /\ Live(n)'
         /\ \A u \in Workers : ~TakenBy(u, n)'
    <2>1. main.s # n /\ main'.s # n
      BY <1>3, <1>5, Shape DEF TypeOK, MainSet
    <2>2. \A u \in Workers : thr[u].s # n
      BY <1>3, Shape DEF TypeOK, ThreadSet
    <2>3. \A u \in Workers : thr'[u].s = n => thr'[u].pc = "byIndex"
      BY <1>7, <1>8, <2>2
    <2>4. Live(n)'
      BY <1>6, <1>9 DEF Live
    <2>5. QED
      BY <2>1, <2>3, <2>4 DEF TakenByMain, TakenBy, Taking, Leaving, Taken
  <1>22. Counted'
    BY <1>6, <1>9, <1>14, <1>20, <1>21 DEF Counted
  <1>23. ASSUME Disjoint' PROVE OneTaker' /\ OneOwner' /\ Indexed'
    <2>1. Disjoint
      BY <1>6, <1>23 DEF Disjoint
    <2>2. OneTaker /\ OneOwner /\ Indexed
      BY <2>1 DEF Orderly
    <2>3. OneTaker'
      <3>1. \A q \in DOMAIN session : Leaving(q)' => session'[q].open
        BY <1>6, <1>20, <2>2 DEF OneTaker
      <3>2. \A q \in DOMAIN session :
              session'[q].open => sessionsByFd'[session'[q].fd] = q \/ Closing(q)'
        <4>1. \A q \in DOMAIN session : session[q].open =>
                sessionsByFd'[session[q].fd] = sessionsByFd[session[q].fd]
          BY <1>5, <1>18, Shape DEF TypeOK, SessionSet
        <4>2. QED
          BY <1>6, <1>20, <2>2, <4>1 DEF OneTaker
      <3>3. sessionsByFd'[session'[n].fd] = n
        BY <1>5, <1>6, <1>9 DEF TypeOK
      <3>4. \A q \in DOMAIN session, u \in Workers : TakenBy(u, q)' =>
              ~TakenByMain(q)' /\ \A w \in Workers : TakenBy(w, q)' => w = u
        BY <1>20, <2>2 DEF OneTaker
      <3>5. QED
        <4>1. /\ Leaving(n)' => session'[n].open
              /\ session'[n].open => sessionsByFd'[session'[n].fd] = n \/ Closing(n)'
              /\ \A u \in Workers : TakenBy(u, n)' =>
                   ~TakenByMain(n)' /\ \A w \in Workers : TakenBy(w, n)' => w = u
          BY <1>21, <3>3
        <4>2. ASSUME NEW q \in DOMAIN session'
              PROVE  /\ Leaving(q)' => session'[q].open
                     /\ session'[q].open => sessionsByFd'[session'[q].fd] = q \/ Closing(q)'
                     /\ \A u \in Workers : TakenBy(u, q)' =>
                          ~TakenByMain(q)' /\ \A w \in Workers : TakenBy(w, q)' => w = u
          <5>1. CASE q = n
            BY <4>1, <5>1
          <5>2. CASE q \in DOMAIN session
            BY <3>1, <3>2, <3>4, <5>2
          <5>3. QED
            BY <1>6, <5>1, <5>2
        <4>3. QED
          BY <4>2 DEF OneTaker
    <2>4. Indexed'
      <3>1. ASSUME NEW k \in Indices, sessionsByIndex'[k] # None
            PROVE  Live(sessionsByIndex[k])' \/ Leaving(sessionsByIndex[k])'
        <4>1. PICK q \in DOMAIN session : q = sessionsByIndex[k] /\ q = sessionsByIndex'[k]
          BY <1>5, <3>1, Shape DEF Exists
        <4>2. Live(q) \/ Leaving(q)
          BY <1>5, <2>2, <3>1, <4>1 DEF Indexed
        <4>3. Live(q)' \/ Leaving(q)'
          BY <1>20, <4>2
        <4>4. QED
          BY <4>1, <4>3 DEF Live, Leaving, TakenByMain
      <3>2. \A q \in DOMAIN session :
              Live(q)' => \/ sessionsByIndex'[session'[q].idx] = q
                          \/ \E u \in Workers : thr'[u].pc = "byIndex" /\ thr'[u].s = q
        BY <1>5, <1>6, <1>20, <2>2 DEF Indexed
      <3>3. thr'[t].pc = "byIndex" /\ thr'[t].s = n
        BY <1>7, <1>8
      <3>4. QED
        BY <1>6, <3>1, <3>2, <3>3 DEF Indexed
    <2>5. Counts(n)' /\ session'[n].idx = i
      BY <1>6, <1>9, <1>21 DEF Counts
    <2>6. /\ \A p, q \in DOMAIN session :
               Counts(p) /\ Counts(q) /\ session[p].idx = session[q].idx => p = q
          /\ \A u \in Creating :
               /\ \A q \in DOMAIN session : Counts(q) => session[q].idx # thr[u].idx
               /\ \A w \in Creating : thr[w].idx = thr[u].idx => w = u
               /\ thr[u].idx \in reservedIndices
          /\ \A q \in DOMAIN session : Counts(q) => session[q].idx \in reservedIndices
          /\ \A k \in reservedIndices : \/ \E q \in DOMAIN session : Counts(q) /\ session[q].idx = k
                                        \/ \E u \in Creating : thr[u].idx = k
      BY <2>2 DEF OneOwner
    \* The new session takes over the index of who creates it: ...
    <2>7. /\ i \in reservedIndices
          /\ \A q \in DOMAIN session : /\ Counts(q)' => Counts(q) /\ session[q].idx # i
                                       /\ Counts(q) => Counts(q)' \/ session[q].idx = i
          /\ \A u \in Creating' : u \in Creating /\ thr'[u].idx = thr[u].idx /\ thr[u].idx # i
          /\ \A u \in Creating : u \in Creating' \/ thr[u].idx = i
      \* ... of a thread that has reserved one for a new camera, ...
      <3>1. CASE thr[t].pc = "byFd"
        <4>1. t \in Creating
          BY <3>1 DEF Creating
        <4>2. /\ \A q \in DOMAIN session : Counts(q) => session[q].idx # i
              /\ \A u \in Creating : thr[u].idx = i => u = t
              /\ i \in reservedIndices
          BY <1>2, <2>6, <4>1
        <4>3. \A q \in DOMAIN session : Counts(q)' <=> Counts(q)
          <5>1. \A q \in DOMAIN session : ~TakenBy(t, q)
            BY <3>1 DEF TakenBy, Taking
          <5>2. QED
            BY <1>20, <5>1 DEF Counts, Taken
        <4>4. QED
          <5>1. \A u \in Creating' : u \in Workers /\ u # t /\ u \in Creating /\ thr'[u] = thr[u]
            BY <1>11, <1>17 DEF Creating
          <5>2. \A u \in Creating : u # t => u \in Creating'
            BY <1>11
          <5>3. QED
            BY <1>2, <4>2, <4>3, <5>1, <5>2
      \* ... or of the session that a recovery replaces.
      <3>2. CASE thr[t].pc = "formats" /\ thr[t].s # None
        <4>1. PICK s \in DOMAIN session : s = thr[t].s
          <5>1. thr[t].s \in 0 .. Len(session)
            BY <1>1 DEF ThreadSet
          <5>2. QED
            BY <3>2, <5>1, Shape DEF None
        <4>2. session[s].idx = i
          BY <1>1, <1>2, <3>2, <4>1 DEF SoundRecord
        <4>3. TakenBy(t, s) /\ Taken(s)
          BY <3>2, <4>1 DEF TakenBy, Taken, Taking
        <4>4. ~Live(s) /\ Counts(s) /\ t \notin Creating
          BY <3>2, <4>3 DEF Counted, Counts, Creating
        <4>5. ASSUME NEW q \in DOMAIN session, q # s PROVE Counts(q)' <=> Counts(q)
          <5>1. ~TakenBy(t, q)
            BY <4>1, <4>5 DEF TakenBy
          <5>2. QED
            BY <1>20, <5>1 DEF Counts, Taken
        <4>6. ASSUME NEW q \in DOMAIN session, q = s PROVE ~Counts(q)'
          <5>1. ~TakenByMain(s) /\ \A u \in Workers : TakenBy(u, s) => u = t
            BY <2>2, <4>3 DEF OneTaker
          <5>2. ~TakenByMain(q)' /\ ~Live(q)' /\ \A u \in Workers : ~TakenBy(u, q)'
            BY <1>20, <4>4, <4>6, <5>1
          <5>3. QED
            BY <5>2 DEF Counts, Taken
        <4>7. /\ \A q \in DOMAIN session : Counts(q) /\ session[q].idx = i => q = s
              /\ \A u \in Creating : thr[u].idx # i
              /\ i \in reservedIndices
          BY <2>6, <4>2, <4>4
        <4>8. \A u \in Workers : u # t => thr'[u] = thr[u]
          BY <1>17
        <4>9. QED
          BY <1>11, <4>2, <4>4, <4>5, <4>6, <4>7, <4>8 DEF Creating
      <3>3. QED
        BY <1>1, <3>1, <3>2
    <2>8. OneOwner'
      <3>1. ASSUME NEW p \in DOMAIN session', NEW q \in DOMAIN session', Counts(p)', Counts(q)',
                   session'[p].idx = session'[q].idx
            PROVE  p = q
        <4>1. CASE p = n \/ q = n
          BY <1>6, <2>5, <2>7, <3>1, <4>1
        <4>2. CASE p # n /\ q # n
          BY <1>6, <2>6, <2>7, <3>1, <4>2
        <4>3. QED
          BY <4>1, <4>2
      <3>2. ASSUME NEW u \in Creating'
            PROVE  /\ \A q \in DOMAIN session' : Counts(q)' => session'[q].idx # thr'[u].idx
                   /\ \A w \in Creating' : thr'[w].idx = thr'[u].idx => w = u
                   /\ thr'[u].idx \in reservedIndices'
        BY <1>5, <1>6, <2>5, <2>6, <2>7
      <3>3. \A q \in DOMAIN session' : Counts(q)' => session'[q].idx \in reservedIndices'
        BY <1>5, <1>6, <2>5, <2>6, <2>7
      <3>4. ASSUME NEW k \in reservedIndices'
            PROVE  \/ \E q \in DOMAIN session' : Counts(q)' /\ session'[q].idx = k
                   \/ \E u \in Creating' : thr'[u].idx = k
        <4>1. CASE k = i
          BY <1>6, <2>5, <4>1
        <4>2. CASE k # i
          BY <1>5, <1>6, <2>6, <2>7, <4>2
        <4>3. QED
          BY <4>1, <4>2
      <3>5. QED
        BY <3>1, <3>2, <3>3, <3>4 DEF OneOwner
    <2>9. QED
      BY <2>3, <2>4, <2>8
  <1>24. QED
    BY <1>12, <1>13, <1>15, <1>16, <1>19, <1>22, <1>23 DEF Orderly

\* ... then under its index.
LEMMA RegistersIndex ==
  ASSUME IInv, NEW t \in Workers, RegisterByIndex(t)
  PROVE  IInv'
  <1> USE DEF IInv
  <1>1. /\ thr[t] \in ThreadSet /\ SoundRecord(thr[t]) /\ thr[t].pc = "byIndex"
        /\ Idle \in ThreadSet /\ Idle.pc = "idle"
    <2>1. Idle \in ThreadSet /\ Idle.pc = "idle"
      BY Shape DEF ThreadSet, Idle, WorkerPcs, Indices, None, NoFd
    <2>2. QED
      BY <2>1 DEF TypeOK, Sound, RegisterByIndex
  <1>2. PICK s \in DOMAIN session, i \in Indices : /\ s = thr[t].s /\ i = session[s].idx
                                                   /\ i = thr[t].idx
    BY <1>1, Shape DEF SoundRecord, WorkerPcs, Exists, SessionSet
  <1>3. PICK r \in ThreadSet :
          /\ Becomes(t, r)
          /\ \/ r.pc = "setStarting" /\ r.s = s /\ r.s0 = thr[t].s0 /\ thr[t].s0 # None
             \/ r.pc = "idle" /\ thr[t].s0 = None
    <2>1. CASE thr[t].s0 # None
      <3> DEFINE r == [thr[t] EXCEPT !.pc = "setStarting"]
      <3>1. r \in ThreadSet /\ r.pc = "setStarting" /\ r.s = s /\ r.s0 = thr[t].s0
        BY <1>1, <1>2 DEF ThreadSet, WorkerPcs
      <3>2. Becomes(t, r)
        BY <2>1 DEF RegisterByIndex, Step, Becomes
      <3>3. QED
        BY <2>1, <3>1, <3>2
    <2>2. CASE thr[t].s0 = None
      <3>1. Becomes(t, Idle)
        BY <2>2 DEF RegisterByIndex, EndInit, Becomes
      <3>2. QED
        BY <1>1, <2>2, <3>1
    <2>3. QED
      BY <2>1, <2>2
  <1>4. SoundRecord(r)
    BY <1>2, <1>3 DEF SoundRecord, StartPcs, Exists
  <1>5. /\ sessionsByIndex' = [sessionsByIndex EXCEPT ![i] = s]
        /\ initializingDevices' \subseteq Devices
        /\ UNCHANGED <<bus, opened, sessionsByFd, reservedIndices, main, todo, userCalls>>
    BY <1>2 DEF RegisterByIndex, EndInit, TypeOK
  <1>6. PICK n \in Nat : /\ n = IF session[s].releases = 0 THEN 0 ELSE session[s].releases + 1
                         /\ n >= session[s].releases
                         /\ session[s].releases \in Nat
    BY Shape DEF SessionSet
  <1>7. /\ Kept
        /\ \A q \in DOMAIN session :
             /\ session'[q].state = session[q].state /\ session'[q].open = session[q].open
             /\ session'[q].releases = IF q = s THEN n ELSE session[q].releases
    <2>1. session' = [session EXCEPT ![s].releases = n]
      BY <1>2, <1>6 DEF RegisterByIndex
    <2>2. QED
      BY <1>6, <2>1, CountedUp
  <1>8. \A u \in Workers : thr'[u] = IF u = t THEN r ELSE thr[u]
    BY <1>3, Moved
  <1>9. /\ thr' \in [Workers -> ThreadSet'] /\ main' \in MainSet'
        /\ Creating' = Creating /\ Sound'
    BY <1>1, <1>3, <1>4, <1>5, <1>7, SoundStep
  <1>10. s \in 0 .. Len(session) /\ \A k \in Indices :
           sessionsByIndex'[k] = IF k = i THEN s ELSE sessionsByIndex[k]
    BY <1>5, Shape DEF TypeOK
  <1>11. TypeOK'
    <2>1. sessionsByIndex' \in [Indices -> 0 .. Len(session')]
      BY <1>5, <1>7, <1>10 DEF TypeOK, Kept
    <2>2. QED
      BY <1>5, <1>7, <1>9, <2>1 DEF TypeOK, Kept, bus
  <1>12. Registered' = Registered /\ Registered \subseteq DOMAIN session
    BY <1>5, Shape DEF Registered, Exists
  <1>13. Keyed'
    <2>1. \A f \in Fds : sessionsByFd'[f] # None => session'[sessionsByFd'[f]].fd = f
      BY <1>5, <1>7, Shape DEF Keyed, Kept, Exists
    <2>2. \A k \in Indices : sessionsByIndex'[k] # None => session'[sessionsByIndex'[k]].idx = k
      <3>1. \A k \in Indices : sessionsByIndex[k] # None => session'[sessionsByIndex[k]].idx = k
        BY <1>7, Shape DEF Keyed, Kept, Exists
      <3>2. session'[s].idx = i
        BY <1>2, <1>7 DEF Kept
      <3>3. QED
        BY <1>10, <3>1, <3>2
    <2>3. \A u \in Workers : thr'[u].pc \in Taking \ {"unmap"} => thr'[u].s \notin Registered'
      BY <1>3, <1>8, <1>12 DEF Keyed, Taking
    <2>4. QED
      BY <1>5, <1>12, <2>1, <2>2, <2>3 DEF Keyed
  <1>14. Attended'
    BY <1>1, <1>2, <1>3, <1>5, <1>7, <1>12, AttendedStep DEF StartPcs
  <1>15. Owned'
    <2>1. \A u \in Workers : (Creates(u)' <=> Creates(u)) /\ (Creates(u) => thr'[u].fd = thr[u].fd)
      BY <1>1, <1>3, <1>8 DEF Creates
    <2>2. QED
      <3>1. /\ DOMAIN session' = DOMAIN session
            /\ \A q \in DOMAIN session :
                 session'[q].open = session[q].open /\ session'[q].fd = session[q].fd
        BY <1>7 DEF Kept
      <3>2. opened' = opened
        BY <1>5
      <3>3. \A q \in DOMAIN session' : session'[q].open => session'[q].fd \in opened'
        BY <3>1, <3>2 DEF Owned
      <3>4. \A q, w \in DOMAIN session' :
              session'[q].open /\ session'[w].open /\ session'[q].fd = session'[w].fd => q = w
        BY <3>1 DEF Owned
      <3>5. ASSUME NEW u \in Workers, Creates(u)'
            PROVE  /\ thr'[u].fd \in opened'
                   /\ \A q \in DOMAIN session' : session'[q].open => session'[q].fd # thr'[u].fd
                   /\ \A w \in Workers : Creates(w)' /\ thr'[w].fd = thr'[u].fd => w = u
        BY <2>1, <3>1, <3>2, <3>5 DEF Owned
      <3>6. ASSUME NEW f \in opened'
            PROVE  \/ \E q \in DOMAIN session' : session'[q].open /\ session'[q].fd = f
                   \/ \E w \in Workers : Creates(w)' /\ thr'[w].fd = f
        BY <2>1, <3>1, <3>2, <3>6 DEF Owned
      <3> QED
        BY <3>3, <3>4, <3>5, <3>6 DEF Owned
  <1>16. ASSUME NEW q \in DOMAIN session
         PROVE  /\ TakenByMain(q)' <=> TakenByMain(q)
                /\ \A u \in Workers : TakenBy(u, q)' <=> TakenBy(u, q)
                /\ Leaving(q)' <=> Leaving(q)
                /\ Closing(q)' <=> Closing(q)
                /\ Taken(q)' <=> Taken(q)
                /\ Live(q)' <=> Live(q)
                /\ Counts(q)' <=> Counts(q)
                /\ \A u \in Workers : u # t => (thr'[u].pc = "byIndex" /\ thr'[u].s = q
                                               <=> thr[u].pc = "byIndex" /\ thr[u].s = q)
    <2>1. ASSUME NEW u \in Workers
          PROVE  /\ TakenBy(u, q)' <=> TakenBy(u, q)
                 /\ \A pc \in {"unmap", "close"} :
                      thr'[u].s = q /\ thr'[u].pc = pc <=> thr[u].s = q /\ thr[u].pc = pc
                 /\ u # t => thr'[u] = thr[u]
      BY <1>1, <1>3, <1>8 DEF TakenBy, Taking
    <2>2. Live(q)' <=> Live(q)
      BY <1>6, <1>7 DEF Live
    <2>3. QED
      BY <1>5, <2>1, <2>2 DEF TakenByMain, Leaving, Closing, Taken, Counts
  <1>17. Counted'
    BY <1>7, <1>12, <1>16 DEF Counted, Kept
  \* A session that is registered after it was taken down is counted as taken down twice.
  <1>18. ASSUME Disjoint' PROVE OneTaker' /\ OneOwner' /\ Indexed'
    <2>1. Live(s)
      BY <1>6, <1>7, <1>18 DEF Disjoint, Live, Kept
    <2>2. Disjoint
      <3>1. session[s].releases <= 1
        BY <1>6, <2>1 DEF Live
      <3>2. QED
        BY <1>7, <1>18, <3>1 DEF Disjoint, Kept
    <2>3. OneTaker /\ OneOwner /\ Indexed
      BY <2>2 DEF Orderly
    <2>4. OneTaker'
      BY <1>5, <1>7, <1>16, <2>3 DEF OneTaker, Kept
    <2>5. \A u \in Creating : thr'[u].idx = thr[u].idx
      BY <1>1, <1>8 DEF Creating
    <2>6. OneOwner'
      BY <1>5, <1>7, <1>9, <1>16, <2>3, <2>5 DEF OneOwner, Kept
    <2>7. Indexed'
      <3>1. ASSUME NEW k \in Indices, sessionsByIndex'[k] # None
            PROVE  Live(sessionsByIndex[k])' \/ Leaving(sessionsByIndex[k])'
        <4>1. PICK q \in DOMAIN session : q = sessionsByIndex'[k]
          BY <1>10, <3>1, Shape DEF Exists
        <4>2. Live(q) \/ Leaving(q)
          BY <1>10, <2>1, <2>3, <3>1, <4>1 DEF Indexed
        <4>3. Live(q)' \/ Leaving(q)'
          BY <1>16, <4>2
        <4>4. QED
          BY <4>1, <4>3 DEF Live, Leaving, TakenByMain
      <3>2. ASSUME NEW q \in DOMAIN session, Live(q)'
            PROVE  \/ sessionsByIndex'[session[q].idx] = q
                   \/ \E u \in Workers : thr'[u].pc = "byIndex" /\ thr'[u].s = q
        <4>1. CASE q = s
          BY <1>2, <1>10, <4>1
        <4>2. CASE q # s
          <5>1. Counts(q) /\ Counts(s) /\ Live(q)
            BY <1>16, <2>1, <3>2 DEF Counts
          <5>2. session[q].idx # i /\ session[q].idx \in Indices
            BY <1>2, <2>3, <4>2, <5>1, Shape DEF OneOwner, SessionSet
          <5>3. sessionsByIndex'[session[q].idx] = sessionsByIndex[session[q].idx]
            BY <1>10, <5>2
          <5>4. CASE sessionsByIndex[session[q].idx] = q
            BY <5>3, <5>4
          <5>5. CASE \E u \in Workers : thr[u].pc = "byIndex" /\ thr[u].s = q
            <6>1. PICK u \in Workers : thr[u].pc = "byIndex" /\ thr[u].s = q
              BY <5>5
            <6>2. u # t
              BY <1>2, <4>2, <6>1
            <6>3. QED
              BY <1>16, <6>1, <6>2
          <5>6. QED
            BY <2>3, <5>1, <5>4, <5>5 DEF Indexed
        <4>3. QED
          BY <4>1, <4>2
      <3>3. QED
        BY <1>7, <3>1, <3>2 DEF Indexed, Kept
    <2>8. QED
      BY <2>4, <2>6, <2>7
  <1>19. QED
    BY <1>9, <1>11, <1>13, <1>14, <1>15, <1>17, <1>18 DEF Orderly

(****************************************************************************)
(* The invariant                                                            *)
(****************************************************************************)
LEMMA InitIInv ==
  ASSUME Init
  PROVE  IInv
  <1> USE DEF Init
  <1>1. session = <<>> /\ Len(session) = 0 /\ DOMAIN session = {}
    OBVIOUS
  <1>2. session \in Seq(SessionSet) /\ Registered = {} /\ Creating = {}
    BY <1>1 DEF Registered, Creating, Idle
  <1>3. Cardinality(Creating) = 0
    BY <1>2, FS_EmptySet
  <1>4. Idle \in ThreadSet /\ Idle \in MainSet
    BY <1>1 DEF ThreadSet, MainSet, MainPcs, Idle, WorkerPcs, Indices, None, NoFd
  <1>5. TypeOK
    BY <1>1, <1>2, <1>4 DEF TypeOK, Indices, None
  <1>6. Sound
    BY <1>1, <1>3 DEF Sound, SoundRecord, Idle, WorkerPcs, StartPcs
  <1>7. Keyed /\ Attended
    BY <1>2 DEF Keyed, Attended, Idle, Taking
  <1>8. Owned /\ Counted
    BY <1>1 DEF Owned, Counted, Creates, Idle
  <1>9. Orderly
    BY <1>1, <1>2 DEF Orderly, OneTaker, OneOwner, Indexed
  <1>10. QED
    BY <1>5, <1>6, <1>7, <1>8, <1>9 DEF IInv

LEMMA StutterIInv ==
  ASSUME IInv, UNCHANGED vars
  PROVE  IInv'
  <1> USE DEF IInv, vars, bus, tables
  <1>1. ThreadSet' = ThreadSet /\ MainSet' = MainSet
    BY DEF ThreadSet, MainSet
  <1>2. Creating' = Creating /\ Registered' = Registered
    BY DEF Creating, Registered
  <1>3. TypeOK'
    BY <1>1 DEF TypeOK
  <1>4. Sound'
    BY <1>2 DEF Sound, SoundRecord, Exists
  <1>5. Keyed' /\ Attended'
    BY <1>2 DEF Keyed, Attended
  <1>6. Owned'
    BY DEF Owned, Creates
  <1>7. Counted' /\ Orderly'
    BY <1>2 DEF Counted, Orderly, Disjoint, OneTaker, OneOwner, Indexed, Counts, Live, Taken,
                TakenBy, TakenByMain, Leaving, Closing
  <1>8. QED
    BY <1>3, <1>4, <1>5, <1>6, <1>7

LEMMA NextIInv ==
  ASSUME IInv, [Next]_vars
  PROVE  IInv'
  <1>1. ASSUME NEW t \in Workers, WorkerSteps(t)
        PROVE  IInv'
    <2>1. CASE CreateSteps(t)
      BY <2>1, Missing, Reserves, Registers, RegistersIndex DEF CreateSteps
    <2>2. CASE RecoverySteps(t)
      BY <2>2, RecoveryUnmaps, RecoveryCloses, Opens, LooksOnly, GivesUp, ChangesState
         DEF RecoverySteps
    <2>3. CASE StartSteps(t)
      BY <2>3, ChangesState, LooksOnly, Attempts DEF StartSteps
    <2>4. CASE StopSteps(t)
      BY <2>4, ChangesState, LooksOnly DEF StopSteps
    <2>5. QED
      BY <1>1, <2>1, <2>2, <2>3, <2>4 DEF WorkerSteps
  <1>2. CASE MainSteps
    <2>1. ASSUME NEW f \in Fds, ReleaseCamera(f)
          PROVE  IInv'
      BY <2>1, MainQuiet, Releases
    <2>2. QED
      BY <1>2, <2>1, MainQuiet, MainUnmaps, MainCloses, Opens DEF MainSteps
  <1>3. CASE Environment
    BY <1>3, MainQuiet, LooksOnly DEF Environment
  <1>4. CASE UNCHANGED vars
    BY <1>4, StutterIInv
  <1>5. QED
    BY <1>1, <1>2, <1>3, <1>4 DEF Next

LEMMA IInvHolds == Spec => []IInv
  <1>1. Init => IInv
    BY InitIInv
  <1>2. IInv /\ [Next]_vars => IInv'
    BY NextIInv
  <1>3. QED
    BY <1>1, <1>2, PTL DEF Spec

(****************************************************************************)
(* The theorems                                                             *)
(****************************************************************************)
\* The tables of UvcStreamingService only ever name sessions that exist, and a
\* start makes at most MAX_START_ATTEMPTS attempts.
THEOREM TypeCorrect == Spec => []TypeOK
  <1>1. IInv => TypeOK
    BY DEF IInv
  <1>2. QED
    BY <1>1, IInvHolds, PTL

\* Whatever startStreaming, stopStreaming, its recovery and the releases of the
\* main thread do to each other, a session that is still in the table is IDLE or
\* STREAMING once all of them have ended: each transient state has somebody who
\* ends it.
THEOREM Settles == Spec => []SessionsSettle
  <1>1. IInv => SessionsSettle
    <2>1. SUFFICES ASSUME IInv, Quiet, NEW s \in Registered
                   PROVE  session[s].state \in {"IDLE", "STREAMING"}
      BY DEF SessionsSettle
    <2>2. session[s].state \in States
      BY <2>1, Shape DEF IInv, Exists, SessionSet
    <2>3. session[s].state \notin {"STARTING", "STOPPING", "RELEASING"}
      BY <2>1 DEF IInv, Attended, Quiet, MainFree, StartPcs
    <2>4. QED
      BY <2>2, <2>3 DEF States
  <1>2. QED
    BY <1>1, IInvHolds, PTL

\* allocateCameraIndex, createSession and releaseSession keep the two tables and the
\* reserved indices in step as long as no session is taken down twice.
THEOREM IndicesAgree == Spec => []IndicesMatch
  <1>1. IInv => IndicesMatch
    <2>1. SUFFICES ASSUME IInv, Disjoint PROVE
            /\ \A r, s \in Registered : session[r].idx = session[s].idx => r = s
            /\ Quiet => /\ \A i \in Indices : sessionsByIndex[i] # None
                                              => /\ sessionsByIndex[i] \in Registered
                                                 /\ session[sessionsByIndex[i]].idx = i
                        /\ reservedIndices = {session[s].idx : s \in Registered}
                        /\ \A s \in Registered : sessionsByIndex[session[s].idx] = s
      BY DEF IndicesMatch
    <2>2. OneTaker /\ OneOwner /\ Indexed
      BY <2>1 DEF IInv, Orderly
    <2>3. \A s \in Registered : s \in DOMAIN session /\ (Live(s) \/ Leaving(s))
      BY <2>1, Shape DEF IInv, Counted, Exists
    <2>4. \A s : Leaving(s) => Taken(s)
      BY DEF Leaving, Taken, TakenBy, Taking
    <2>5. \A r, s \in Registered : session[r].idx = session[s].idx => r = s
      BY <2>2, <2>3, <2>4 DEF OneOwner, Counts
    <2>6. ASSUME Quiet
          PROVE  /\ \A i \in Indices : sessionsByIndex[i] # None
                                       => /\ sessionsByIndex[i] \in Registered
                                          /\ session[sessionsByIndex[i]].idx = i
                 /\ reservedIndices = {session[s].idx : s \in Registered}
                 /\ \A s \in Registered : sessionsByIndex[session[s].idx] = s
      \* Nobody takes anything down now, or creates anything.
      <3>1. /\ \A t \in Workers : thr[t].pc = "idle"
            /\ main.pc \in {"idle", "dead"} /\ Creating = {}
        BY <2>6 DEF Quiet, MainFree, Creating
      <3>2. \A s : ~Taken(s) /\ ~Leaving(s) /\ ~Closing(s)
        BY <3>1 DEF Taken, TakenBy, TakenByMain, Taking, Leaving, Closing
      <3>3. \A s \in DOMAIN session : Live(s) <=> s \in Registered
        <4>1. ASSUME NEW s \in DOMAIN session, Live(s) PROVE s \in Registered
          <5>1. session[s].open /\ session[s].fd \in Fds
            BY <2>1, <4>1, Shape DEF IInv, Counted, SessionSet
          <5>2. sessionsByFd[session[s].fd] = s
            BY <2>2, <3>2, <5>1 DEF OneTaker
          <5>3. QED
            BY <2>1, <5>1, <5>2, Shape DEF IInv
        <4>2. QED
          BY <2>3, <3>2, <4>1
      <3>4. \A i \in Indices : sessionsByIndex[i] # None
                               => /\ sessionsByIndex[i] \in Registered
                                  /\ session[sessionsByIndex[i]].idx = i
        BY <2>1, <2>2, <3>2, <3>3, Shape DEF IInv, Indexed, Keyed, Exists
      <3>5. \A s \in Registered : sessionsByIndex[session[s].idx] = s
        BY <2>2, <2>3, <3>1, <3>2 DEF Indexed
      <3>6. reservedIndices = {session[s].idx : s \in Registered}
        <4>1. \A s \in DOMAIN session : Counts(s) <=> s \in Registered
          BY <3>2, <3>3 DEF Counts
        <4>2. QED
          BY <2>2, <2>3, <3>1, <4>1 DEF OneOwner
      <3>7. QED
        BY <3>4, <3>5, <3>6
    <2>7. QED
      BY <2>5, <2>6
  <1>2. QED
    BY <1>1, IInvHolds, PTL

\* What createSession and releaseSession leave open is always in somebody's hands: a
\* session that can be found, the thread that creates one, or the one that closes it.
THEOREM NoLeaks == Spec => []NoConnectionLeaks
  <1>1. IInv => NoConnectionLeaks
    <2>1. SUFFICES ASSUME IInv, Disjoint, NEW f \in opened PROVE
            \/ sessionsByFd[f] # None /\ session[sessionsByFd[f]].open
            \/ \E t \in Workers : thr[t].fd = f /\ thr[t].pc \in {"formats", "byFd"}
            \/ \E r \in {main} \cup {thr[t] : t \in Workers} :
                 r.pc = "close" /\ session[r.s].fd = f
      BY DEF NoConnectionLeaks
    <2>2. CASE \E s \in DOMAIN session : session[s].open /\ session[s].fd = f
      <3>1. PICK s \in DOMAIN session : session[s].open /\ session[s].fd = f
        BY <2>2
      <3>2. sessionsByFd[f] = s \/ Closing(s)
        BY <2>1, <3>1 DEF IInv, Orderly, OneTaker
      <3>3. s # None
        BY <2>1, Shape DEF IInv
      <3>4. QED
        BY <3>1, <3>2, <3>3 DEF Closing
    <2>3. CASE \E t \in Workers : Creates(t) /\ thr[t].fd = f
      BY <2>3 DEF Creates
    <2>4. QED
      BY <2>1, <2>2, <2>3 DEF IInv, Owned
  <1>2. QED
    BY <1>1, IInvHolds, PTL
===============================================================================
