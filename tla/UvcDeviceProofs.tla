--------------------------- MODULE UvcDeviceProofs ---------------------------
(****************************************************************************)
(* For every set of cameras, any number of threads in startUVC, and every   *)
(* bound: the interfaces, drivers and references of a device are accounted  *)
(* for, a stream that runs has the interface, the packets and the mode it   *)
(* was negotiated for, and the frames it publishes are in order, not mixed  *)
(* and, while nothing is lost, whole.                                       *)
(*                                                                          *)
(* The device comes first, without the frames (IInv); then the frames       *)
(* (FInv), which need to know of the device only that the buffers keep      *)
(* their size while a stream runs.                                          *)
(****************************************************************************)
EXTENDS UvcDevice, TLAPS

Areas == {device.modes[m].area : m \in Modes} \cup {0}
Bufs  == {device.modes[m].buf : m \in Modes} \cup Limits \cup {0}


Devs    == [ref : {0, 2}, claimed : SUBSET Ifs]
Threads == [pc : ThrPcs, want : Areas, again : BOOLEAN, cand : Modes \cup {0},
            payload : Payloads \cup {0}, size : Bufs]
Streams == [pc : {"none", "open", "running"}, want : Areas, cand : Modes \cup {0},
            payload : Payloads \cup {0}, size : Bufs]

\* The records have their fields, and the numbers are of the right kind.
Typed ==
  /\ gone \in BOOLEAN /\ disturbed \in BOOLEAN
  /\ held \subseteq Ifs /\ ctx \in CtxPcs
  /\ dev \in Devs
  /\ thr \in [Starters -> Threads] /\ stream \in Streams

Critical(t) == thr[t].pc \notin Pauses \cup {"idle"}

\* uvc_mutex: one thread at a time works, and on an open context only.
OneAtATime ==
  /\ \A s, t \in Starters : Critical(s) /\ Critical(t) => s = t
  /\ \A t \in Starters : thr[t].pc # "idle" => ctx = "open"
  /\ ~NoStreamOpen => ctx = "open"

\* What a thread tries is a candidate, and a stream is between its opening and its start
\* exactly while a thread is.
Chosen ==
  /\ \A t \in Starters :
       /\ thr[t].pc \in {"claim", "probe", "open"} => thr[t].cand \in Candidates(thr[t].want)
       /\ thr[t].pc = "start" => stream.pc = "open"
  /\ stream.pc = "open" => \E t \in Starters : thr[t].pc = "start"

\* What the context has when it is not open yet, or no longer.
Phases ==
  /\ dev.ref = IF ctx \in {"new", "closed"} THEN 0 ELSE 2
  /\ ctx \in {"new", "closed"} => dev.claimed = {}
  /\ ~gone => /\ ctx \in {"new", "info", "claim", "failed", "closed"} => held = {}
              /\ ctx = "status" => held = {Control}
              /\ ctx = "open" => Control \in held

\* An open stream has its interface and its mode; it loses it when it runs, if ever.
Backed ==
  /\ ~NoStreamOpen /\ ~gone /\ ~disturbed =>
       Streaming \in held /\ stream.cand \in Candidates(stream.want)
  /\ disturbed => stream.pc = "running"

\* What the claims and releases keep up: the part of NothingLeftBehind that the kernel and
\* the handle share.
Balanced ==
  ~gone => /\ driver = device.drivers \ (held \cup stranded)
           /\ stranded \cap held = {}
           /\ dev.claimed = held
           /\ alt # 1 => Streaming \in held

IInv ==
  Typed /\ OneAtATime /\ Chosen /\ Phases /\ Balanced /\ Backed /\ StreamIsServed

LEMMA InitIInv == Init => IInv
  <1> SUFFICES ASSUME Init PROVE IInv
    OBVIOUS
  <1> USE DEF Init, NoThread, NoStream, NoDev, NoStreamOpen, Control, Streaming
  <1>1. Typed
    BY DEF Typed, Devs, Threads, Streams, Ifs, CtxPcs, ThrPcs, Areas, Bufs
  <1>2. OneAtATime /\ Chosen
    BY DEF OneAtATime, Chosen, Critical, Pauses
  <1>3. Phases /\ Backed
    BY DEF Phases, Backed
  <1>4. Balanced /\ StreamIsServed
    BY DEF Balanced, StreamIsServed
  <1>5. QED
    BY <1>1, <1>2, <1>3, <1>4 DEF IInv

(****************************************************************************)
(* Claims and releases.                                                     *)
(****************************************************************************)
LEMMA ClaimBalanced ==
  ASSUME Typed, Balanced, UNCHANGED bus, NEW i \in Ifs, Claimed(i)
  PROVE  /\ Balanced'
         /\ held' \subseteq Ifs /\ dev' \in Devs /\ dev'.ref = dev.ref /\ alt' = alt
         /\ held' = held \cup {i}
  <1> USE DEF bus, Claimed
  <1>1. held' \subseteq Ifs /\ dev' \in Devs /\ dev'.ref = dev.ref
        /\ dev'.claimed = dev.claimed \cup {i}
    BY DEF Typed, Devs
  <1>2. ASSUME ~gone PROVE driver' = device.drivers \ (held' \cup stranded')
    BY <1>2 DEF Balanced
  <1>3. Balanced'
    BY <1>1, <1>2 DEF Balanced
  <1>4. QED
    BY <1>1, <1>3

LEMMA NotClaimedBalanced ==
  ASSUME Typed, Balanced, UNCHANGED bus, NEW i \in Ifs, NotClaimed(i)
  PROVE  Balanced' /\ UNCHANGED <<held, dev, alt>>
  <1>1. UNCHANGED <<held, dev, alt>>
    BY DEF NotClaimed
  <1>2. ASSUME ~gone
        PROVE  /\ driver' = device.drivers \ (held \cup stranded')
               /\ stranded' \cap held = {}
    BY <1>2 DEF NotClaimed, Balanced
  <1>3. QED
    BY <1>1, <1>2 DEF Balanced, bus

LEMMA ReturnBalanced ==
  ASSUME Typed, Balanced, UNCHANGED bus, NEW S \in SUBSET Ifs, Returned(S),
         ~gone => dev'.claimed = dev.claimed \ S
  PROVE  /\ Balanced'
         /\ held' \subseteq held
         /\ ~gone => held' = held \ S
         /\ Streaming \notin S => alt' = alt
         /\ gone => alt' = alt
  <1> USE DEF bus, Returned
  <1>1. /\ held' \subseteq held
        /\ Streaming \notin S => alt' = alt
        /\ gone => alt' = alt
    OBVIOUS
  <1>2. ASSUME ~gone
        PROVE  /\ held' = held \ S
               /\ driver' = device.drivers \ (held' \cup stranded')
               /\ stranded' \cap held' = {}
               /\ alt' # 1 => Streaming \in held'
    BY <1>2 DEF Balanced
  <1>3. QED
    BY <1>1, <1>2 DEF Balanced

LEMMA ReleaseBalanced ==
  ASSUME Typed, Balanced, UNCHANGED bus, NEW S \in SUBSET Ifs, Released(S)
  PROVE  /\ Balanced'
         /\ held' \subseteq held /\ dev' \in Devs /\ dev'.ref = dev.ref
         /\ ~gone => held' = held \ S
         /\ Streaming \notin S => alt' = alt
         /\ gone => alt' = alt
  <1>1. /\ dev' \in Devs /\ dev'.ref = dev.ref
        /\ ~gone => dev'.claimed = dev.claimed \ S
    BY DEF Released, Typed, Devs
  <1>2. QED
    BY <1>1, ReturnBalanced DEF Released

(****************************************************************************)
(* Opening and closing: no thread is in startUVC and no stream is open.     *)
(****************************************************************************)
LEMMA OpenIInv ==
  ASSUME IInv, UNCHANGED <<device, gone, thr, stream, disturbed>>,
         ctx # "open", ctx' \in CtxPcs, dev' \in Devs, held' \subseteq Ifs, Phases', Balanced'
  PROVE  IInv'
  <1> USE DEF IInv, NoStreamOpen
  <1>1. \A t \in Starters : thr[t].pc = "idle"
    BY DEF OneAtATime
  <1>2. stream.pc = "none"
    BY DEF OneAtATime
  <1>3. Typed'
    BY DEF Typed, Threads, Streams, Areas, Bufs, Modes
  <1>4. OneAtATime'
    BY <1>1, <1>2 DEF OneAtATime, Critical
  <1>5. Chosen'
    BY <1>1, <1>2 DEF Chosen
  <1>6. Backed' /\ StreamIsServed'
    BY <1>2 DEF Backed, StreamIsServed
  <1>7. QED
    BY <1>3, <1>4, <1>5, <1>6

LEMMA OpenSteps ==
  ASSUME IInv, \/ Open \/ GetInfo \/ InfoFails \/ ClaimControl \/ ControlBusy
               \/ SubmitStatus \/ OpenFailed \/ CloseConnection
  PROVE  IInv'
  <1> USE DEF IInv, bus, kernel, claims
  <1>0. Typed /\ Balanced /\ Phases
    OBVIOUS
  <1>1. Control \in Ifs /\ {Control} \in SUBSET Ifs /\ Control # Streaming
    BY DEF Ifs, Control, Streaming
  <1>2. CASE Open
    <2>1. dev' = [ref |-> 2, claimed |-> {}] /\ dev.claimed = {}
      BY <1>0, <1>2 DEF Open, NoDev, Phases
    <2>2. dev' \in Devs /\ dev'.ref = 2 /\ dev'.claimed = dev.claimed
      BY <2>1 DEF Devs
    <2>3. Phases' /\ Balanced'
      BY <1>0, <1>2, <2>2 DEF Open, Phases, Balanced
    <2>4. QED
      BY <1>2, <2>2, <2>3, OpenIInv DEF Open, Typed, CtxPcs
  <1>3. CASE GetInfo
    BY <1>3, OpenIInv DEF GetInfo, Typed, Devs, CtxPcs, Phases, Balanced
  <1>4. CASE InfoFails
    <2>1. dev'.ref = 0 /\ dev'.claimed = {} /\ dev' \in Devs
      BY <1>4 DEF InfoFails, Unreferenced, Typed, Devs, Phases
    <2>2. QED
      BY <1>4, <2>1, OpenIInv DEF InfoFails, Typed, CtxPcs, Phases, Balanced
  <1>5. CASE ClaimControl
    <2>1. Balanced' /\ held' \subseteq Ifs /\ dev' \in Devs /\ dev'.ref = dev.ref
          /\ held' = held \cup {Control}
      BY <1>1, <1>5, ClaimBalanced DEF ClaimControl
    <2>2. Phases'
      BY <1>5, <2>1 DEF ClaimControl, Phases
    <2>3. QED
      BY <1>5, <2>1, <2>2, OpenIInv DEF ClaimControl, CtxPcs
  <1>6. CASE ControlBusy
    <2>1. Balanced' /\ UNCHANGED <<held, dev, alt>>
      BY <1>1, <1>6, NotClaimedBalanced DEF ControlBusy
    <2>2. Phases'
      BY <1>6, <2>1 DEF ControlBusy, Phases
    <2>3. QED
      BY <1>6, <2>1, <2>2, OpenIInv DEF ControlBusy, CtxPcs, Typed
  <1>7. CASE SubmitStatus
    BY <1>7, OpenIInv DEF SubmitStatus, Typed, Devs, CtxPcs, Phases, Balanced
  <1>8. CASE OpenFailed
    <2>1. dev'.ref = 0 /\ dev'.claimed = {} /\ dev' \in Devs
      BY <1>8 DEF OpenFailed, Unreferenced, Typed, Devs, Phases
    <2>2. ~gone => dev'.claimed = dev.claimed \ {Control}
      BY <1>8, <2>1 DEF OpenFailed, Phases, Balanced
    <2>3. Balanced' /\ held' \subseteq held /\ (~gone => held' = held \ {Control})
      BY <1>1, <1>8, <2>2, ReturnBalanced DEF OpenFailed
    <2>4. Phases'
      BY <1>8, <2>1, <2>3 DEF OpenFailed, Phases
    <2>5. QED
      BY <1>8, <2>1, <2>3, <2>4, OpenIInv DEF OpenFailed, Typed, CtxPcs
  <1>9. CASE CloseConnection
    <2>1. dev' = [ref |-> 0, claimed |-> {}]
      BY <1>9 DEF CloseConnection, NoDev
    <2>2. QED
      BY <1>9, <2>1, OpenIInv DEF CloseConnection, Typed, Devs, CtxPcs, Phases, Balanced
  <1>10. QED
    BY <1>2, <1>3, <1>4, <1>5, <1>6, <1>7, <1>8, <1>9

(****************************************************************************)
(* Steps of a thread in startUVC, which has the lock: what it becomes, th,  *)
(* and what happens to the stream.                                          *)
(****************************************************************************)
LEMMA ThreadStep ==
  ASSUME IInv, UNCHANGED <<device, gone, ctx>>, ctx = "open",
         NEW t \in Starters, NEW th \in Threads, thr' = [thr EXCEPT ![t] = th],
         \A s \in Starters : Critical(s) => s = t,
         th.pc \in {"claim", "probe", "open"} => th.cand \in Candidates(th.want),
         th.pc = "start" <=> stream'.pc = "open",
         stream' \in Streams, dev' \in Devs, held' \subseteq Ifs, disturbed' \in BOOLEAN
  PROVE  Typed' /\ OneAtATime' /\ Chosen'
  <1>0. thr \in [Starters -> Threads]
    BY DEF IInv, Typed
  <1>1. \A s \in Starters : thr'[s] = IF s = t THEN th ELSE thr[s]
    BY <1>0
  <1>2. Areas' = Areas /\ Bufs' = Bufs /\ Modes' = Modes
    BY DEF Areas, Bufs, Modes
  <1>3. Threads' = Threads /\ Streams' = Streams
    BY <1>2 DEF Threads, Streams
  <1>4. thr' \in [Starters -> Threads]
    BY <1>0
  <1>5. Typed'
    BY <1>3, <1>4 DEF IInv, Typed
  <1>6. OneAtATime'
    BY <1>1 DEF OneAtATime, Critical
  <1>8. \A s \in Starters : s # t => thr'[s].pc \in Pauses \cup {"idle"}
    BY <1>1 DEF Critical
  <1>9. Chosen'
    <2>1. thr'[t] = th
      BY <1>1
    <2>2. \A s \in Starters : s # t => thr'[s].pc \notin {"claim", "probe", "open", "start"}
      BY <1>8 DEF Pauses
    <2>3. th.pc \in {"claim", "probe", "open"} => (thr[t].cand \in Candidates(thr[t].want))'
      BY <2>1 DEF Candidates, Modes
    <2>4. stream'.pc = "open" => thr'[t].pc = "start"
      BY <2>1
    <2>5. QED
      BY <2>1, <2>2, <2>3, <2>4 DEF Chosen
  <1>10. QED
    BY <1>5, <1>6, <1>9

LEMMA LockFree == ~Locked => \A s \in Starters : ~Critical(s)
  BY DEF Locked, Critical

LEMMA HasLock ==
  ASSUME IInv, NEW t \in Starters, thr[t].pc \in {"claim", "probe", "open", "start"}
  PROVE  /\ \A s \in Starters : Critical(s) => s = t
         /\ ctx = "open"
         /\ stream.pc = "open" <=> thr[t].pc = "start"
  <1>1. Critical(t)
    BY DEF Critical, Pauses
  <1>2. \A s \in Starters : thr[s].pc = "start" => Critical(s)
    BY DEF Critical, Pauses
  <1>3. QED
    BY <1>1, <1>2 DEF IInv, OneAtATime, Chosen

\* The interface of the stream goes; the control interface stays.
LEMMA StreamingReleased ==
  ASSUME IInv, UNCHANGED <<bus, ctx>>, ctx = "open", Released({Streaming})
  PROVE  /\ Phases' /\ Balanced' /\ dev' \in Devs /\ held' \subseteq Ifs
         /\ gone => alt' = alt
  <1>1. {Streaming} \in SUBSET Ifs /\ Control # Streaming
    BY DEF Ifs, Control, Streaming
  <1>2. /\ Balanced' /\ held' \subseteq held /\ dev' \in Devs /\ dev'.ref = dev.ref
        /\ ~gone => held' = held \ {Streaming}
        /\ gone => alt' = alt
    BY <1>1, ReleaseBalanced DEF IInv
  <1>3. Phases'
    BY <1>1, <1>2 DEF IInv, Phases, bus
  <1>4. QED
    BY <1>2, <1>3 DEF IInv, Typed

\* A stream that is closed asks for nothing.
LEMMA StreamClosed ==
  ASSUME StreamEnded
  PROVE  /\ stream'.pc = "none" /\ stream' \in Streams /\ disturbed' = FALSE
         /\ Backed' /\ StreamIsServed'
  BY DEF StreamEnded, NoStream, Streams, Areas, Bufs, Backed, StreamIsServed, NoStreamOpen

LEMMA StopStep ==
  ASSUME IInv, UNCHANGED <<bus, ctx>>, ctx = "open", StopStreaming
  PROVE  /\ Phases' /\ Balanced' /\ dev' \in Devs /\ held' \subseteq Ifs
         /\ stream'.pc = "none" /\ stream' \in Streams /\ disturbed' \in BOOLEAN
         /\ Backed' /\ StreamIsServed'
  <1>1. CASE NoStreamOpen /\ UNCHANGED <<claims, stream, disturbed, frames>>
    <2> USE <1>1 DEF IInv, claims, kernel, bus
    <2>1. Phases' /\ Balanced'
      BY DEF Phases, Balanced
    <2>2. dev' \in Devs /\ held' \subseteq Ifs /\ stream' \in Streams /\ disturbed' \in BOOLEAN
      BY DEF Typed
    <2>3. stream'.pc = "none" /\ Backed' /\ StreamIsServed'
      BY DEF NoStreamOpen, Backed, StreamIsServed
    <2>4. QED
      BY <2>1, <2>2, <2>3
  <1>2. CASE ~NoStreamOpen /\ Released({Streaming}) /\ StreamEnded
    BY <1>2, StreamingReleased, StreamClosed
  <1>3. QED
    BY <1>1, <1>2 DEF StopStreaming

\* The next candidate, a second round, or the end.
LEMMA NextCandidateStep ==
  ASSUME IInv, NEW t \in Starters, NEW c, NextCandidate(t, c)
  PROVE  \E th \in Threads :
           /\ thr' = [thr EXCEPT ![t] = th]
           /\ th.pc \in {"idle", "retry", "claim"}
           /\ th.pc = "claim" => th.cand \in Candidates(th.want)
  <1>0. thr \in [Starters -> Threads] /\ thr[t] \in Threads
    BY DEF IInv, Typed
  <1>1. NoThread \in Threads
    BY DEF NoThread, Threads, ThrPcs, Areas, Bufs
  <1>2. CASE Returns(t)
    BY <1>1, <1>2 DEF Returns, NoThread
  <1>3. CASE thr' = [thr EXCEPT ![t].pc = "retry", ![t].again = TRUE]
    <2> DEFINE th == [thr[t] EXCEPT !.pc = "retry", !.again = TRUE]
    <2>1. th \in Threads /\ th.pc = "retry"
      BY <1>0 DEF Threads, ThrPcs
    <2>2. thr' = [thr EXCEPT ![t] = th]
      BY <1>0, <1>3
    <2>3. QED
      BY <2>1, <2>2
  <1>4. ASSUME NEW m \in Candidates(thr[t].want),
               thr' = [thr EXCEPT ![t].pc = "claim", ![t].cand = m]
        PROVE  \E th \in Threads :
                 /\ thr' = [thr EXCEPT ![t] = th]
                 /\ th.pc \in {"idle", "retry", "claim"}
                 /\ th.pc = "claim" => th.cand \in Candidates(th.want)
    <2> DEFINE th == [thr[t] EXCEPT !.pc = "claim", !.cand = m]
    <2>1. m \in Modes
      BY DEF Candidates
    <2>2. th \in Threads /\ th.pc = "claim" /\ th.cand = m /\ th.want = thr[t].want
      BY <1>0, <2>1 DEF Threads, ThrPcs
    <2>3. thr' = [thr EXCEPT ![t] = th]
      BY <1>0, <1>4
    <2>4. QED
      BY <2>2, <2>3
  <1>5. QED
    BY <1>2, <1>3, <1>4 DEF NextCandidate, RoundFails

LEMMA StartSteps ==
  ASSUME IInv, NEW t \in Starters, Start(t)
  PROVE  IInv'
  <1> USE DEF bus, bounds
  <1>0. thr \in [Starters -> Threads] /\ thr[t] \in Threads /\ stream \in Streams
        /\ dev \in Devs /\ held \subseteq Ifs /\ disturbed \in BOOLEAN
    BY DEF IInv, Typed
  <1>1. ASSUME UNCHANGED <<device, gone, ctx, dev, held, driver, stranded, alt, stream, disturbed>>
        PROVE  Phases' /\ Balanced' /\ Backed' /\ StreamIsServed'
    BY <1>1 DEF IInv, Phases, Balanced, Backed, StreamIsServed, NoStreamOpen, Iso, Candidates, Modes
  <1>2. NoThread \in Threads /\ NoThread.pc = "idle"
    BY DEF NoThread, Threads, ThrPcs, Areas, Bufs
  <1>3. CASE BeginStart(t)
    <2>1. /\ Phases' /\ Balanced' /\ dev' \in Devs /\ held' \subseteq Ifs
          /\ stream'.pc = "none" /\ stream' \in Streams /\ disturbed' \in BOOLEAN
          /\ Backed' /\ StreamIsServed'
      BY <1>3, StopStep DEF BeginStart
    <2>2. PICK want \in Offered : thr' = [thr EXCEPT ![t].pc = "settle", ![t].want = want]
      BY <1>3 DEF BeginStart
    <2> DEFINE th == [thr[t] EXCEPT !.pc = "settle", !.want = want]
    <2>3. want \in Areas
      BY DEF Offered, Areas
    <2>4. th \in Threads /\ th.pc = "settle"
      BY <1>0, <2>3 DEF Threads, ThrPcs
    <2>5. thr' = [thr EXCEPT ![t] = th]
      BY <1>0, <2>2
    <2>6. UNCHANGED <<device, gone, ctx>> /\ ctx = "open"
          /\ \A s \in Starters : Critical(s) => s = t
      BY <1>3, LockFree DEF BeginStart
    <2> HIDE DEF th
    <2>7. Typed' /\ OneAtATime' /\ Chosen'
      BY <2>1, <2>4, <2>5, <2>6, ThreadStep
    <2>8. QED
      BY <2>1, <2>7 DEF IInv
  <1>4. CASE Negotiate(t)
    <2>1. PICK th \in Threads :
            /\ thr' = [thr EXCEPT ![t] = th]
            /\ th.pc \in {"idle", "retry", "claim"}
            /\ th.pc = "claim" => th.cand \in Candidates(th.want)
      BY <1>4, NextCandidateStep DEF Negotiate
    <2>2. /\ UNCHANGED <<device, gone, ctx, dev, held, driver, stranded, alt, stream, disturbed>>
          /\ ctx = "open" /\ \A s \in Starters : ~Critical(s)
      BY <1>4, LockFree DEF Negotiate, claims, kernel
    <2>3. stream.pc # "open"
      BY <2>2 DEF IInv, Chosen, Critical, Pauses
    <2>4. Typed' /\ OneAtATime' /\ Chosen'
      BY <1>0, <2>1, <2>2, <2>3, ThreadStep
    <2>5. QED
      BY <1>1, <2>2, <2>4 DEF IInv
  <1>5. CASE ClaimCandidate(t)
    <2> DEFINE th == [thr[t] EXCEPT !.pc = "probe"]
    <2>1. /\ UNCHANGED <<device, gone, ctx, stream, disturbed>> /\ thr[t].pc = "claim"
          /\ thr' = [thr EXCEPT ![t] = th]
          /\ Claimed(Streaming) \/ NotClaimed(Streaming)
      BY <1>0, <1>5 DEF ClaimCandidate, GoOn
    <2>2. th \in Threads /\ th.pc = "probe" /\ th.cand = thr[t].cand /\ th.want = thr[t].want
      BY <1>0 DEF Threads, ThrPcs
    <2>3. /\ \A s \in Starters : Critical(s) => s = t
          /\ ctx = "open" /\ stream.pc # "open"
      BY <2>1, HasLock
    <2>4. /\ Balanced' /\ held' \subseteq Ifs /\ dev' \in Devs /\ dev'.ref = dev.ref
          /\ alt' = alt /\ held \subseteq held'
      BY <1>0, <2>1, ClaimBalanced, NotClaimedBalanced DEF IInv, Ifs
    <2>5. th.cand \in Candidates(th.want)
      BY <2>1, <2>2 DEF IInv, Chosen
    <2> HIDE DEF th
    <2>6. Typed' /\ OneAtATime' /\ Chosen'
      BY <1>0, <2>1, <2>2, <2>3, <2>4, <2>5, ThreadStep
    <2>7. Phases'
      BY <2>1, <2>3, <2>4 DEF IInv, Phases
    <2>8. Backed' /\ StreamIsServed'
      BY <2>1, <2>4 DEF IInv, Backed, StreamIsServed, NoStreamOpen, Iso, Candidates, Modes
    <2>9. QED
      BY <2>4, <2>6, <2>7, <2>8 DEF IInv
  <1>6. CASE Probe(t)
    <2>1. /\ UNCHANGED <<device, gone, ctx, dev, held, driver, stranded, alt, stream, disturbed>>
          /\ thr[t].pc = "probe"
      BY <1>6 DEF Probe, claims, kernel
    <2>2. PICK payload \in Payloads, size \in Limits :
            thr' = [thr EXCEPT ![t].pc = "open", ![t].payload = payload,
                      ![t].size = IF size = 0 THEN device.modes[thr[t].cand].buf ELSE size]
      BY <1>6 DEF Probe
    <2> DEFINE limit == IF size = 0 THEN device.modes[thr[t].cand].buf ELSE size
               th == [thr[t] EXCEPT !.pc = "open", !.payload = payload, !.size = limit]
    <2>3. thr[t].cand \in Candidates(thr[t].want) /\ thr[t].cand \in Modes
      BY <2>1 DEF IInv, Chosen, Candidates
    <2>4. limit \in Bufs
      BY <2>3 DEF Bufs
    <2>5. thr' = [thr EXCEPT ![t] = th]
      BY <1>0, <2>2
    <2> HIDE DEF limit
    <2>6. th \in Threads /\ th.pc = "open" /\ th.cand = thr[t].cand /\ th.want = thr[t].want
      BY <1>0, <2>4 DEF Threads, ThrPcs
    <2>7. /\ \A s \in Starters : Critical(s) => s = t
          /\ ctx = "open" /\ stream.pc # "open"
      BY <2>1, HasLock
    <2> HIDE DEF th
    <2>8. Typed' /\ OneAtATime' /\ Chosen'
      BY <1>0, <2>1, <2>3, <2>5, <2>6, <2>7, ThreadStep
    <2>9. QED
      BY <1>1, <2>1, <2>8 DEF IInv
  <1>7. CASE ProbeFails(t)
    <2>1. PICK th \in Threads :
            /\ thr' = [thr EXCEPT ![t] = th]
            /\ th.pc \in {"idle", "retry", "claim"}
            /\ th.pc = "claim" => th.cand \in Candidates(th.want)
      BY <1>7, NextCandidateStep DEF ProbeFails
    <2>2. /\ UNCHANGED <<device, gone, ctx, stream>> /\ thr[t].pc = "probe"
          /\ Released({Streaming}) /\ disturbed' = (disturbed \/ ~NoStreamOpen)
      BY <1>7 DEF ProbeFails
    <2>3. /\ \A s \in Starters : Critical(s) => s = t
          /\ ctx = "open" /\ stream.pc # "open"
      BY <2>2, HasLock
    <2>4. Phases' /\ Balanced' /\ dev' \in Devs /\ held' \subseteq Ifs
      BY <2>2, <2>3, StreamingReleased
    <2>5. disturbed' \in BOOLEAN
      BY <1>0, <2>2
    <2>6. Typed' /\ OneAtATime' /\ Chosen'
      BY <1>0, <2>1, <2>2, <2>3, <2>4, <2>5, ThreadStep
    <2>7. Backed' /\ StreamIsServed'
      BY <1>0, <2>2, <2>3 DEF IInv, Backed, StreamIsServed, NoStreamOpen, Streams
    <2>8. QED
      BY <2>4, <2>6, <2>7 DEF IInv
  <1>8. CASE OpenCtrl(t)
    <2> DEFINE th == [thr[t] EXCEPT !.pc = "start"]
    <2>1. /\ UNCHANGED <<device, gone, ctx, disturbed>> /\ thr[t].pc = "open" /\ NoStreamOpen
          /\ thr' = [thr EXCEPT ![t] = th] /\ Claimed(Streaming)
          /\ stream' = [pc |-> "open", want |-> thr[t].want, cand |-> thr[t].cand,
                        payload |-> thr[t].payload, size |-> thr[t].size]
      BY <1>0, <1>8 DEF OpenCtrl, GoOn
    <2>2. th \in Threads /\ th.pc = "start" /\ stream'.pc = "open" /\ stream' \in Streams
          /\ stream'.cand = thr[t].cand /\ stream'.want = thr[t].want
      BY <1>0, <2>1 DEF Threads, Streams, ThrPcs
    <2>3. /\ \A s \in Starters : Critical(s) => s = t
          /\ ctx = "open"
      BY <2>1, HasLock
    <2>4. /\ Balanced' /\ held' \subseteq Ifs /\ dev' \in Devs /\ dev'.ref = dev.ref
          /\ alt' = alt /\ held' = held \cup {Streaming}
      BY <2>1, ClaimBalanced DEF IInv, Ifs
    <2> HIDE DEF th
    <2>5. Typed' /\ OneAtATime' /\ Chosen'
      BY <1>0, <2>1, <2>2, <2>3, <2>4, ThreadStep
    <2>6. Phases'
      BY <2>1, <2>3, <2>4 DEF IInv, Phases
    <2>7. thr[t].cand \in Candidates(thr[t].want)
      BY <2>1 DEF IInv, Chosen
    <2>8. Backed'
      BY <2>1, <2>2, <2>4, <2>7 DEF IInv, Backed, NoStreamOpen, Candidates, Modes
    <2>9. StreamIsServed'
      BY <2>2 DEF StreamIsServed
    <2>10. QED
      BY <2>4, <2>5, <2>6, <2>8, <2>9 DEF IInv
  <1>9. CASE OpenCtrlFails(t)
    <2>1. /\ UNCHANGED <<device, gone, ctx, stream, disturbed>>
          /\ thr[t].pc = "open" /\ thr' = [thr EXCEPT ![t] = NoThread]
          /\ UNCHANGED claims \/ Claimed(Streaming) \/ NotClaimed(Streaming)
      BY <1>9 DEF OpenCtrlFails, Returns
    <2>2. /\ \A s \in Starters : Critical(s) => s = t
          /\ ctx = "open" /\ stream.pc # "open"
      BY <2>1, HasLock
    <2>3. /\ Balanced' /\ held' \subseteq Ifs /\ dev' \in Devs /\ dev'.ref = dev.ref
          /\ alt' = alt /\ held \subseteq held'
      <3>1. CASE UNCHANGED claims
        BY <3>1, <2>1, <1>0 DEF IInv, Balanced, Typed, claims, kernel
      <3>2. CASE Claimed(Streaming) \/ NotClaimed(Streaming)
        BY <1>0, <2>1, <3>2, ClaimBalanced, NotClaimedBalanced DEF IInv, Ifs
      <3>3. QED
        BY <2>1, <3>1, <3>2
    <2>4. Typed' /\ OneAtATime' /\ Chosen'
      BY <1>0, <1>2, <2>1, <2>2, <2>3, ThreadStep
    <2>5. Phases'
      BY <2>1, <2>2, <2>3 DEF IInv, Phases
    <2>6. Backed' /\ StreamIsServed'
      BY <2>1, <2>3 DEF IInv, Backed, StreamIsServed, NoStreamOpen, Iso, Candidates, Modes
    <2>7. QED
      BY <2>3, <2>4, <2>5, <2>6 DEF IInv
  <1>10. CASE StreamStart(t)
    <2>1. /\ UNCHANGED <<device, gone, ctx, dev, held, driver, stranded, disturbed>>
          /\ thr[t].pc = "start" /\ thr' = [thr EXCEPT ![t] = NoThread]
          /\ stream' = [stream EXCEPT !.pc = "running"]
          /\ Iso => alt' \in Fitting /\ ~gone
          /\ ~Iso => alt' = alt
      BY <1>10 DEF StreamStart, Returns
    <2>2. /\ \A s \in Starters : Critical(s) => s = t
          /\ ctx = "open" /\ stream.pc = "open"
      BY <2>1, HasLock
    <2>3. /\ stream' \in Streams /\ stream'.pc = "running" /\ stream'.payload = stream.payload
          /\ stream'.cand = stream.cand /\ stream'.want = stream.want
      BY <1>0, <2>1 DEF Streams
    <2>4. Typed' /\ OneAtATime' /\ Chosen'
      BY <1>0, <1>2, <2>1, <2>2, <2>3, ThreadStep
    <2>5. Phases'
      BY <2>1 DEF IInv, Phases
    <2>6. ~disturbed /\ (~gone => Streaming \in held /\ stream.cand \in Candidates(stream.want))
      BY <2>2 DEF IInv, Backed, NoStreamOpen
    <2>7. Balanced'
      BY <2>1, <2>6 DEF IInv, Balanced
    <2>8. Backed'
      BY <2>1, <2>3, <2>6 DEF Backed, Candidates, Modes
    <2>9. StreamIsServed'
      BY <2>1, <2>3, <2>6 DEF StreamIsServed, Fitting, Fits, Iso, Candidates, Modes
    <2>10. QED
      BY <1>0, <2>1, <2>4, <2>5, <2>7, <2>8, <2>9 DEF IInv
  <1>11. CASE StreamStartFails(t)
    <2>1. /\ UNCHANGED <<device, gone, ctx>> /\ Released({Streaming}) /\ StreamEnded
          /\ thr[t].pc = "start" /\ thr' = [thr EXCEPT ![t] = NoThread]
      BY <1>11 DEF StreamStartFails, Returns
    <2>2. /\ \A s \in Starters : Critical(s) => s = t
          /\ ctx = "open"
      BY <2>1, HasLock
    <2>3. Phases' /\ Balanced' /\ dev' \in Devs /\ held' \subseteq Ifs
      BY <2>1, <2>2, StreamingReleased
    <2>4. /\ stream'.pc = "none" /\ stream' \in Streams /\ disturbed' = FALSE
          /\ Backed' /\ StreamIsServed'
      BY <2>1, StreamClosed
    <2>5. Typed' /\ OneAtATime' /\ Chosen'
      BY <1>2, <2>1, <2>2, <2>3, <2>4, ThreadStep
    <2>6. QED
      BY <2>3, <2>4, <2>5 DEF IInv
  <1>12. QED
    BY <1>3, <1>4, <1>5, <1>6, <1>7, <1>8, <1>9, <1>10, <1>11 DEF Start

(****************************************************************************)
(* What happens to the context and the device as a whole.                   *)
(****************************************************************************)
\* Threads that are not in the middle of a negotiation, and no stream that is half open.
LEMMA QuietStep ==
  ASSUME IInv, UNCHANGED <<device, thr>>, gone' \in BOOLEAN, ctx' = ctx,
         stream'.pc = "open" <=> stream.pc = "open", stream'.pc # "none" => stream.pc # "none",
         stream' \in Streams, dev' \in Devs, held' \subseteq Ifs, disturbed' \in BOOLEAN
  PROVE  Typed' /\ OneAtATime' /\ Chosen'
  <1>1. Areas' = Areas /\ Bufs' = Bufs /\ Modes' = Modes
    BY DEF Areas, Bufs, Modes
  <1>2. Threads' = Threads /\ Streams' = Streams
    BY <1>1 DEF Threads, Streams
  <1>3. Typed'
    BY <1>2 DEF IInv, Typed
  <1>4. OneAtATime'
    BY DEF IInv, OneAtATime, Critical, NoStreamOpen
  <1>5. Chosen'
    BY DEF IInv, Chosen, Candidates, Modes
  <1>6. QED
    BY <1>3, <1>4, <1>5

LEMMA OtherSteps ==
  ASSUME IInv, StopUVC \/ Cleanup \/ Unplug \/ Stream \/ UNCHANGED vars
  PROVE  IInv'
  <1> USE DEF bus, bounds
  <1>0. thr \in [Starters -> Threads] /\ stream \in Streams
        /\ dev \in Devs /\ held \subseteq Ifs /\ disturbed \in BOOLEAN /\ gone \in BOOLEAN
    BY DEF IInv, Typed
  <1>1. CASE StopUVC
    <2>1. UNCHANGED <<device, gone, ctx, thr>> /\ ctx = "open" /\ StopStreaming
          /\ \A s \in Starters : ~Critical(s)
      BY <1>1, LockFree DEF StopUVC
    <2>2. /\ Phases' /\ Balanced' /\ dev' \in Devs /\ held' \subseteq Ifs
          /\ stream'.pc = "none" /\ stream' \in Streams /\ disturbed' \in BOOLEAN
          /\ Backed' /\ StreamIsServed'
      BY <2>1, StopStep
    <2>3. stream.pc # "open"
      BY <2>1 DEF IInv, Chosen, Critical, Pauses
    <2>4. Typed' /\ OneAtATime' /\ Chosen'
      BY <1>0, <2>1, <2>2, <2>3, QuietStep
    <2>5. QED
      BY <2>2, <2>4 DEF IInv
  <1>2. CASE Cleanup
    <2>1. /\ UNCHANGED <<device, gone>> /\ ctx = "open" /\ ctx' = "closed" /\ StreamEnded
          /\ Returned(ToRelease \cup {Control}) /\ Unreferenced
          /\ thr' = [t \in Starters |-> NoThread]
      BY <1>2 DEF Cleanup
    <2>2. dev.ref = 2
      BY <2>1 DEF IInv, Phases
    <2>3. dev' \in Devs /\ dev'.ref = 0 /\ dev'.claimed = {}
      BY <2>1, <2>2 DEF Unreferenced, Devs
    <2>4. ToRelease \cup {Control} \in SUBSET Ifs
          /\ dev.claimed \ (ToRelease \cup {Control}) = {}
      BY <1>0 DEF ToRelease, Devs, Ifs
    <2>5. /\ Balanced' /\ held' \subseteq held
          /\ ~gone => held' = held \ (ToRelease \cup {Control})
      BY <2>1, <2>3, <2>4, ReturnBalanced DEF IInv
    <2>6. ~gone => held' = {}
      BY <2>4, <2>5 DEF IInv, Balanced
    <2>7. Phases'
      BY <2>1, <2>3, <2>6 DEF Phases
    <2>8. /\ stream'.pc = "none" /\ stream' \in Streams /\ disturbed' = FALSE
          /\ Backed' /\ StreamIsServed'
      BY <2>1, StreamClosed
    <2>9. NoThread \in Threads /\ NoThread.pc = "idle"
      BY DEF NoThread, Threads, ThrPcs, Areas, Bufs
    <2>10. Areas' = Areas /\ Bufs' = Bufs /\ Modes' = Modes
      BY <2>1 DEF Areas, Bufs, Modes
    <2>11. Threads' = Threads /\ Streams' = Streams
      BY <2>10 DEF Threads, Streams
    <2>12. Typed'
      BY <1>0, <2>1, <2>3, <2>5, <2>8, <2>9, <2>11 DEF Typed, CtxPcs
    <2>13. OneAtATime' /\ Chosen'
      BY <2>1, <2>8, <2>9 DEF OneAtATime, Chosen, Critical, Pauses, NoStreamOpen
    <2>14. QED
      BY <2>5, <2>7, <2>8, <2>12, <2>13 DEF IInv
  <1>3. CASE Unplug
    <2>1. gone' = TRUE /\ UNCHANGED <<device, driver, held, alt, stranded, dev, ctx, thr, stream, disturbed>>
      BY <1>3 DEF Unplug, claims, kernel
    <2>2. Typed' /\ OneAtATime' /\ Chosen'
      BY <1>0, <2>1, QuietStep
    <2>3. Phases' /\ Balanced' /\ Backed' /\ StreamIsServed'
      BY <2>1 DEF IInv, Phases, Balanced, Backed, StreamIsServed
    <2>4. QED
      BY <2>2, <2>3 DEF IInv
  <1>4. CASE Stream \/ UNCHANGED vars
    <2>1. UNCHANGED <<device, gone, driver, held, alt, stranded, dev, ctx, thr, stream, disturbed>>
      BY <1>4 DEF Stream, vars, claims, kernel
    <2>2. Typed' /\ OneAtATime' /\ Chosen'
      BY <1>0, <2>1, QuietStep
    <2>3. Phases' /\ Balanced' /\ Backed' /\ StreamIsServed'
      BY <2>1 DEF IInv, Phases, Balanced, Backed, StreamIsServed, NoStreamOpen, Iso, Candidates, Modes
    <2>4. QED
      BY <2>2, <2>3 DEF IInv
  <1>5. QED
    BY <1>1, <1>2, <1>3, <1>4

LEMMA Inductive == Spec => []IInv
  <1>1. IInv /\ [Next]_vars => IInv'
    BY OpenSteps, StartSteps, OtherSteps DEF Next
  <1>2. QED
    BY <1>1, InitIInv, PTL DEF Spec

(****************************************************************************)
(* The frames of a stream, first as facts about sequences of bytes: pub are *)
(* the frames published, g the bytes assembled, S the frames seen, F the    *)
(* frame that is being sent, s its bytes sent, d the last frame ID bit.     *)
(****************************************************************************)
Byte          == Assembly!Byte
Earlier(b, c) == Assembly!Earlier(b, c)

Arrived(b, S, F, s) == b[1] \in S /\ b[1] <= F /\ (b[1] = F => b[2] <= s)

\* The bytes of q have arrived, in order.
Good(q, S, F, s) ==
  /\ q \in Seq(Byte)
  /\ \A m, n \in DOMAIN q : m < n => Earlier(q[m], q[n])
  /\ \A n \in DOMAIN q : Arrived(q[n], S, F, s)

Before(p, q) == \A m \in DOMAIN p, n \in DOMAIN q : Earlier(p[m], q[n])

\* JoinedAfterLoss, for one frame.
Apart(j, k, S) == j < k => j + 1 < k /\ \A f \in S \cap (j .. k) : f % 2 = j % 2
Joins(q, S)    == \A m, n \in DOMAIN q : Apart(q[m][1], q[n][1], S)

\* What is assembled has the last frame ID bit, and so has all that was seen since.
Steady(q, S, d) ==
  \A n \in DOMAIN q : q[n][1] % 2 = d /\ \A f \in S : f >= q[n][1] => f % 2 = d

AllGood(pub, g, S, F, s) ==
  /\ pub \in Seq(Seq(Byte))
  /\ \A i \in DOMAIN pub : Good(pub[i], S, F, s) /\ Joins(pub[i], S) /\ Before(pub[i], g)
  /\ \A i, j \in DOMAIN pub : i < j => Before(pub[i], pub[j])

Assembled(pub, g, S, F, s, d) ==
  Good(g, S, F, s) /\ Steady(g, S, d) /\ AllGood(pub, g, S, F, s)

Run(F, s, k) == [i \in 1 .. k |-> <<F, s + i>>]

\* What has arrived stays so.
LEMMA ArrivedStays ==
  ASSUME NEW b \in Byte, NEW S \in SUBSET Nat, NEW T \in SUBSET Nat, NEW F \in Nat, NEW s \in Nat,
         NEW G \in Nat, NEW r \in Nat, Arrived(b, S, F, s), S \subseteq T, F < G \/ (F = G /\ s <= r)
  PROVE  Arrived(b, T, G, r)
  <1>1. b[1] \in Int /\ b[2] \in Int
    BY DEF Byte, Assembly!Byte
  <1>2. QED
    BY <1>1 DEF Arrived

LEMMA GoodStays ==
  ASSUME NEW q, NEW S \in SUBSET Nat, NEW T \in SUBSET Nat, NEW F \in Nat, NEW s \in Nat,
         NEW G \in Nat, NEW r \in Nat, Good(q, S, F, s), S \subseteq T, F < G \/ (F = G /\ s <= r)
  PROVE  Good(q, T, G, r)
  <1>1. \A n \in DOMAIN q : q[n] \in Byte
    BY DEF Good
  <1>2. \A n \in DOMAIN q : Arrived(q[n], T, G, r)
    BY <1>1, ArrivedStays DEF Good
  <1>3. QED
    BY <1>2 DEF Good

\* A frame that is seen late does not come between frames that were.
LEMMA JoinsStay ==
  ASSUME NEW q, NEW S \in SUBSET Nat, NEW F \in Nat, NEW s \in Nat, Good(q, S, F, s), Joins(q, S)
  PROVE  Joins(q, S \cup {F})
  <1> SUFFICES ASSUME NEW m \in DOMAIN q, NEW n \in DOMAIN q, q[m][1] < q[n][1]
               PROVE  /\ q[m][1] + 1 < q[n][1]
                      /\ \A f \in (S \cup {F}) \cap (q[m][1] .. q[n][1]) : f % 2 = q[m][1] % 2
    BY DEF Joins, Apart
  <1>1. q[m][1] \in S /\ q[n][1] \in S /\ q[n][1] <= F
    BY DEF Good, Arrived
  <1>2. /\ q[m][1] + 1 < q[n][1]
        /\ \A f \in S \cap (q[m][1] .. q[n][1]) : f % 2 = q[m][1] % 2
    BY DEF Joins, Apart
  <1>3. ASSUME F \in q[m][1] .. q[n][1] PROVE F = q[n][1]
    <2>1. q[m][1] \in Nat /\ q[n][1] \in Nat /\ q[n][1] <= F
      BY <1>1
    <2>2. F <= q[n][1]
      BY <1>3, <2>1
    <2>3. QED
      BY <2>1, <2>2
  <1>4. QED
    BY <1>1, <1>2, <1>3

\* Frames of the same frame ID bit are not neighbours.
LEMMA SteadyJoins ==
  ASSUME NEW q, NEW S \in SUBSET Nat, NEW F \in Nat, NEW s \in Nat, NEW d,
         Good(q, S, F, s), Steady(q, S, d)
  PROVE  Joins(q, S)
  <1> SUFFICES ASSUME NEW m \in DOMAIN q, NEW n \in DOMAIN q, q[m][1] < q[n][1]
               PROVE  /\ q[m][1] + 1 < q[n][1]
                      /\ \A f \in S \cap (q[m][1] .. q[n][1]) : f % 2 = q[m][1] % 2
    BY DEF Joins, Apart
  <1>1. q[m][1] \in Nat /\ q[n][1] \in Nat
    BY DEF Good, Arrived
  <1>2. q[m][1] % 2 = q[n][1] % 2
    BY DEF Steady
  <1>3. q[m][1] + 1 < q[n][1]
    BY <1>1, <1>2
  <1>4. \A f \in S \cap (q[m][1] .. q[n][1]) : f % 2 = q[m][1] % 2
    BY <1>1 DEF Steady
  <1>5. QED
    BY <1>3, <1>4

\* The camera goes on, and nothing arrives.
LEMMA Advance ==
  ASSUME NEW pub, NEW g, NEW d, NEW S \in SUBSET Nat, NEW F \in Nat, NEW s \in Nat,
         NEW G \in Nat, NEW r \in Nat, Assembled(pub, g, S, F, s, d), F < G \/ (F = G /\ s <= r)
  PROVE  Assembled(pub, g, S, G, r, d)
  <1>1. Good(g, S, G, r) /\ \A i \in DOMAIN pub : Good(pub[i], S, G, r)
    BY GoodStays DEF Assembled, AllGood
  <1>2. QED
    BY <1>1 DEF Assembled, AllGood

\* The buffer is published, and empty.
LEMMA Publish ==
  ASSUME NEW pub, NEW g, NEW d, NEW S \in SUBSET Nat, NEW F \in Nat, NEW s \in Nat,
         Assembled(pub, g, S, F, s, d)
  PROVE  /\ Assembled(Append(pub, g), <<>>, S, F, s, d)
         /\ \A i \in DOMAIN Append(pub, g) :
              Append(pub, g)[i] = IF i = Len(pub) + 1 THEN g ELSE pub[i]
         /\ DOMAIN Append(pub, g) = DOMAIN pub \cup {Len(pub) + 1}
  <1> DEFINE all == Append(pub, g)
  <1>1. pub \in Seq(Seq(Byte)) /\ g \in Seq(Byte)
    BY DEF Assembled, AllGood, Good
  <1>2. /\ all \in Seq(Seq(Byte)) /\ DOMAIN all = DOMAIN pub \cup {Len(pub) + 1}
        /\ \A i \in DOMAIN pub : all[i] = pub[i] /\ i < Len(pub) + 1
        /\ all[Len(pub) + 1] = g
    BY <1>1
  <1> HIDE DEF all
  <1>3. \A i \in DOMAIN all : i \in DOMAIN pub \/ i = Len(pub) + 1
    BY <1>2
  <1>4. Joins(g, S)
    BY SteadyJoins DEF Assembled
  <1>5. \A i \in DOMAIN all : Good(all[i], S, F, s) /\ Joins(all[i], S) /\ Before(all[i], <<>>)
    BY <1>2, <1>3, <1>4 DEF Assembled, AllGood, Before
  <1>6. \A i, j \in DOMAIN all : i < j => Before(all[i], all[j])
    <2> SUFFICES ASSUME NEW i \in DOMAIN all, NEW j \in DOMAIN all, i < j
                 PROVE  Before(all[i], all[j])
      OBVIOUS
    <2>1. i \in DOMAIN pub
      BY <1>1, <1>2, <1>3
    <2>2. CASE j \in DOMAIN pub
      BY <2>1, <2>2, <1>2 DEF Assembled, AllGood
    <2>3. CASE j = Len(pub) + 1
      BY <2>1, <2>3, <1>2 DEF Assembled, AllGood
    <2>4. QED
      BY <2>2, <2>3, <1>3
  <1>7. Good(<<>>, S, F, s) /\ Steady(<<>>, S, d)
    BY DEF Good, Steady
  <1>8. QED
    BY <1>2, <1>3, <1>5, <1>6, <1>7 DEF all, Assembled, AllGood

\* A payload is appended: the buffer is empty or has the frame ID bit of the payload.
LEMMA Extend ==
  ASSUME NEW pub, NEW g, NEW d, NEW S \in SUBSET Nat, NEW F \in Nat, NEW s \in Nat,
         NEW n \in Nat, NEW k \in 0 .. n,
         S \subseteq 0 .. F, F \in 1 .. MaxFrames, s + n <= MaxSize,
         Assembled(pub, g, S, F, s, d), g = <<>> \/ d = F % 2
  PROVE  Assembled(pub, g \o Run(F, s, k), S \cup {F}, F, s + n, F % 2)
  <1> DEFINE q == g \o Run(F, s, k)
             T == S \cup {F}
  <1> USE DeviceAssumption DEF DeviceAssumption
  <1>1. g \in Seq(Byte) /\ Run(F, s, k) \in Seq(Byte) /\ Len(Run(F, s, k)) = k
        /\ \A i \in 1 .. k : Run(F, s, k)[i] = <<F, s + i>>
    BY DEF Assembled, Good, Run, Byte, Assembly!Byte
  <1>2. /\ q \in Seq(Byte) /\ DOMAIN q = 1 .. Len(g) + k /\ Len(g) \in Nat /\ DOMAIN g = 1 .. Len(g)
        /\ \A i \in DOMAIN g : q[i] = g[i]
        /\ \A i \in 1 .. Len(g) + k : i > Len(g) => q[i] = <<F, s + (i - Len(g))>>
    <2> DEFINE R == Run(F, s, k)
    <2>1. R \in Seq(Byte) /\ Len(R) = k /\ \A i \in 1 .. k : R[i] = <<F, s + i>>
      BY <1>1
    <2> HIDE DEF R
    <2>2. /\ g \o R \in Seq(Byte) /\ Len(g \o R) = Len(g) + k /\ Len(g) \in Nat
          /\ DOMAIN g = 1 .. Len(g)
      <3>1. g \in Seq(Byte) /\ R \in Seq(Byte) /\ Len(R) = k
        BY <1>1, <2>1
      <3> HIDE DEF q
      <3>2. g \o R \in Seq(Byte)
        BY <3>1
      <3>3. Len(g \o R) = Len(g) + k
        BY <3>1
      <3>4. Len(g) \in Nat /\ DOMAIN g = 1 .. Len(g)
        BY <3>1
      <3>5. QED
        BY <3>2, <3>3, <3>4
    <2>4. DOMAIN (g \o R) = 1 .. Len(g) + k /\ \A i \in DOMAIN g : (g \o R)[i] = g[i]
      BY <1>1, <2>1, <2>2
    <2>3. ASSUME NEW i \in 1 .. Len(g) + k, i > Len(g)
          PROVE  (g \o R)[i] = <<F, s + (i - Len(g))>>
      <3>1. (g \o R)[i] = R[i - Len(g)] /\ i - Len(g) \in 1 .. k
        BY <1>1, <2>1, <2>3
      <3>2. QED
        BY <2>1, <3>1
    <2>5. QED
      BY <2>2, <2>3, <2>4 DEF R
  <1>3. \A i \in DOMAIN q :
          \/ i \in DOMAIN g /\ q[i] = g[i]
          \/ \E j \in 1 .. k : i = Len(g) + j /\ q[i] = <<F, s + j>>
    <2> HIDE DEF q
    <2> TAKE i \in DOMAIN q
    <2>1. CASE i <= Len(g)
      BY <1>2, <2>1
    <2>2. CASE i > Len(g)
      <3>1. i - Len(g) \in 1 .. k /\ i = Len(g) + (i - Len(g))
        BY <1>2, <2>2
      <3>2. q[i] = <<F, s + (i - Len(g))>>
        BY <1>2, <2>2
      <3>3. QED
        BY <3>1, <3>2
    <2>3. i \in Nat /\ Len(g) \in Nat
      BY <1>2
    <2>4. QED
      BY <2>1, <2>2, <2>3
  <1>4. T \in SUBSET Nat /\ S \subseteq T /\ F \in T /\ s + n \in Nat /\ s <= s + n
        /\ \A f \in T : f \in Nat /\ f <= F
    OBVIOUS
  <1>5. /\ Good(g, T, F, s + n) /\ \A i \in DOMAIN pub : Good(pub[i], T, F, s + n)
    BY <1>4, GoodStays DEF Assembled, AllGood
  <1>6. /\ \A i \in DOMAIN pub : Joins(pub[i], T)
        /\ \A i, j \in DOMAIN pub : i < j => Before(pub[i], pub[j])
    BY JoinsStay DEF Assembled, AllGood
  <1>7. \A b \in Byte, i \in 1 .. k : Arrived(b, S, F, s) => Earlier(b, <<F, s + i>>)
    BY DEF Byte, Assembly!Byte, Arrived, Earlier, Assembly!Earlier
  <1> HIDE DEF q, T
  <1>8. \A i \in DOMAIN q : Arrived(q[i], T, F, s + n)
    <2> TAKE i \in DOMAIN q
    <2>1. CASE i \in DOMAIN g
      BY <1>2, <1>5, <2>1 DEF Good
    <2>2. ASSUME NEW j \in 1 .. k, i = Len(g) + j, q[i] = <<F, s + j>> PROVE Arrived(q[i], T, F, s + n)
      BY <1>2, <1>4, <2>2 DEF Arrived
    <2>3. QED
      BY <1>3, <2>1, <2>2
  <1>9. ASSUME NEW i \in DOMAIN q, NEW j \in DOMAIN q, i < j PROVE Earlier(q[i], q[j])
    <2>1. CASE j \in DOMAIN g
      <3>1. i \in DOMAIN g
        BY <1>1, <1>2, <1>9, <2>1
      <3>2. QED
        BY <1>2, <1>9, <2>1, <3>1 DEF Assembled, Good
    <2>2. ASSUME NEW l \in 1 .. k, j = Len(g) + l, q[j] = <<F, s + l>>,
               i \in DOMAIN g, q[i] = g[i]
          PROVE  Earlier(q[i], q[j])
      <3>1. g[i] \in Byte /\ Arrived(g[i], S, F, s)
        BY <2>2 DEF Assembled, Good
      <3>2. Earlier(g[i], <<F, s + l>>)
        BY <1>7, <3>1
      <3>3. QED
        BY <2>2, <3>2
    <2>3. ASSUME NEW l \in 1 .. k, j = Len(g) + l, q[j] = <<F, s + l>>,
               NEW m \in 1 .. k, i = Len(g) + m, q[i] = <<F, s + m>>
          PROVE  Earlier(q[i], q[j])
      <3>1. m < l
        BY <1>2, <1>9, <2>3
      <3>2. Earlier(<<F, s + m>>, <<F, s + l>>)
        BY <3>1 DEF Earlier, Assembly!Earlier
      <3>3. QED
        BY <2>3, <3>2
    <2>4. QED
      BY <1>3, <2>1, <2>2, <2>3
  <1>10. Good(q, T, F, s + n)
    BY <1>2, <1>8, <1>9 DEF Good
  <1>11. Steady(q, T, F % 2)
    <2> SUFFICES ASSUME NEW i \in DOMAIN q
                 PROVE  /\ q[i][1] % 2 = F % 2
                        /\ \A f \in T : f >= q[i][1] => f % 2 = F % 2
      BY DEF Steady
    <2>1. CASE i \in DOMAIN g
      <3>1. d = F % 2 /\ q[i] = g[i]
        BY <1>1, <1>2, <2>1
      <3>2. QED
        BY <2>1, <3>1 DEF T, Assembled, Steady
    <2>2. ASSUME NEW j \in 1 .. k, i = Len(g) + j, q[i] = <<F, s + j>>
          PROVE  /\ q[i][1] % 2 = F % 2
                 /\ \A f \in T : f >= q[i][1] => f % 2 = F % 2
      <3>1. q[i][1] = F
        BY <1>2, <2>2
      <3>2. \A f \in T : f >= F => f = F
        BY <1>4
      <3>3. QED
        BY <3>1, <3>2
    <2>3. QED
      BY <1>3, <2>1, <2>2
  <1>12. \A i \in DOMAIN pub : Before(pub[i], q)
    <2> SUFFICES ASSUME NEW i \in DOMAIN pub, NEW m \in DOMAIN pub[i], NEW j \in DOMAIN q
                 PROVE  Earlier(pub[i][m], q[j])
      BY DEF Before
    <2>1. CASE j \in DOMAIN g
      BY <1>2, <2>1 DEF Assembled, AllGood, Before
    <2>2. ASSUME NEW l \in 1 .. k, j = Len(g) + l, q[j] = <<F, s + l>> PROVE Earlier(pub[i][m], q[j])
      <3>1. pub[i][m] \in Byte /\ Arrived(pub[i][m], S, F, s)
        BY DEF Assembled, AllGood, Good
      <3>2. QED
        BY <1>2, <1>7, <2>2, <3>1
    <2>3. QED
      BY <1>3, <2>1, <2>2
  <1>13. pub \in Seq(Seq(Byte))
    BY DEF Assembled, AllGood
  <1>14. QED
    BY <1>5, <1>6, <1>10, <1>11, <1>12, <1>13 DEF q, T, Assembled, AllGood

(****************************************************************************)
(* The same for the variables of a stream.                                  *)
(****************************************************************************)
Frame == Assembly!Frame
Size  == Assembly!Size

Camera ==
  /\ sizes \in Seq(1 .. MaxSize) /\ Frame <= MaxFrames /\ sent \in 0 .. Size /\ eof \in BOOLEAN
  /\ eof => Frame > 0 /\ sent = Size
  /\ seen \subseteq 1 .. Frame /\ fid \in {0, 1} /\ intact \in BOOLEAN

Buffer ==
  /\ stream.size \in Nat /\ Len(got) <= stream.size
  /\ \A i \in DOMAIN published : Len(published[i]) <= stream.size

InBuffer == Assembled(published, got, seen, Frame, sent, fid)

\* The frames in full: what is published, and what the buffer has, while nothing is lost.
FrameOf(i) == Run(i, 0, sizes[i])

\* A frame that has begun to arrive is in the buffer, or complete and published.
Arriving ==
  \/ /\ Len(published) = Frame - 1 /\ fid = Frame % 2
     /\ got = Run(Frame, 0, sent)
  \/ Len(published) = Frame /\ sent = Size /\ got = <<>>

\* Before that, the frame before it may wait for the frame ID bit to flip.
Waiting ==
  /\ sent = 0 /\ ~eof
  /\ \/ Frame = 0 /\ published = <<>> /\ got = <<>>
     \/ Frame > 0 /\ Len(published) = Frame - 1 /\ got = <<>>
     \/ Frame > 1 /\ Len(published) = Frame - 2 /\ got = FrameOf(Frame - 1) /\ fid = (Frame - 1) % 2

Lossless ==
  /\ \A i \in 1 .. Frame : sizes[i] <= stream.size
  /\ \A i \in DOMAIN published : i <= Frame /\ published[i] = FrameOf(i)
  /\ Frame \in seen => Arriving
  /\ Frame \notin seen => Waiting

Frames == Camera /\ Buffer /\ InBuffer /\ (intact => Lossless)

\* The stream has published nothing before it runs.
Idle == stream.pc # "running" => Assembly!Init

LEMMA InitFrames == Assembly!Init /\ stream.size \in Nat => Frames
  <1> SUFFICES ASSUME Assembly!Init, stream.size \in Nat PROVE Frames
    OBVIOUS
  <1> USE DeviceAssumption DEF DeviceAssumption, Assembly!Init
  <1>1. Frame = 0 /\ Size = 0
    BY DEF Frame, Size, Assembly!Frame, Assembly!Size
  <1>2. Camera
    <2>1. sizes \in Seq(1 .. MaxSize)
      OBVIOUS
    <2>2. Frame <= MaxFrames /\ sent \in 0 .. Size /\ seen \subseteq 1 .. Frame
      BY <1>1
    <2>3. eof = FALSE /\ fid \in {0, 1} /\ intact \in BOOLEAN
      OBVIOUS
    <2>4. QED
      BY <2>1, <2>2, <2>3 DEF Camera
  <1>3. Buffer
    BY DEF Buffer
  <1>4. InBuffer
    BY DEF InBuffer, Assembled, AllGood, Good, Steady
  <1>5. Lossless
    BY <1>1 DEF Lossless, Waiting
  <1>6. QED
    BY <1>2, <1>3, <1>4, <1>5 DEF Frames

LEMMA CameraFacts ==
  ASSUME Camera
  PROVE  /\ Frame \in 0 .. MaxFrames /\ Frame = Len(sizes) /\ DOMAIN sizes = 1 .. Frame
         /\ Size \in 0 .. MaxSize /\ sent \in 0 .. Size /\ sent \in Nat /\ Size \in Nat /\ Frame \in Nat
         /\ Frame > 0 => Size = sizes[Frame] /\ Size > 0
         /\ Frame = 0 => Size = 0 /\ sent = 0
         /\ \A i \in 1 .. Frame : sizes[i] \in 1 .. MaxSize
         /\ seen \in SUBSET Nat /\ seen \subseteq 0 .. Frame
  <1> USE DeviceAssumption DEF DeviceAssumption
  <1>1. sizes \in Seq(1 .. MaxSize) /\ Frame = Len(sizes) /\ Frame <= MaxFrames
    BY DEF Camera, Frame, Assembly!Frame
  <1>2. Frame \in 0 .. MaxFrames /\ DOMAIN sizes = 1 .. Frame
    BY <1>1
  <1>3. \A i \in 1 .. Frame : sizes[i] \in 1 .. MaxSize
    BY <1>1, <1>2
  <1>4. Frame = 0 <=> sizes = <<>>
    BY <1>1
  <1>5. CASE Frame = 0
    <2>1. Size = 0
      BY <1>4, <1>5 DEF Size, Assembly!Size
    <2>2. QED
      BY <1>1, <1>2, <1>3, <1>5, <2>1 DEF Camera
  <1>6. CASE Frame > 0
    <2>1. Size = sizes[Frame] /\ Frame \in 1 .. Frame
      BY <1>2, <1>4, <1>6 DEF Size, Assembly!Size, Frame
    <2>2. QED
      BY <1>1, <1>2, <1>3, <1>6, <2>1 DEF Camera
  <1>7. QED
    BY <1>2, <1>5, <1>6

\* The next frame of the camera.
LEMMA NextFrameStep ==
  ASSUME Frames, UNCHANGED stream, NEW size \in 1 .. MaxSize, Assembly!NextFrame(size)
  PROVE  Frames'
  <1> USE DeviceAssumption DEF DeviceAssumption
  <1>1. Camera /\ Buffer /\ InBuffer
    BY DEF Frames
  <1>2. /\ sent = Size /\ Frame < MaxFrames
        /\ sizes' = Append(sizes, size) /\ sent' = 0 /\ eof' = FALSE
        /\ intact' = (intact /\ size <= stream.size)
        /\ UNCHANGED <<got, fid, published, seen>>
    BY DEF Assembly!NextFrame, Frame, Size
  <1>3. sizes \in Seq(1 .. MaxSize)
    BY <1>1 DEF Camera
  <1>4. /\ sizes' \in Seq(1 .. MaxSize) /\ Len(sizes') = Len(sizes) + 1
        /\ sizes'[Len(sizes) + 1] = size
        /\ \A i \in 1 .. Len(sizes) : sizes'[i] = sizes[i]
    BY <1>2, <1>3
  <1>5. Frame' = Frame + 1 /\ Frame = Len(sizes) /\ Frame \in Nat
    BY <1>3, <1>4 DEF Frame, Assembly!Frame
  <1>6. Size' = size
    <2>1. sizes' # <<>>
      BY <1>4, <1>3
    <2>2. QED
      BY <1>4, <1>5, <2>1 DEF Size, Assembly!Size, Frame
  <1>7. Camera'
    <2>1. Frame' <= MaxFrames
      BY <1>2, <1>5
    <2>4. sent' \in 0 .. Size'
      BY <1>2, <1>6
    <2>5. eof' = FALSE
      BY <1>2
    <2>2. seen' \subseteq 1 .. Frame' /\ fid' \in {0, 1} /\ intact' \in BOOLEAN
      BY <1>1, <1>2, <1>5 DEF Camera
    <2>3. QED
      BY <1>4, <2>1, <2>2, <2>4, <2>5 DEF Camera
  <1>8. Buffer'
    BY <1>1, <1>2 DEF Buffer
  <1>9. InBuffer'
    <2>1. Assembled(published, got, seen, Frame', 0, fid)
      BY <1>1, <1>5, CameraFacts, Advance DEF InBuffer
    <2>2. QED
      BY <1>2, <2>1 DEF InBuffer
  <1>10. ASSUME intact' PROVE Lossless'
    <2>1. Lossless /\ size <= stream.size
      BY <1>2, <1>10 DEF Frames
    <2>2. \A i \in 1 .. Frame' : sizes'[i] <= stream'.size
      <3> TAKE i \in 1 .. Frame'
      <3>1. i \in 1 .. Frame \/ i = Frame + 1
        BY <1>5
      <3>2. QED
        BY <1>4, <1>5, <2>1, <3>1 DEF Lossless
    <2>3. \A i \in 1 .. Frame : FrameOf(i)' = FrameOf(i)
      BY <1>4, <1>5 DEF FrameOf, Run
    <2>4. \A i \in DOMAIN published : i \in 1 .. Frame /\ published[i] = FrameOf(i)
      <3>1. published \in Seq(Seq(Byte))
        BY <1>1 DEF InBuffer, Assembled, AllGood
      <3>2. QED
        BY <1>5, <2>1, <3>1 DEF Lossless
    <2>5. \A i \in DOMAIN published' : i <= Frame' /\ published'[i] = FrameOf(i)'
      BY <1>2, <1>5, <2>3, <2>4
    <2>6. Frame' \notin seen'
      BY <1>1, <1>2, <1>5 DEF Camera
    <2>7. Waiting'
      <3>1. CASE Frame \in seen
        <4>1. Arriving /\ Frame > 0
          BY <1>1, <1>5, <2>1, <3>1 DEF Lossless, Camera
        <4>2. PICK F \in {Frame} : F = Frame
          OBVIOUS
        <4>3. Run(F, 0, sent) = FrameOf(F)
          BY <1>1, <1>2, <4>1, <4>2, CameraFacts DEF FrameOf
        <4>4. FrameOf(F)' = FrameOf(F) /\ (Frame - 1)' = F
          BY <1>5, <2>3, <4>1, <4>2
        <4>5. FrameOf(Frame - 1)' = FrameOf(F)
          BY <4>4
        <4>6. CASE Len(published) = Frame /\ got = <<>>
          BY <1>2, <1>5, <4>6 DEF Waiting
        <4>7. CASE Len(published) = Frame - 1 /\ fid = Frame % 2 /\ got = Run(Frame, 0, sent)
          <5>1. got' = FrameOf(Frame - 1)' /\ fid' = (Frame - 1)' % 2 /\ Len(published') = Frame' - 2
            BY <1>2, <1>5, <4>2, <4>3, <4>4, <4>5, <4>7
          <5>2. sent' = 0 /\ ~eof' /\ Frame' > 1
            BY <1>2, <1>5, <4>1
          <5>3. QED
            BY <5>1, <5>2 DEF Waiting
        <4>8. QED
          BY <4>1, <4>6, <4>7 DEF Arriving
      <3>2. CASE Frame \notin seen
        <4>1. Waiting
          BY <2>1, <3>2 DEF Lossless
        <4>2. Frame = 0 /\ published = <<>> /\ got = <<>>
          BY <1>1, <1>2, <4>1, CameraFacts DEF Waiting
        <4>3. QED
          BY <1>2, <1>5, <4>2 DEF Waiting
      <3>3. QED
        BY <3>1, <3>2
    <2>8. QED
      BY <2>2, <2>5, <2>6, <2>7 DEF Lossless
  <1>11. QED
    BY <1>7, <1>8, <1>9, <1>10 DEF Frames

\* What every payload does to the camera.
Sends(n, last) ==
  /\ n \in Nat /\ n <= Size - sent /\ sent' = sent + n
  /\ last => sent + n = Size
  /\ n > 0 \/ last \/ sent = 0
  /\ Frame \in 1 .. MaxFrames /\ sent + n \in 0 .. Size /\ sent + n <= MaxSize
  /\ Frame' = Frame /\ Size' = Size /\ sizes' = sizes

LEMMA SendFacts ==
  ASSUME Camera, NEW n \in 0 .. MaxSize, NEW last \in BOOLEAN, Assembly!Send(n, last)
  PROVE  Sends(n, last) /\ eof' = last
  <1> USE DeviceAssumption DEF DeviceAssumption
  <1>1. /\ Frame > 0 /\ n <= Size - sent /\ (last => sent + n = Size)
        /\ n > 0 \/ last \/ sent = 0
        /\ sent' = sent + n /\ eof' = last /\ sizes' = sizes
    BY DEF Assembly!Send, Frame, Size
  <1>2. Frame' = Frame /\ Size' = Size
    BY <1>1 DEF Frame, Size, Assembly!Frame, Assembly!Size
  <1>3. /\ Frame \in 0 .. MaxFrames /\ Size \in 0 .. MaxSize /\ sent \in 0 .. Size
        /\ sent \in Nat /\ Size \in Nat /\ Frame \in Nat
    BY CameraFacts
  <1>4. Frame \in 1 .. MaxFrames /\ n \in Nat
    BY <1>1, <1>3
  <1>5. sent + n \in 0 .. Size /\ sent + n <= MaxSize
    BY <1>1, <1>3, <1>4
  <1>6. QED
    BY <1>1, <1>2, <1>4, <1>5 DEF Sends

LEMMA SendCamera ==
  ASSUME Camera, NEW n, NEW last \in BOOLEAN, Sends(n, last), eof' = last,
         seen' \subseteq seen \cup {Frame}, fid' \in {0, 1}, intact' \in BOOLEAN
  PROVE  Camera'
  <1>1. sizes' \in Seq(1 .. MaxSize) /\ Frame' <= MaxFrames
    BY DEF Camera, Sends
  <1>2. sent' \in 0 .. Size' /\ eof' \in BOOLEAN /\ (eof' => Frame' > 0 /\ sent' = Size')
    <2>1. sent' \in 0 .. Size'
      BY DEF Sends
    <2>2. last => Frame' > 0 /\ sent' = Size'
      BY DEF Sends
    <2>3. QED
      BY <2>1, <2>2
  <1>3. seen' \subseteq 1 .. Frame'
    BY DEF Camera, Sends
  <1>4. QED
    BY <1>1, <1>2, <1>3 DEF Camera

LEMMA PayloadLostStep ==
  ASSUME Frames, UNCHANGED stream, NEW n \in 0 .. MaxSize, NEW last \in BOOLEAN,
         Assembly!PayloadLost(n, last)
  PROVE  Frames'
  <1>1. Camera /\ Buffer /\ InBuffer
    BY DEF Frames
  <1>2. Assembly!Send(n, last) /\ intact' = FALSE /\ UNCHANGED <<got, fid, published, seen>>
    BY DEF Assembly!PayloadLost
  <1>3. Sends(n, last) /\ eof' = last
    BY <1>1, <1>2, SendFacts
  <1>4. Camera'
    <2>1. seen' \subseteq seen \cup {Frame} /\ fid' \in {0, 1}
      BY <1>1, <1>2 DEF Camera
    <2>2. intact' \in BOOLEAN
      BY <1>2
    <2>3. QED
      BY <1>1, <1>3, <2>1, <2>2, SendCamera
  <1>5. Buffer'
    BY <1>1, <1>2 DEF Buffer
  <1>6. InBuffer'
    <2>1. Frame \in Nat /\ sent \in Nat /\ seen \in SUBSET Nat
      BY <1>1, CameraFacts
    <2>2. sent + n \in Nat /\ sent <= sent + n /\ Frame' = Frame /\ sent' = sent + n
      BY <1>3, <2>1 DEF Sends
    <2>3. Assembled(published, got, seen, Frame, sent + n, fid)
      BY <1>1, <2>1, <2>2, Advance DEF InBuffer
    <2>4. QED
      BY <1>2, <2>2, <2>3 DEF InBuffer
  <1>7. QED
    BY <1>2, <1>4, <1>5, <1>6 DEF Frames

\* A payload that is processed: what the buffer has before it, once a flipped frame ID bit
\* has ended a frame, the bytes that fit, and the frame that may be over with them.
Ended(before, ended) ==
  \/ before = got /\ ended = published /\ (got = <<>> \/ fid = Frame % 2)
  \/ got # <<>> /\ fid # Frame % 2 /\ before = <<>> /\ ended = Append(published, got)

Fitted(before, n, k) ==
  /\ k \in 0 .. n /\ Len(before) + k <= stream.size
  /\ n <= stream.size - Len(before) => k = n

Handed(ended, after, n, last) ==
  \/ /\ n > 0 /\ (last \/ Len(after) = stream.size)
     /\ published' = Append(ended, after) /\ got' = <<>>
  \/ /\ ~(n > 0 /\ (last \/ Len(after) = stream.size))
     /\ published' = ended /\ got' = after

LEMMA CutBytes ==
  ASSUME NEW n \in Nat, NEW room \in Nat
  PROVE  \E k \in 0 .. n :
           /\ k <= room /\ (n <= room => k = n)
           /\ Assembly!Cut(Assembly!Bytes(n), room) = Run(Frame, sent, k)
  <1>1. Assembly!Bytes(n) = Run(Frame, sent, n)
    BY DEF Assembly!Bytes, Run, Frame
  <1>2. Len(Run(Frame, sent, n)) = n
    BY DEF Run
  <1>3. CASE n > room
    <2>1. SubSeq(Run(Frame, sent, n), 1, room) = Run(Frame, sent, room)
      BY <1>3 DEF Run
    <2>2. Assembly!Cut(Assembly!Bytes(n), room) = Run(Frame, sent, room)
      BY <1>1, <1>2, <1>3, <2>1 DEF Assembly!Cut
    <2>3. QED
      BY <1>3, <2>2
  <1>4. CASE ~(n > room)
    <2>1. Assembly!Cut(Assembly!Bytes(n), room) = Run(Frame, sent, n)
      BY <1>1, <1>2, <1>4 DEF Assembly!Cut
    <2>2. QED
      BY <1>4, <2>1
  <1>5. QED
    BY <1>3, <1>4

LEMMA PayloadShape ==
  ASSUME Frames, NEW n \in 0 .. MaxSize, NEW last \in BOOLEAN, Assembly!Payload(n, last)
  PROVE  /\ Sends(n, last) /\ eof' = last /\ fid' = Frame % 2 /\ seen' = seen \cup {Frame}
         /\ intact' = intact
         /\ \E before, ended : \E k \in Nat :
              /\ Ended(before, ended) /\ Fitted(before, n, k)
              /\ Handed(ended, before \o Run(Frame, sent, k), n, last)
  <1> USE DeviceAssumption DEF DeviceAssumption
  <1>1. Camera /\ Buffer /\ InBuffer
    BY DEF Frames
  <1> DEFINE before == IF Assembly!Flipped THEN <<>> ELSE got
             ended  == IF Assembly!Flipped THEN Append(published, got) ELSE published
             bytes  == Assembly!Cut(Assembly!Bytes(n), stream.size - Len(before))
             after  == before \o bytes
  <1>2. /\ Assembly!Send(n, last) /\ fid' = Frame % 2 /\ seen' = seen \cup {Frame}
        /\ intact' = intact
        /\ published' = IF n > 0 /\ (last \/ Len(after) = stream.size)
                          THEN Append(ended, after) ELSE ended
        /\ got' = IF n > 0 /\ (last \/ Len(after) = stream.size) THEN <<>> ELSE after
    BY DEF Assembly!Payload, Frame, Assembly!FrameId
  <1>3. Sends(n, last) /\ eof' = last
    BY <1>1, <1>2, SendFacts
  <1>4. Ended(before, ended)
    BY DEF Ended, Assembly!Flipped, Assembly!FrameId, Frame
  <1>5. stream.size - Len(before) \in Nat /\ Len(before) \in Nat /\ stream.size \in Nat
    <2>1. got \in Seq(Byte)
      BY <1>1 DEF InBuffer, Assembled, Good
    <2>2. Len(got) \in Nat
      BY <2>1
    <2>3. QED
      BY <1>1, <2>2 DEF Buffer
  <1>6. Handed(ended, after, n, last)
    BY <1>2 DEF Handed
  <1> HIDE DEF before, ended
  <1>7. n \in Nat
    OBVIOUS
  <1>8. PICK k \in 0 .. n :
          /\ k <= stream.size - Len(before) /\ (n <= stream.size - Len(before) => k = n)
          /\ bytes = Run(Frame, sent, k)
    <2>1. PICK room \in Nat : room = stream.size - Len(before)
      BY <1>5
    <2>2. \E k \in 0 .. n : /\ k <= room /\ (n <= room => k = n)
                            /\ Assembly!Cut(Assembly!Bytes(n), room) = Run(Frame, sent, k)
      BY <1>7, CutBytes
    <2>3. bytes = Assembly!Cut(Assembly!Bytes(n), room)
      BY <2>1
    <2> HIDE DEF bytes
    <2>4. QED
      BY <2>1, <2>2, <2>3
  <1>9. k \in Nat /\ Fitted(before, n, k)
    BY <1>5, <1>7, <1>8 DEF Fitted
  <1>10. Handed(ended, before \o Run(Frame, sent, k), n, last)
    BY <1>6, <1>8
  <1>11. QED
    BY <1>2, <1>3, <1>4, <1>9, <1>10

LEMMA AppendFacts ==
  ASSUME NEW Q, NEW q \in Seq(Q), NEW e \in Q
  PROVE  /\ Append(q, e) \in Seq(Q) /\ Len(Append(q, e)) = Len(q) + 1 /\ Len(q) \in Nat
         /\ \A i \in DOMAIN Append(q, e) :
              \/ i = Len(q) + 1 /\ Append(q, e)[i] = e
              \/ i \in DOMAIN q /\ Append(q, e)[i] = q[i]
  <1>1. /\ Append(q, e) \in Seq(Q) /\ Len(Append(q, e)) = Len(q) + 1 /\ Len(q) \in Nat
        /\ DOMAIN q = 1 .. Len(q) /\ DOMAIN Append(q, e) = 1 .. Len(q) + 1
    OBVIOUS
  <1>2. Append(q, e)[Len(q) + 1] = e /\ \A i \in DOMAIN q : Append(q, e)[i] = q[i]
    OBVIOUS
  <1>3. \A i \in DOMAIN Append(q, e) : i = Len(q) + 1 \/ i \in DOMAIN q
    BY <1>1
  <1>4. QED
    BY <1>1, <1>2, <1>3

LEMMA RunLen == \A F, s : \A k \in Nat : Len(Run(F, s, k)) = k
  BY DEF Run

LEMMA RunEmpty == \A F, s : Run(F, s, 0) = <<>>
  BY DEF Run

LEMMA RunJoin ==
  \A F : \A s, k \in Nat : Run(F, 0, s) \o Run(F, s, k) = Run(F, 0, s + k)
  BY DEF Run

\* The frames stay in order, and in the buffer.
LEMMA PayloadInBuffer ==
  ASSUME Frames, UNCHANGED stream, NEW n \in 0 .. MaxSize, NEW last \in BOOLEAN,
         Assembly!Payload(n, last)
  PROVE  InBuffer' /\ Buffer'
  <1>1. Camera /\ Buffer /\ InBuffer
    BY DEF Frames
  <1>2. /\ Sends(n, last) /\ fid' = Frame % 2 /\ seen' = seen \cup {Frame}
    BY PayloadShape
  <1>0. PICK before, ended : \E k \in Nat :
           /\ Ended(before, ended) /\ Fitted(before, n, k)
           /\ Handed(ended, before \o Run(Frame, sent, k), n, last)
    BY PayloadShape
  <1>3. PICK k \in Nat :
          /\ Ended(before, ended) /\ Fitted(before, n, k)
          /\ Handed(ended, before \o Run(Frame, sent, k), n, last)
    BY <1>0
  <1>4. /\ seen \in SUBSET Nat /\ seen \subseteq 0 .. Frame /\ Frame \in Nat /\ sent \in Nat
        /\ Frame \in 1 .. MaxFrames /\ sent + n <= MaxSize /\ n \in Nat
        /\ sent + n \in Nat /\ k \in 0 .. n /\ Frame' = Frame /\ sent' = sent + n
    BY <1>1, <1>2, <1>3, CameraFacts DEF Sends, Fitted
  <1> DEFINE after == before \o Run(Frame, sent, k)
  <1>5. Assembled(ended, before, seen, Frame, sent, fid) /\ (before = <<>> \/ fid = Frame % 2)
    <2>1. Assembled(Append(published, got), <<>>, seen, Frame, sent, fid)
      BY <1>1, <1>4, Publish DEF InBuffer
    <2>2. Assembled(published, got, seen, Frame, sent, fid)
      BY <1>1 DEF InBuffer
    <2>3. QED
      BY <1>3, <2>1, <2>2 DEF Ended
  <1>6. Assembled(ended, after, seen \cup {Frame}, Frame, sent + n, Frame % 2)
    BY <1>4, <1>5, Extend
  <1>7. seen \cup {Frame} \in SUBSET Nat
    BY <1>4
  <1> HIDE DEF after
  <1>8. Assembled(Append(ended, after), <<>>, seen \cup {Frame}, Frame, sent + n, Frame % 2)
    BY <1>4, <1>6, <1>7, Publish
  <1>9. Handed(ended, after, n, last)
    BY <1>3 DEF after
  <1>10. InBuffer'
    BY <1>2, <1>4, <1>6, <1>8, <1>9 DEF Handed, InBuffer
  <1>11. published \in Seq(Seq(Byte)) /\ got \in Seq(Byte) /\ ended \in Seq(Seq(Byte))
         /\ after \in Seq(Byte) /\ before \in Seq(Byte)
    BY <1>1, <1>5, <1>6 DEF InBuffer, Assembled, AllGood, Good
  <1>12. Len(after) <= stream.size
    <2>1. Len(Run(Frame, sent, k)) = k
      BY <1>4, RunLen
    <2>2. Run(Frame, sent, k) \in Seq(Byte)
      BY <1>4, DeviceAssumption DEF DeviceAssumption, Run, Byte, Assembly!Byte
    <2>3. Len(after) = Len(before) + k
      <3>1. \A p, q \in Seq(Byte) : Len(p \o q) = Len(p) + Len(q)
        OBVIOUS
      <3>2. Len(before \o Run(Frame, sent, k)) = Len(before) + Len(Run(Frame, sent, k))
        BY <1>11, <2>2, <3>1
      <3>3. QED
        BY <2>1, <3>2 DEF after
    <2>4. QED
      BY <1>3, <2>3 DEF Fitted
  <1>13. \A i \in DOMAIN ended : Len(ended[i]) <= stream.size
    <2>1. \A i \in DOMAIN Append(published, got) :
            Append(published, got)[i] = got \/ (i \in DOMAIN published /\ Append(published, got)[i] = published[i])
      BY <1>11, AppendFacts
    <2>2. QED
      BY <1>1, <1>3, <2>1 DEF Buffer, Ended
  <1>14. \A i \in DOMAIN Append(ended, after) :
           Append(ended, after)[i] = after \/ (i \in DOMAIN ended /\ Append(ended, after)[i] = ended[i])
    BY <1>11, AppendFacts
  <1>15. Len(<<>>) = 0 /\ stream.size \in Nat /\ stream'.size = stream.size
    BY <1>1 DEF Buffer
  <1>16. (published' = Append(ended, after) /\ got' = <<>>) \/ (published' = ended /\ got' = after)
    BY <1>9 DEF Handed
  <1>17. Len(got') <= stream.size
    BY <1>12, <1>15, <1>16
  <1>18. \A i \in DOMAIN published' : Len(published'[i]) <= stream.size
    BY <1>12, <1>13, <1>14, <1>16
  <1>19. Buffer'
    BY <1>15, <1>17, <1>18 DEF Buffer
  <1>20. QED
    BY <1>10, <1>19

\* While nothing is lost, a frame is whole when it is published.
LEMMA PayloadLossless ==
  ASSUME Frames, UNCHANGED stream, NEW n \in 0 .. MaxSize, NEW last \in BOOLEAN,
         Assembly!Payload(n, last), intact'
  PROVE  Lossless'
  <1>1. Camera /\ Buffer /\ InBuffer
    BY DEF Frames
  <1>2. /\ Sends(n, last) /\ eof' = last /\ fid' = Frame % 2 /\ seen' = seen \cup {Frame}
        /\ intact' = intact
    BY PayloadShape
  <1>0. PICK before, ended : \E k \in Nat :
           /\ Ended(before, ended) /\ Fitted(before, n, k)
           /\ Handed(ended, before \o Run(Frame, sent, k), n, last)
    BY PayloadShape
  <1>3. PICK k \in Nat :
          /\ Ended(before, ended) /\ Fitted(before, n, k)
          /\ Handed(ended, before \o Run(Frame, sent, k), n, last)
    BY <1>0
  <1>4. Lossless
    BY <1>2 DEF Frames
  <1>5. /\ Frame \in Nat /\ Frame > 0 /\ sent \in Nat /\ n \in Nat /\ Size \in Nat
        /\ Frame' = Frame /\ sent' = sent + n /\ sizes' = sizes /\ Size' = Size
        /\ sent + n <= Size /\ (last => sent + n = Size) /\ (n > 0 \/ last \/ sent = 0)
        /\ \A i \in 1 .. Frame : sizes[i] \in Nat /\ sizes[i] > 0
        /\ Size = sizes[Frame] /\ stream.size \in Nat /\ Size <= stream.size
    <2>1. /\ Frame \in Nat /\ Frame \in 1 .. MaxFrames /\ sent \in Nat /\ n \in Nat /\ Size \in Nat
          /\ Frame > 0 => Size = sizes[Frame]
          /\ \A i \in 1 .. Frame : sizes[i] \in 1 .. MaxSize
          /\ stream.size \in Nat
      BY <1>1, <1>2, CameraFacts DEF Sends, Buffer
    <2>2. Frame > 0 /\ Frame \in 1 .. Frame
      BY <2>1
    <2>3. Size <= stream.size
      BY <1>4, <2>1, <2>2 DEF Lossless
    <2>4. \A i \in 1 .. Frame : sizes[i] \in Nat /\ sizes[i] > 0
      BY <2>1, DeviceAssumption DEF DeviceAssumption
    <2>5. sent + n <= Size
      BY <1>2, <2>1 DEF Sends
    <2>6. QED
      BY <1>2, <2>1, <2>2, <2>3, <2>4, <2>5 DEF Sends
  <1>6. \A F : FrameOf(F)' = FrameOf(F)
    BY <1>5 DEF FrameOf, Run
  <1>7. published \in Seq(Seq(Byte)) /\ got \in Seq(Byte)
    BY <1>1 DEF InBuffer, Assembled, AllGood, Good
  <1>8. \A i \in DOMAIN published : i <= Frame /\ published[i] = FrameOf(i)
    BY <1>4 DEF Lossless
  <1>9. /\ Frame' \in seen'
        /\ \A i \in 1 .. Frame' : sizes'[i] <= stream'.size
    BY <1>2, <1>4, <1>5 DEF Lossless
  \* The frame is published already, and the payload is an end of frame without data.
  <1>10. CASE Frame \in seen /\ Len(published) = Frame /\ sent = Size /\ got = <<>>
    <2>1. n = 0 /\ k = 0
      BY <1>3, <1>5, <1>10 DEF Fitted
    <2>2. before = <<>> /\ ended = published
      BY <1>3, <1>10 DEF Ended
    <2>3. before \o Run(Frame, sent, k) = <<>>
      BY <1>5, <2>1, <2>2 DEF Run
    <2>4. published' = published /\ got' = <<>>
      BY <1>3, <2>1, <2>2, <2>3 DEF Handed
    <2>5. \A i \in DOMAIN published' : i <= Frame' /\ published'[i] = FrameOf(i)'
      BY <1>5, <1>6, <1>8, <2>4
    <2>6. Arriving'
      BY <1>5, <1>10, <2>1, <2>4 DEF Arriving
    <2>7. QED
      BY <1>9, <2>5, <2>6 DEF Lossless
  \* It is arriving: the buffer has the bytes sent, the published frames are those before.
  <1>11. ASSUME Len(ended) = Frame - 1, before = Run(Frame, 0, sent), ended \in Seq(Seq(Byte)),
                \A i \in DOMAIN ended : i <= Frame /\ ended[i] = FrameOf(i)
         PROVE  Lossless'
    <2>1. Len(before) = sent
      BY <1>5, <1>11, RunLen
    <2>2. k = n
      BY <1>3, <1>5, <2>1 DEF Fitted
    <2> DEFINE after == Run(Frame, 0, sent + n)
    <2>3. before \o Run(Frame, sent, k) = after
      BY <1>5, <1>11, <2>2, RunJoin
    <2>4. Len(after) = sent + n
      BY <1>5, RunLen
    <2>5. Handed(ended, after, n, last)
      BY <1>3, <2>3
    <2> HIDE DEF after
    <2>6. CASE published' = ended /\ got' = after
      <3>1. Arriving'
        BY <1>2, <1>5, <1>11, <2>6 DEF Arriving, after
      <3>2. \A i \in DOMAIN published' : i <= Frame' /\ published'[i] = FrameOf(i)'
        BY <1>5, <1>6, <1>11, <2>6
      <3>3. QED
        BY <1>9, <3>1, <3>2 DEF Lossless
    <2>7. CASE n > 0 /\ (last \/ Len(after) = stream.size)
               /\ published' = Append(ended, after) /\ got' = <<>>
      <3>1. sent + n = Size
        BY <1>5, <2>4, <2>7
      <3>2. PICK F \in {Frame} : F = Frame
        OBVIOUS
      <3>3. after = FrameOf(F)
        BY <1>5, <3>1, <3>2 DEF after, FrameOf
      <3>4. after \in Seq(Byte)
        <4>1. InBuffer'
          BY PayloadInBuffer
        <4>2. Append(ended, after) \in Seq(Seq(Byte))
          BY <2>7, <4>1 DEF InBuffer, Assembled, AllGood
        <4>3. Append(ended, after)[Len(ended) + 1] = after /\ Len(ended) \in Nat
              /\ Len(ended) + 1 \in DOMAIN Append(ended, after)
          BY <1>11
        <4>4. QED
          BY <4>2, <4>3
      <3>5. /\ Len(published') = Frame
            /\ \A i \in DOMAIN published' :
                 \/ i = Len(ended) + 1 /\ published'[i] = after
                 \/ i \in DOMAIN ended /\ published'[i] = ended[i]
        <4>1. /\ Len(Append(ended, after)) = Len(ended) + 1
              /\ \A i \in DOMAIN Append(ended, after) :
                   \/ i = Len(ended) + 1 /\ Append(ended, after)[i] = after
                   \/ i \in DOMAIN ended /\ Append(ended, after)[i] = ended[i]
          BY <1>11, <3>4, AppendFacts
        <4>2. QED
          BY <1>5, <1>11, <2>7, <4>1
      <3>6. \A i \in DOMAIN published' : i <= Frame' /\ published'[i] = FrameOf(i)'
        <4> TAKE i \in DOMAIN published'
        <4>1. CASE i = Len(ended) + 1 /\ published'[i] = after
          <5>1. i = F /\ i <= Frame'
            BY <1>5, <1>11, <3>2, <4>1
          <5>2. QED
            BY <1>6, <3>3, <4>1, <5>1
        <4>2. CASE i \in DOMAIN ended /\ published'[i] = ended[i]
          BY <1>5, <1>6, <1>11, <4>2
        <4>3. QED
          BY <3>5, <4>1, <4>2
      <3>7. Arriving'
        BY <1>5, <2>7, <3>1, <3>5 DEF Arriving
      <3>8. QED
        BY <1>9, <3>6, <3>7 DEF Lossless
    <2>8. QED
      BY <2>5, <2>6, <2>7 DEF Handed
  <1>12. CASE Frame \in seen /\ Len(published) = Frame - 1 /\ fid = Frame % 2
              /\ got = Run(Frame, 0, sent)
    <2>1. before = got /\ ended = published
      BY <1>3, <1>12 DEF Ended
    <2>2. QED
      BY <1>7, <1>8, <1>11, <1>12, <2>1
  <1>13. CASE sent = 0 /\ Len(published) = Frame - 1 /\ got = <<>>
    <2>1. before = got /\ ended = published
      BY <1>3, <1>13 DEF Ended
    <2>2. Run(Frame, 0, sent) = <<>>
      BY <1>5, <1>13, RunEmpty
    <2>3. QED
      BY <1>7, <1>8, <1>11, <1>13, <2>1, <2>2
  <1>14. CASE /\ sent = 0 /\ Frame > 1 /\ Len(published) = Frame - 2
              /\ got = FrameOf(Frame - 1) /\ fid = (Frame - 1) % 2
    <2>1. PICK F \in {Frame - 1} : F = Frame - 1
      OBVIOUS
    <2>2. F \in 1 .. Frame /\ F \in Nat
      BY <1>5, <1>14, <2>1
    <2>3. got = Run(F, 0, sizes[F]) /\ sizes[F] \in Nat /\ sizes[F] > 0
      BY <1>5, <1>14, <2>1, <2>2 DEF FrameOf
    <2>4. Len(got) > 0
      BY <2>2, <2>3, RunLen
    <2>5. got # <<>>
      BY <2>4
    <2>6. fid # Frame % 2
      BY <1>5, <1>14
    <2>7. before = <<>> /\ ended = Append(published, got)
      BY <1>3, <2>5, <2>6 DEF Ended
    <2>8. /\ ended \in Seq(Seq(Byte)) /\ Len(ended) = Len(published) + 1
          /\ \A i \in DOMAIN ended :
               \/ i = Len(published) + 1 /\ ended[i] = got
               \/ i \in DOMAIN published /\ ended[i] = published[i]
      BY <1>7, <2>7, AppendFacts
    <2>9. \A i \in DOMAIN ended : i <= Frame /\ ended[i] = FrameOf(i)
      <3> TAKE i \in DOMAIN ended
      <3>1. CASE i = Len(published) + 1 /\ ended[i] = got
        <4>1. i = F /\ i <= Frame
          BY <1>5, <1>14, <2>1, <3>1
        <4>2. QED
          BY <2>3, <3>1, <4>1 DEF FrameOf
      <3>2. CASE i \in DOMAIN published /\ ended[i] = published[i]
        BY <1>8, <3>2
      <3>3. QED
        BY <2>8, <3>1, <3>2
    <2>10. Run(Frame, 0, sent) = <<>> /\ Len(ended) = Frame - 1
      BY <1>5, <1>14, <2>8, RunEmpty
    <2>11. QED
      BY <1>11, <2>7, <2>8, <2>9, <2>10
  <1>15. QED
    <2>1. CASE Frame \in seen
      BY <1>4, <1>10, <1>12, <2>1 DEF Lossless, Arriving
    <2>2. CASE Frame \notin seen
      BY <1>4, <1>5, <1>13, <1>14, <2>2 DEF Lossless, Waiting
    <2>3. QED
      BY <2>1, <2>2

LEMMA PayloadStep ==
  ASSUME Frames, UNCHANGED stream, NEW n \in 0 .. MaxSize, NEW last \in BOOLEAN,
         Assembly!Payload(n, last)
  PROVE  Frames'
  <1>1. Camera
    BY DEF Frames
  <1>2. /\ Sends(n, last) /\ eof' = last /\ fid' = Frame % 2 /\ seen' = seen \cup {Frame}
        /\ intact' = intact
    BY PayloadShape
  <1>3. Camera'
    <2>1. fid' \in {0, 1}
      BY <1>2 DEF Sends
    <2>2. intact' \in BOOLEAN
      BY <1>1, <1>2 DEF Camera
    <2>3. QED
      BY <1>1, <1>2, <2>1, <2>2, SendCamera
  <1>4. QED
    BY <1>3, PayloadInBuffer, PayloadLossless DEF Frames

LEMMA StreamFrames ==
  ASSUME Frames, Stream
  PROVE  Frames'
  <1>1. UNCHANGED stream /\ Assembly!Next
    BY DEF Stream
  <1>2. CASE \E size \in 1 .. MaxSize : Assembly!NextFrame(size)
    BY <1>1, <1>2, NextFrameStep
  <1>3. ASSUME NEW n \in 0 .. MaxSize, NEW last \in BOOLEAN, Assembly!Payload(n, last)
        PROVE  Frames'
    BY <1>1, <1>3, PayloadStep
  <1>4. ASSUME NEW n \in 0 .. MaxSize, NEW last \in BOOLEAN, Assembly!PayloadLost(n, last)
        PROVE  Frames'
    BY <1>1, <1>4, PayloadLostStep
  <1>5. QED
    BY <1>1, <1>2, <1>3, <1>4 DEF Assembly!Next

(****************************************************************************)
(* Streams that come and go: the frames are those of the last stream, from  *)
(* its start, and the buffers have its size as long as it runs.             *)
(****************************************************************************)
\* What a step other than a payload may do to them.
Renewed ==
  \/ Assembly!Init'
  \/ UNCHANGED <<frames, stream>>
  \/ UNCHANGED frames /\ stream.pc = "open" /\ stream'.pc = "running" /\ stream'.size = stream.size
  \/ UNCHANGED frames /\ stream.pc = "none"

LEMMA EndedIsNew ==
  ASSUME StreamEnded
  PROVE  Renewed
  BY DEF StreamEnded, Assembly!Reset, Assembly!Init, Renewed

LEMMA RenewSteps ==
  ASSUME IInv, [Next]_vars, ~Stream
  PROVE  Renewed
  <1>1. ASSUME StopStreaming PROVE Renewed
    BY <1>1, EndedIsNew DEF StopStreaming, Renewed
  <1>2. CASE Open \/ GetInfo \/ InfoFails \/ ClaimControl \/ ControlBusy \/ SubmitStatus
             \/ OpenFailed \/ CloseConnection \/ Unplug \/ UNCHANGED vars
    BY <1>2 DEF Open, GetInfo, InfoFails, ClaimControl, ControlBusy, SubmitStatus, OpenFailed,
                CloseConnection, Unplug, vars, Renewed
  <1>3. CASE StopUVC \/ Cleanup
    BY <1>1, <1>3, EndedIsNew DEF StopUVC, Cleanup
  <1>4. ASSUME NEW t \in Starters, Start(t) PROVE Renewed
    <2>1. CASE BeginStart(t)
      BY <1>1, <2>1 DEF BeginStart
    <2>2. CASE Negotiate(t) \/ ClaimCandidate(t) \/ Probe(t) \/ ProbeFails(t) \/ OpenCtrlFails(t)
      BY <2>2 DEF Negotiate, ClaimCandidate, Probe, ProbeFails, OpenCtrlFails, Renewed
    <2>3. CASE OpenCtrl(t)
      BY <2>3 DEF OpenCtrl, NoStreamOpen, Renewed
    <2>4. CASE StreamStart(t)
      <3>1. thr[t].pc = "start" /\ UNCHANGED frames /\ stream' = [stream EXCEPT !.pc = "running"]
        BY <2>4 DEF StreamStart
      <3>2. stream.pc = "open" /\ stream \in Streams
        BY <3>1, HasLock DEF IInv, Typed
      <3>3. QED
        BY <3>1, <3>2 DEF Streams, Renewed
    <2>5. CASE StreamStartFails(t)
      BY <2>5, EndedIsNew DEF StreamStartFails
    <2>6. QED
      BY <1>4, <2>1, <2>2, <2>3, <2>4, <2>5 DEF Start
  <1>5. QED
    BY <1>2, <1>3, <1>4 DEF Next

\* The sizes a camera negotiates are numbers.
LEMMA SizeIsNat == device \in Cameras /\ stream \in Streams => stream.size \in Nat
  <1> SUFFICES ASSUME device \in Cameras, stream \in Streams PROVE stream.size \in Nat
    OBVIOUS
  <1>1. device.modes \in Seq(Mode) /\ Limits \subseteq Nat
    BY DeviceAssumption DEF DeviceAssumption
  <1>2. \A m \in Modes : device.modes[m] \in Mode
    BY <1>1 DEF Modes
  <1>3. Bufs \subseteq Nat
    <2>1. \A m \in Modes : device.modes[m].buf \in Nat
      BY <1>2 DEF Mode
    <2>2. SUFFICES ASSUME NEW b \in Bufs PROVE b \in Nat
      OBVIOUS
    <2>3. b \in {device.modes[m].buf : m \in Modes} \/ b \in Limits \/ b = 0
      BY DEF Bufs
    <2>4. CASE b \in {device.modes[m].buf : m \in Modes}
      <3>1. PICK m \in Modes : b = device.modes[m].buf
        BY <2>4
      <3>2. QED
        BY <2>1, <3>1
    <2>5. CASE b \in Limits
      BY <1>1, <2>5
    <2>6. QED
      BY <2>3, <2>4, <2>5
  <1>4. QED
    BY <1>3 DEF Streams

FInv == device \in Cameras /\ Frames /\ Idle

LEMMA RenewedFrames ==
  ASSUME FInv, Renewed, stream'.size \in Nat
  PROVE  Frames' /\ Idle'
  <1>0. (Assembly!Init /\ stream.size \in Nat => Frames)'
    BY InitFrames, PTL
  <1>1. CASE Assembly!Init'
    BY <1>0, <1>1 DEF Idle
  <1>2. CASE UNCHANGED frames /\ stream.pc = "none"
    <2>1. Assembly!Init'
      BY <1>2 DEF FInv, Idle, Assembly!Init, frames
    <2>2. QED
      BY <1>0, <2>1 DEF Idle
  <1>3. ASSUME UNCHANGED frames, stream'.size = stream.size PROVE Frames'
    <2> USE <1>3 DEF frames
    <2>1. Frame' = Frame /\ Size' = Size
      BY DEF Frame, Size, Assembly!Frame, Assembly!Size
    <2>2. Camera' /\ Buffer' /\ InBuffer'
      BY <2>1 DEF FInv, Frames, Camera, Buffer, InBuffer
    <2>3. Lossless => Lossless'
      BY <2>1 DEF Lossless, Arriving, Waiting, FrameOf, Run
    <2>4. QED
      BY <2>2, <2>3 DEF FInv, Frames
  <1>4. (stream.pc # "running" /\ UNCHANGED frames) => Assembly!Init'
    BY DEF FInv, Idle, Assembly!Init, frames
  <1>5. CASE UNCHANGED <<frames, stream>>
    <2>1. Frames'
      BY <1>3, <1>5
    <2>2. Idle'
      BY <1>4, <1>5 DEF Idle
    <2>3. QED
      BY <2>1, <2>2
  <1>6. CASE UNCHANGED frames /\ stream'.pc = "running" /\ stream'.size = stream.size
    BY <1>3, <1>6 DEF Idle
  <1>7. QED
    BY <1>1, <1>2, <1>5, <1>6 DEF Renewed

LEMMA FramesInductive == Spec => [](IInv /\ FInv)
  <1>1. Init => FInv
    <2> SUFFICES ASSUME Init PROVE FInv
      OBVIOUS
    <2>1. IInv /\ device \in Cameras /\ Assembly!Init
      BY InitIInv DEF Init
    <2>2. stream.size \in Nat
      BY <2>1, SizeIsNat DEF IInv, Typed
    <2>3. QED
      BY <2>1, <2>2, InitFrames DEF FInv, Idle
  <1>2. IInv /\ FInv /\ [Next]_vars => IInv'
    BY OpenSteps, StartSteps, OtherSteps DEF Next
  <1>3. IInv /\ FInv /\ IInv' /\ [Next]_vars => FInv'
    <2> SUFFICES ASSUME IInv, FInv, IInv', [Next]_vars PROVE FInv'
      OBVIOUS
    <2>1. device' = device
      BY DEF Next, Start, vars, bus, Open, GetInfo, InfoFails, ClaimControl, ControlBusy, SubmitStatus,
             OpenFailed, BeginStart, Negotiate, ClaimCandidate, Probe, ProbeFails, OpenCtrl, OpenCtrlFails,
             StreamStart, StreamStartFails, StopUVC, Cleanup, CloseConnection, Unplug, Stream
    <2>2. device' \in Cameras
      BY <2>1 DEF FInv
    <2>3. CASE Stream
      <3>1. Frames' /\ UNCHANGED stream
        BY <2>3, StreamFrames DEF FInv, Stream
      <3>2. Idle'
        BY <2>3, <3>1 DEF Idle, Stream
      <3>3. QED
        BY <2>2, <3>1, <3>2 DEF FInv
    <2>4. CASE ~Stream
      <3>1. (device \in Cameras /\ stream \in Streams => stream.size \in Nat)'
        BY SizeIsNat, PTL
      <3>2. stream'.size \in Nat
        BY <2>2, <3>1 DEF IInv, Typed
      <3>3. QED
        BY <2>2, <2>4, <3>2, RenewSteps, RenewedFrames DEF FInv
    <2>5. QED
      BY <2>3, <2>4
  <1>4. QED
    BY <1>1, <1>2, <1>3, InitIInv, PTL DEF Spec

\* What the invariant says of the frames.
LEMMA FramesAreIntact == Frames => FramesIntact
  <1> SUFFICES ASSUME Frames PROVE FramesIntact
    OBVIOUS
  <1>1. Camera /\ InBuffer /\ AllGood(published, got, seen, Frame, sent)
    BY DEF Frames, InBuffer, Assembled
  <1>2. Assembly!InOrder
    BY <1>1 DEF AllGood, Good, Before, Earlier, Assembly!InOrder
  <1>3. Assembly!JoinedAfterLoss
    BY <1>1 DEF AllGood, Joins, Apart, Assembly!JoinedAfterLoss
  <1>4. Assembly!WholeWithoutLoss
    <2> SUFFICES ASSUME intact
                 PROVE  /\ Len(published) <= Frame /\ \A i \in DOMAIN published : Assembly!Whole(i)
                        /\ Len(published) >= IF Frame \in seen THEN Frame - 1 ELSE Frame - 2
      BY DEF Assembly!WholeWithoutLoss, Frame
    <2>1. Lossless /\ Frame \in Nat
      BY <1>1, CameraFacts DEF Frames
    <2>2. Frame \in seen => Len(published) = Frame - 1 \/ Len(published) = Frame
      BY <2>1 DEF Lossless, Arriving
    <2>3. Frame \notin seen => Len(published) \in {0, Frame - 1, Frame - 2} /\ Len(published) >= Frame - 2
                               /\ Len(published) <= Frame
      BY <2>1 DEF Lossless, Waiting
    <2>4. \A i \in DOMAIN published : Assembly!Whole(i)
      BY <2>1 DEF Lossless, FrameOf, Run, Assembly!Whole
    <2>5. QED
      BY <2>1, <2>2, <2>3, <2>4
  <1>5. QED
    BY <1>2, <1>3, <1>4 DEF FramesIntact, Assembly!FramesIntact

LEMMA FramesTyped == Frames => Assembly!TypeOK
  <1> SUFFICES ASSUME Frames PROVE Assembly!TypeOK
    OBVIOUS
  <1>1. Camera /\ Buffer /\ InBuffer
    BY DEF Frames
  <1>2. /\ sizes \in Seq(1 .. MaxSize) /\ Frame <= MaxFrames /\ sent \in 0 .. Size /\ eof \in BOOLEAN
        /\ fid \in {0, 1} /\ intact \in BOOLEAN
    BY <1>1 DEF Camera
  <1>3. got \in Seq(Byte) /\ published \in Seq(Seq(Byte))
    BY <1>1 DEF InBuffer, Assembled, AllGood, Good
  <1>4. seen \subseteq 1 .. MaxFrames
    <2>1. Frame \in 0 .. MaxFrames /\ seen \subseteq 1 .. Frame
      BY <1>1, CameraFacts DEF Camera
    <2>2. QED
      BY <2>1, DeviceAssumption DEF DeviceAssumption
  <1>5. QED
    BY <1>1, <1>2, <1>3, <1>4 DEF Buffer, Byte, Frame, Size, Assembly!TypeOK

(****************************************************************************)
(* Types of the device.                                                     *)
(****************************************************************************)
Kinds ==
  /\ device \in Cameras
  /\ driver \subseteq device.drivers /\ stranded \subseteq Ifs /\ alt \in DOMAIN device.alts
  /\ opens \in 0 .. MaxOpens /\ starts \in 0 .. MaxStarts

\* What claims and releases leave as it was.
Rebound == driver' \subseteq device.drivers /\ stranded' \subseteq Ifs /\ alt' \in DOMAIN device.alts

LEMMA AltOne ==
  ASSUME device \in Cameras
  PROVE  1 \in DOMAIN device.alts
  <1>1. device.alts \in Seq(Nat) /\ device.alts # <<>>
    BY DeviceAssumption DEF DeviceAssumption
  <1>2. QED
    BY <1>1

LEMMA ClaimsRebind ==
  ASSUME Kinds
  PROVE  /\ \A i \in Ifs : Claimed(i) \/ NotClaimed(i) => Rebound
         /\ \A S : Released(S) \/ Returned(S) => Rebound
         /\ UNCHANGED claims \/ UNCHANGED kernel => Rebound
  <1>1. ASSUME NEW i \in Ifs, Claimed(i) \/ NotClaimed(i) PROVE Rebound
    BY <1>1 DEF Claimed, NotClaimed, Kinds, Rebound
  <1>2. ASSUME NEW S, Returned(S) PROVE Rebound
    <2>1. driver' \subseteq device.drivers
      BY <1>2 DEF Returned, Kinds
    <2>2. stranded' \subseteq Ifs /\ (alt' = 1 \/ alt' = alt)
      BY <1>2 DEF Returned, Kinds
    <2>3. QED
      BY <2>1, <2>2, AltOne DEF Kinds, Rebound
  <1>3. UNCHANGED claims \/ UNCHANGED kernel => Rebound
    BY DEF claims, kernel, Kinds, Rebound
  <1>4. QED
    BY <1>1, <1>2, <1>3 DEF Released

LEMMA KindsInductive == Spec => []Kinds
  <1> USE DeviceAssumption DEF DeviceAssumption
  <1>1. Init => Kinds
    BY AltOne DEF Init, Kinds
  <1>2. Kinds /\ [Next]_vars => Kinds'
    <2> SUFFICES ASSUME Kinds, [Next]_vars PROVE Kinds'
      OBVIOUS
    <2>1. device' = device
      BY DEF Next, Start, vars, bus, Open, GetInfo, InfoFails, ClaimControl, ControlBusy,
             SubmitStatus, OpenFailed, BeginStart, Negotiate, ClaimCandidate, Probe, ProbeFails, OpenCtrl,
             OpenCtrlFails, StreamStart, StreamStartFails, StopUVC, Cleanup, CloseConnection, Unplug, Stream
    <2>2. opens' \in 0 .. MaxOpens /\ starts' \in 0 .. MaxStarts
      <3>1. CASE Open
        BY <3>1 DEF Open, Kinds
      <3>2. CASE \E t \in Starters : BeginStart(t)
        BY <3>2 DEF BeginStart, Kinds
      <3>3. CASE UNCHANGED bounds
        BY <3>3 DEF bounds, Kinds
      <3>4. QED
        BY <3>1, <3>2, <3>3
           DEF Next, Start, vars, GetInfo, InfoFails, ClaimControl, ControlBusy,
             SubmitStatus, OpenFailed, Negotiate, ClaimCandidate, Probe, ProbeFails, OpenCtrl,
             OpenCtrlFails, StreamStart, StreamStartFails, StopUVC, Cleanup, CloseConnection, Unplug, Stream
    <2>3. Rebound
      <3>1. Control \in Ifs /\ Streaming \in Ifs
        BY DEF Ifs
      <3>2. /\ \A i \in Ifs : Claimed(i) \/ NotClaimed(i) => Rebound
            /\ \A S : Released(S) \/ Returned(S) => Rebound
            /\ UNCHANGED claims \/ UNCHANGED kernel => Rebound
        BY ClaimsRebind
      <3>3. CASE Open \/ GetInfo \/ InfoFails \/ ClaimControl \/ ControlBusy \/ SubmitStatus \/ OpenFailed
        BY <3>1, <3>2, <3>3 DEF Open, GetInfo, InfoFails, ClaimControl, ControlBusy, SubmitStatus, OpenFailed
      <3>4. StopStreaming => Rebound
        BY <3>2 DEF StopStreaming
      <3>5. CASE StopUVC \/ Cleanup \/ Unplug \/ Stream \/ UNCHANGED vars
        BY <3>2, <3>4, <3>5 DEF StopUVC, Cleanup, Unplug, Stream, vars
      <3>6. CASE CloseConnection
        BY <3>6 DEF CloseConnection, Kinds, Rebound
      <3>7. ASSUME NEW t \in Starters, Start(t) PROVE Rebound
        <4>1. CASE StreamStart(t)
          BY <4>1 DEF StreamStart, Fitting, Kinds, Rebound
        <4>2. CASE BeginStart(t)
          BY <3>4, <4>2 DEF BeginStart
        <4>3. CASE Negotiate(t) \/ ClaimCandidate(t) \/ Probe(t) \/ ProbeFails(t) \/ OpenCtrl(t)
                   \/ OpenCtrlFails(t) \/ StreamStartFails(t)
          BY <3>1, <3>2, <4>3
             DEF Negotiate, ClaimCandidate, Probe, ProbeFails, OpenCtrl, OpenCtrlFails, StreamStartFails
        <4>4. QED
          BY <3>7, <4>1, <4>2, <4>3 DEF Start
      <3>8. QED
        BY <3>3, <3>5, <3>6, <3>7 DEF Next
    <2>4. QED
      BY <2>1, <2>2, <2>3 DEF Kinds, Rebound
  <1>3. QED
    BY <1>1, <1>2, PTL DEF Spec

(****************************************************************************)
(* The theorems.                                                            *)
(****************************************************************************)
\* What the library believes to have claimed, the kernel holds; drivers are back when the
\* interface is; a closed context has neither interface, nor reference, nor stream.
\* (uvc_claim_if, uvc_release_if, uvc_open_internal, cleanup)
THEOREM Accounted == Spec => []NothingLeftBehind
  <1>1. IInv => NothingLeftBehind
    BY DEF IInv, NothingLeftBehind, Balanced, Phases, OneAtATime
  <1>2. QED
    BY <1>1, Inductive, PTL

\* A running stream has its interface, packets of the size its payloads need, and a mode
\* that was asked for.  (negotiate_mjpeg_stream_ctrl, uvc_stream_open_ctrl, uvc_stream_start)
THEOREM Served == Spec => []StreamIsServed
  <1>1. IInv => StreamIsServed
    BY DEF IInv
  <1>2. QED
    BY <1>1, Inductive, PTL
\* The variables have their types, and what is assembled fits into buffers of the size
\* that was negotiated for the stream.  (uvc_stream_open_ctrl, _uvc_process_payload)
THEOREM TypeCorrect == Spec => []TypeOK
  <1>1. IInv /\ FInv /\ Kinds => TypeOK
    <2> SUFFICES ASSUME IInv, FInv, Kinds PROVE TypeOK
      OBVIOUS
    <2>1. /\ device \in Cameras /\ gone \in BOOLEAN
          /\ driver \subseteq device.drivers /\ held \subseteq Ifs /\ stranded \subseteq Ifs
          /\ alt \in DOMAIN device.alts /\ ctx \in CtxPcs
      BY DEF IInv, Typed, FInv, Kinds
    <2>2. dev.ref \in 0 .. 2 /\ dev.claimed \subseteq Ifs
      BY DEF IInv, Typed, Devs
    <2>3. \A t \in Starters : thr[t].pc \in ThrPcs /\ thr[t].cand \in Modes \cup {0}
      BY DEF IInv, Typed, Threads
    <2>4. stream.pc \in {"none", "open", "running"}
      BY DEF IInv, Typed, Streams
    <2>5. opens <= MaxOpens /\ starts <= MaxStarts
      BY DeviceAssumption DEF DeviceAssumption, Kinds
    <2>6. Assembly!TypeOK
      BY FramesTyped DEF FInv
    <2>7. QED
      BY <2>1, <2>2, <2>3, <2>4, <2>5, <2>6 DEF TypeOK
  <1>2. QED
    BY <1>1, FramesInductive, KindsInductive, PTL

\* Frames are published in order, each byte once; a frame joins two of the camera's only
\* over a loss that the frame ID bit cannot show; without losses every frame of the camera
\* is published once and whole.  (_uvc_process_payload, uvc_stream_start)
THEOREM FramesHold == Spec => []FramesIntact
  <1>1. FInv => FramesIntact
    BY FramesAreIntact DEF FInv
  <1>2. QED
    BY <1>1, FramesInductive, PTL

=============================================================================
