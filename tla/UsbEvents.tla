------------------------------ MODULE UsbEvents ------------------------------
(****************************************************************************)
(* Who handles libusb's events (io.c, core.c, sync.c).  The event thread of *)
(* native-lib.cpp and every thread in libusb_control_transfer loop in       *)
(* libusb_handle_events_timeout_completed: one of them takes events_lock    *)
(* and polls, the others wait for it on event_waiters_cond.  libusb_close   *)
(* keeps them all out with device_close and takes events_lock itself.       *)
(*                                                                          *)
(* A transfer is known here by the thread that waits for it; what happens   *)
(* to it is the subject of UsbTransfers.  The build has a timerfd, so that  *)
(* get_next_timeout finds no expired timeout.  A poll that fails, and the   *)
(* cancellation it leads to in a synchronous transfer, are left out.        *)
(****************************************************************************)
EXTENDS Integers, FiniteSets

CONSTANTS
  EventThread,  \* global_usb_event_thread
  Syncs,        \* threads in libusb_control_transfer, all on one device handle
  Closer,       \* the thread that closes that handle
  OtherClosers  \* threads that close the handles of other devices

Closers == {Closer} \cup OtherClosers
Loopers == {EventThread} \cup Syncs
Threads == Loopers \cup Closers

ASSUME EventsAssumption == /\ EventThread \notin Syncs \cup Closers
                           /\ Syncs \cap Closers = {} /\ Closer \notin OtherClosers
                           /\ IsFiniteSet(Closers)

VARIABLES
  pc,           \* control state of each thread
  eventsLock,   \* the holder of events_lock
  active,       \* event_handler_active
  waitersLock,  \* the holder of event_waiters_lock
  sleeping,     \* the threads that wait on event_waiters_cond
  deviceClose,  \* device_close
  xfer,         \* the transfer of each Sync: "flying", "ended" (to be reaped), "done"
                \* (called back), or "orphan" (do_close has taken its dev_handle)
  completed     \* *completed of each Sync

vars == <<pc, eventsLock, active, waitersLock, sleeping, deviceClose, xfer, completed>>

Nobody == "nobody"

Init ==
  /\ pc = [p \in Threads |-> IF p \in Loopers THEN "loop" ELSE "idle"]
  /\ eventsLock = Nobody /\ active = FALSE
  /\ waitersLock = Nobody /\ sleeping = {}
  /\ deviceClose = 0
  /\ xfer = [s \in Syncs |-> "flying"]
  /\ completed = [s \in Syncs |-> FALSE]

Go(p, to) == pc' = [pc EXCEPT ![p] = to]
Finished(p) == p \in Syncs /\ completed[p]

\* The device: a transfer that is still known ends.
TransferEnds(s) ==
  /\ xfer[s] = "flying"
  /\ xfer' = [xfer EXCEPT ![s] = "ended"]
  /\ UNCHANGED <<pc, eventsLock, active, waitersLock, sleeping, deviceClose, completed>>

(****************************************************************************)
(* The loop of the event thread, and sync_transfer_wait_for_completion      *)
(****************************************************************************)
Loop(p) ==
  /\ pc[p] = "loop"
  /\ Go(p, IF Finished(p) THEN "returned" ELSE "check")
  /\ UNCHANGED <<eventsLock, active, waitersLock, sleeping, deviceClose, xfer, completed>>

\* Mutant: the loop is left after one round.
AfterwardsOnce(p) ==
  /\ pc[p] = "afterwards"
  /\ Go(p, IF p \in Syncs THEN "returned" ELSE "loop")
  /\ UNCHANGED <<eventsLock, active, waitersLock, sleeping, deviceClose, xfer, completed>>

\* After a round: a transfer without a device handle is complete.
Afterwards(p) ==
  /\ pc[p] = "afterwards"
  /\ completed' = [s \in Syncs |-> completed[s] \/ (s = p /\ xfer[s] = "orphan")]
  /\ Go(p, "loop")
  /\ UNCHANGED <<eventsLock, active, waitersLock, sleeping, deviceClose, xfer>>

(****************************************************************************)
(* libusb_try_lock_events and handle_events                                 *)
(****************************************************************************)
\* Mutant: device_close is not looked at.
CheckNothing(p) ==
  /\ pc[p] = "check"
  /\ Go(p, "try")
  /\ UNCHANGED <<eventsLock, active, waitersLock, sleeping, deviceClose, xfer, completed>>

Check(p) ==
  /\ pc[p] = "check"
  /\ Go(p, IF deviceClose > 0 THEN "lockWaiters" ELSE "try")
  /\ UNCHANGED <<eventsLock, active, waitersLock, sleeping, deviceClose, xfer, completed>>

TryLock(p) ==
  /\ pc[p] = "try"
  /\ IF eventsLock = Nobody
     THEN eventsLock' = p /\ Go(p, "locked")
     ELSE Go(p, "lockWaiters") /\ UNCHANGED eventsLock
  /\ UNCHANGED <<active, waitersLock, sleeping, deviceClose, xfer, completed>>

\* event_handler_active is set by the holder of events_lock.
Activate(p) ==
  /\ pc[p] = "locked"
  /\ active' = TRUE
  /\ Go(p, IF p \in Closers THEN "close" ELSE IF Finished(p) THEN "deactivate" ELSE "poll")
  /\ UNCHANGED <<eventsLock, waitersLock, sleeping, deviceClose, xfer, completed>>

\* A completion that was reaped: sync_transfer_cb runs under event_waiters_lock.
Handle(p, s) ==
  /\ pc[p] \in {"poll", "handling"} /\ xfer[s] = "ended" /\ waitersLock = Nobody
  /\ xfer' = [xfer EXCEPT ![s] = "done"]
  /\ completed' = [completed EXCEPT ![s] = TRUE]
  /\ Go(p, "handling")
  /\ UNCHANGED <<eventsLock, active, waitersLock, sleeping, deviceClose>>

\* poll returns without an URB: a close has signalled the event, or the time is
\* up (100 ms in the event thread, 60 s elsewhere).
PollReturns(p) ==
  /\ pc[p] = "poll" /\ \A s \in Syncs : xfer[s] # "ended"
  /\ Go(p, "deactivate")
  /\ UNCHANGED <<eventsLock, active, waitersLock, sleeping, deviceClose, xfer, completed>>

EventsHandled(p) ==
  /\ pc[p] = "handling"
  /\ Go(p, "deactivate")
  /\ UNCHANGED <<eventsLock, active, waitersLock, sleeping, deviceClose, xfer, completed>>

(****************************************************************************)
(* libusb_unlock_events                                                     *)
(****************************************************************************)
Deactivate(p) ==
  /\ pc[p] = "deactivate"
  /\ active' = FALSE
  /\ Go(p, "unlock")
  /\ UNCHANGED <<eventsLock, waitersLock, sleeping, deviceClose, xfer, completed>>

UnlockEvents(p) ==
  /\ pc[p] = "unlock"
  /\ eventsLock' = Nobody
  /\ Go(p, "broadcast")
  /\ UNCHANGED <<active, waitersLock, sleeping, deviceClose, xfer, completed>>

After(p) == IF p \in Closers THEN "returned" ELSE "afterwards"

\* Mutant: the waiters are left asleep.
BroadcastNothing(p) ==
  /\ pc[p] = "broadcast"
  /\ Go(p, After(p))
  /\ UNCHANGED <<eventsLock, active, waitersLock, sleeping, deviceClose, xfer, completed>>

Broadcast(p) ==
  /\ pc[p] = "broadcast" /\ waitersLock = Nobody
  /\ sleeping' = {}
  /\ Go(p, After(p))
  /\ UNCHANGED <<eventsLock, active, waitersLock, deviceClose, xfer, completed>>

(****************************************************************************)
(* The waiters                                                              *)
(****************************************************************************)
LockWaiters(p) ==
  /\ pc[p] = "lockWaiters" /\ waitersLock = Nobody
  /\ waitersLock' = p
  /\ Go(p, "waiter")
  /\ UNCHANGED <<eventsLock, active, sleeping, deviceClose, xfer, completed>>

\* libusb_event_handler_active.
HandlerActive == deviceClose > 0 \/ active

AlreadyDone(p) ==
  /\ pc[p] = "waiter" /\ Finished(p)
  /\ waitersLock' = Nobody
  /\ Go(p, "afterwards")
  /\ UNCHANGED <<eventsLock, active, sleeping, deviceClose, xfer, completed>>

Retry(p) ==
  /\ pc[p] = "waiter" /\ ~Finished(p) /\ ~HandlerActive
  /\ waitersLock' = Nobody
  /\ Go(p, "check")
  /\ UNCHANGED <<eventsLock, active, sleeping, deviceClose, xfer, completed>>

Decide(p) ==
  /\ pc[p] = "waiter" /\ ~Finished(p) /\ HandlerActive
  /\ Go(p, "wait")
  /\ UNCHANGED <<eventsLock, active, waitersLock, sleeping, deviceClose, xfer, completed>>

Wait(p) ==
  /\ pc[p] = "wait"
  /\ waitersLock' = Nobody /\ sleeping' = sleeping \cup {p}
  /\ Go(p, "asleep")
  /\ UNCHANGED <<eventsLock, active, deviceClose, xfer, completed>>

WakeUp(p) ==
  /\ pc[p] = "asleep" /\ p \notin sleeping /\ waitersLock = Nobody
  /\ Go(p, "afterwards")
  /\ UNCHANGED <<eventsLock, active, waitersLock, sleeping, deviceClose, xfer, completed>>

\* The wait has a limit too; nothing below relies on it.
WaitRunsOut(p) ==
  /\ p \in sleeping
  /\ sleeping' = sleeping \ {p}
  /\ UNCHANGED <<pc, eventsLock, active, waitersLock, deviceClose, xfer, completed>>

(****************************************************************************)
(* libusb_close                                                             *)
(****************************************************************************)
CloseBegins(c) ==
  /\ c \in Closers /\ pc[c] = "idle"
  /\ deviceClose' = deviceClose + 1
  /\ Go(c, "lockEvents")
  /\ UNCHANGED <<eventsLock, active, waitersLock, sleeping, xfer, completed>>

LockEvents(c) ==
  /\ pc[c] = "lockEvents" /\ eventsLock = Nobody
  /\ eventsLock' = c
  /\ Go(c, "locked")
  /\ UNCHANGED <<active, waitersLock, sleeping, deviceClose, xfer, completed>>

\* Mutant: the transfers keep their dev_handle, but are not reaped either.
DoCloseKeepsHandle(c) ==
  /\ pc[c] = "close"
  /\ xfer' = [s \in Syncs |-> IF c = Closer /\ xfer[s] \in {"flying", "ended"}
                              THEN "lost" ELSE xfer[s]]
  /\ Go(c, "closed")
  /\ UNCHANGED <<eventsLock, active, waitersLock, sleeping, deviceClose, completed>>

\* The transfers in flight on the handle lose it and are never reaped.
DoClose(c) ==
  /\ pc[c] = "close"
  /\ xfer' = [s \in Syncs |-> IF c = Closer /\ xfer[s] \in {"flying", "ended"}
                              THEN "orphan" ELSE xfer[s]]
  /\ Go(c, "closed")
  /\ UNCHANGED <<eventsLock, active, waitersLock, sleeping, deviceClose, completed>>

\* Mutant: device_close stays raised.
CloseEndsRaised(c) ==
  /\ pc[c] = "closed"
  /\ Go(c, "deactivate")
  /\ UNCHANGED <<eventsLock, active, waitersLock, sleeping, deviceClose, xfer, completed>>

CloseEnds(c) ==
  /\ pc[c] = "closed"
  /\ deviceClose' = deviceClose - 1
  /\ Go(c, "deactivate")
  /\ UNCHANGED <<eventsLock, active, waitersLock, sleeping, xfer, completed>>

(****************************************************************************)
(* Specification                                                            *)
(****************************************************************************)
HandleSteps(p) ==
  \/ Activate(p) \/ (\E s \in Syncs : Handle(p, s)) \/ PollReturns(p) \/ EventsHandled(p)
  \/ Deactivate(p) \/ UnlockEvents(p) \/ Broadcast(p)

LoopSteps(p) ==
  \/ Loop(p) \/ Afterwards(p) \/ Check(p) \/ TryLock(p)
  \/ LockWaiters(p) \/ AlreadyDone(p) \/ Retry(p) \/ Decide(p) \/ Wait(p) \/ WakeUp(p)

CloseSteps(c) == LockEvents(c) \/ DoClose(c) \/ CloseEnds(c)

ThreadSteps(p) == HandleSteps(p) \/ LoopSteps(p) \/ CloseSteps(p)

Next ==
  \/ \E p \in Threads : ThreadSteps(p) \/ WaitRunsOut(p) \/ CloseBegins(p)
  \/ \E s \in Syncs : TransferEnds(s)

Spec == Init /\ [][Next]_vars

\* Every thread runs.  event_waiters_lock is held for moments only, and a thread
\* that wants it again and again gets it.  A thread does not lose the race that
\* leads to a retry for ever: it would have to find events_lock taken each time
\* it tries and just released each time it looks.  A close gets events_lock only
\* if it stays free: the others hold it for most of the time, and nothing but
\* device_close makes room.
TakesWaitersLock(p) ==
  LockWaiters(p) \/ WakeUp(p) \/ Broadcast(p) \/ \E s \in Syncs : Handle(p, s)

RetriesEnd(p) == <>[][~Retry(p)]_vars

Fairness == \A p \in Threads :
  WF_vars(ThreadSteps(p)) /\ SF_vars(TakesWaitersLock(p)) /\ RetriesEnd(p)

FairSpec == Spec /\ Fairness

(****************************************************************************)
(* Properties                                                               *)
(****************************************************************************)
Pcs == {"idle", "loop", "returned", "check", "try", "locked", "poll", "handling",
        "deactivate", "unlock", "broadcast", "afterwards", "lockWaiters", "waiter", "wait",
        "asleep", "lockEvents", "close", "closed"}

\* The variables have their types; device_close counts the threads in libusb_close
\* until they have closed.  (libusb_close)
TypeOK ==
  /\ pc \in [Threads -> Pcs]
  /\ eventsLock \in Threads \cup {Nobody} /\ active \in BOOLEAN
  /\ waitersLock \in Threads \cup {Nobody} /\ sleeping \subseteq Loopers
  /\ deviceClose = Cardinality({c \in Closers : pc[c] \in {"lockEvents", "locked", "close", "closed"}})
  /\ xfer \in [Syncs -> {"flying", "ended", "done", "orphan"}]
  /\ completed \in [Syncs -> BOOLEAN]

\* The transfer and the variable "completed" are the waiting thread's own: it
\* returns only when no thread can call back any more.
\* (libusb_control_transfer, sync_transfer_cb, do_close)
StackOutlivesTransfer ==
  \A s \in Syncs : pc[s] = "returned" => xfer[s] \in {"done", "orphan"}

\* A control transfer returns once its URB is back or its handle is closed,
\* whoever of the threads handles the events, and without a wait that runs out.
\* (libusb_handle_events_timeout_completed, libusb_unlock_events)
SyncReturns == \A s \in Syncs : xfer[s] # "flying" ~> pc[s] = "returned"

\* libusb_close returns however busy the others are with events.
\* (libusb_try_lock_events)
CloseReturns == \A c \in Closers : pc[c] # "idle" ~> pc[c] = "returned"

\* Someone always gets to poll again.  (libusb_event_handler_active)
EventsGoOn == []<>(\E p \in Loopers : pc[p] = "poll")
=============================================================================
