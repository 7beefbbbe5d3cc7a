---------------------------- MODULE UsbTransfers ----------------------------
(****************************************************************************)
(* The life of libusb's transfers on Linux (io.c, os/linux_usbfs.c): their  *)
(* submission as one or more URBs, cancellation, timeouts, the reaping of   *)
(* the URBs, disconnection, the callbacks and the resubmission from them.   *)
(*                                                                          *)
(* One thread at a time handles events (UsbEvents has the protocol); any    *)
(* thread submits and cancels.  A section under flying_transfers_lock or    *)
(* under a transfer's lock is one step; only a submission keeps the         *)
(* transfer's lock over two.  An ioctl is a call of the kernel, which is    *)
(* modelled from the way linux_usbfs.c uses it.                             *)
(****************************************************************************)
EXTENDS Integers, Sequences, SequencesExt, FiniteSets, FiniteSetsExt, Functions

CONSTANTS
  Transfers,
  Kinds,      \* which kinds a transfer may have: "bulk", "iso", "control"
  NumUrbs,    \* into how many URBs it is split
  MaxSubmits, \* bound: submissions in a behaviour
  MaxTime     \* bound: the latest deadline

ASSUME TransfersAssumption ==
  /\ Kinds \in [Transfers -> SUBSET {"bulk", "iso", "control"}]
  /\ NumUrbs \in [Transfers -> Nat \ {0}]
  /\ \A x \in Transfers : "control" \in Kinds[x] => NumUrbs[x] = 1
  /\ MaxSubmits \in Nat /\ MaxTime \in Nat

VARIABLES
  xfer,       \* the transfers: usbi_transfer and linux_transfer_priv
  lock,       \* a transfer's lock: "free", "held" by a submission, and "failed"
              \* until a submission that failed has left the list
  flying,     \* ctx->flying_transfers, those with a timeout first
  armed,      \* the deadline the timer is set to; 0: none
  reapable,   \* the completed URBs of each transfer, in the order of their completion
  gone,       \* the device is unplugged
  reapAfter,  \* USBFS_CAP_REAP_AFTER_DISCONNECT
  event,      \* control state of the thread that handles events
  fdRemoved,  \* the descriptor is no event source any more
  closed,     \* do_close is done
  submits,    \* submissions so far
  now         \* the last deadline that has passed

vars == <<xfer, lock, flying, armed, reapable, gone, reapAfter, event, fdRemoved, closed,
          submits, now>>

Urbs(x)  == 1 .. NumUrbs[x]
Results  == {"ok", "short", "error", "stall", "overflow", "cancelled", "gone"}
Actions  == {"NORMAL", "SUBMIT_FAILED", "CANCELLED", "COMPLETED_EARLY", "ERROR"}
Statuses == {"COMPLETED", "ERROR", "TIMED_OUT", "CANCELLED", "STALL", "OVERFLOW", "NO_DEVICE"}

(****************************************************************************)
(* A transfer: whether its array of URBs is allocated, each URB ("none" if  *)
(* the kernel does not have it, "queued", or the result with which it waits *)
(* to be reaped), what the driver remembers of the URBs reaped so far, the  *)
(* flags.  Ghosts: the results reaped, whether libusb_cancel_transfer has   *)
(* succeeded.                                                               *)
(****************************************************************************)
Idle(x, k) == [kind |-> k, urbs |-> FALSE, urb |-> [i \in Urbs(x) |-> "none"],
               retired |-> 0, action |-> "NORMAL", status |-> "COMPLETED",
               inFlight |-> FALSE, cancelling |-> FALSE, handled |-> FALSE, timedOut |-> FALSE,
               deadline |-> 0, seen |-> {}, asked |-> FALSE]

\* libuvc gives its stream transfers a timeout, and its callbacks submit them
\* again; control transfers wait for ever.
Timed(x)     == xfer[x].kind # "control"
NotTimed(x)  == ~Timed(x)
Resubmits(x) == Timed(x)

Queued(t) == {i \in DOMAIN t.urb : t.urb[i] = "queued"}
Held(t)   == {i \in DOMAIN t.urb : t.urb[i] # "none"}

Polling == [pc |-> "poll", x |-> "none", result |-> "none", back |-> "poll"]

Init ==
  /\ \E kind \in [Transfers -> UNION Range(Kinds)] :
       /\ \A x \in Transfers : kind[x] \in Kinds[x]
       /\ xfer = [x \in Transfers |-> Idle(x, kind[x])]
  /\ lock = [x \in Transfers |-> "free"]
  /\ flying = <<>> /\ armed = 0
  /\ reapable = [x \in Transfers |-> <<>>] /\ gone = FALSE /\ reapAfter \in BOOLEAN
  /\ event = Polling
  /\ fdRemoved = FALSE /\ closed = FALSE
  /\ submits = 0 /\ now = 0

Unlocked(x) == lock[x] # "held"

(****************************************************************************)
(* The kernel: it completes the URBs of a transfer in order.  A bulk URB    *)
(* that ends short or with an error also ends the URBs that continue it     *)
(* (USBFS_CAP_BULK_CONTINUATION; a kernel without it is left out).  The     *)
(* order in which the URBs of different transfers are reaped is open.       *)
(*                                                                          *)
(* ASSUMED of the device and the kernel, from linux_usbfs.c:2482: "overflow *)
(* can only ever occur in the last urb".  handle_bulk_completion does not   *)
(* check it, and FreedUrbsAreBack fails without it.  The packets of an      *)
(* isochronous URB have results of their own.                               *)
(****************************************************************************)
FailsWith(x, i, r) ==
  \/ r = "error"
  \/ r = "stall"    /\ xfer[x].kind # "iso"
  \/ r = "overflow" /\ xfer[x].kind # "iso" /\ i = NumUrbs[x]

EndsShort(x, i, r) == r = "short" /\ xfer[x].kind = "bulk" /\ i < NumUrbs[x]

UrbCompletes(x, r) ==
  LET q == Queued(xfer[x])
      i == Min(q)
      rest == IF xfer[x].kind = "bulk" /\ r # "ok" THEN q \ {i} ELSE {} IN
  /\ ~closed /\ q # {}
  /\ r = "ok" \/ EndsShort(x, i, r) \/ FailsWith(x, i, r)
  /\ xfer' = [xfer EXCEPT ![x].urb = [j \in Urbs(x) |-> IF j = i THEN r
                                      ELSE IF j \in rest THEN "cancelled" ELSE @[j]]]
  /\ reapable' = [reapable EXCEPT ![x] = Append(@, i) \o SetToSeq(rest)]
  /\ UNCHANGED <<lock, flying, armed, gone, reapAfter, event, fdRemoved, closed, submits, now>>

\* An old kernel forgets the URBs of a device that is gone.
DeviceGone ==
  /\ ~gone /\ ~closed
  /\ gone' = TRUE
  /\ xfer' = [x \in Transfers |-> [xfer[x] EXCEPT !.urb =
       [i \in Urbs(x) |-> IF ~reapAfter THEN "none"
                          ELSE IF @[i] = "queued" THEN "gone" ELSE @[i]]]]
  /\ reapable' = [x \in Transfers |->
       IF reapAfter THEN reapable[x] \o SetToSeq(Queued(xfer[x])) ELSE <<>>]
  /\ UNCHANGED <<lock, flying, armed, reapAfter, event, fdRemoved, closed, submits, now>>

TimePasses ==
  LET ahead == {d \in {armed} \cup {xfer[x].deadline : x \in Range(flying)} : d > now} IN
  /\ ahead # {}
  /\ now' = Min(ahead)
  /\ UNCHANGED <<xfer, lock, flying, armed, reapable, gone, reapAfter, event, fdRemoved,
                 closed, submits>>

(****************************************************************************)
(* discard_urbs, from the last URB to the first: those up to m complete     *)
(* before their turn comes, the others are cancelled.  (Nothing is queued   *)
(* on a device that is gone.)  They come back in any order: the completion  *)
(* routines do not tell them apart, once URBs have been discarded.          *)
(****************************************************************************)
Hit(t, first, last) == {i \in Queued(t) : first <= i /\ i <= last}

Discarded(t, first, last, m) ==
  [t EXCEPT !.urb = [i \in DOMAIN @ |-> IF i \notin Hit(t, first, last) THEN @[i]
                                        ELSE IF i <= m THEN "ok" ELSE "cancelled"]]
GivenBack(t, first, last) == SetToSeq(Hit(t, first, last))

\* Its result is success if the last URB was still there.
Success(t, last) == t.urb[last] = "queued"

(****************************************************************************)
(* The list of flying transfers and the timer                               *)
(****************************************************************************)
Waiting(xf, list) == {n \in DOMAIN list : Timed(list[n]) /\ ~xf[list[n]].handled}
FirstWaiting(xf, list) == list[Min(Waiting(xf, list))]

\* arm_timer_for_next_timeout.
NextDeadline(xf, list) ==
  IF Waiting(xf, list) = {} THEN 0 ELSE xf[FirstWaiting(xf, list)].deadline

\* Before the first transfer with a later timeout or with none.
\* If the timer cannot be armed, the transfer is taken off again under the same
\* lock and the submission fails: nothing has changed, and the callback that
\* resubmits frees the transfer (CallbackReturns).  A build without a timer is
\* left out.
AddToFlyingList(x, deadline) ==
  LET later == {n \in DOMAIN flying : \/ NotTimed(flying[n])
                                      \/ xfer[flying[n]].deadline > deadline}
      place == IF Timed(x) THEN Min(later \cup {Len(flying) + 1}) ELSE Len(flying) + 1 IN
  /\ flying' = InsertAt(flying, place, x)
  /\ armed' = IF Timed(x) /\ place = 1 THEN deadline ELSE armed

Without(list, x) == RemoveAt(list, CHOOSE n \in DOMAIN list : list[n] = x)

\* Mutant: the timer is left alone.
RemoveWithoutArming(x) == flying' = Without(flying, x) /\ armed' = armed

RemoveFromFlyingList(x) ==
  /\ flying' = Without(flying, x)
  /\ armed' = IF Timed(x) /\ Head(flying) = x THEN NextDeadline(xfer, Without(flying, x))
              ELSE armed

(****************************************************************************)
(* libusb_submit_transfer: on the list, then to the kernel, and off the     *)
(* list again if that failed.                                               *)
(****************************************************************************)
Deadlines(x) == IF Timed(x) THEN now + 1 .. MaxTime ELSE {0}

Enlist(x) ==
  /\ \E deadline \in Deadlines(x) :
       /\ xfer' = [xfer EXCEPT ![x] = [@ EXCEPT
            !.inFlight = FALSE, !.cancelling = FALSE, !.handled = FALSE, !.timedOut = FALSE,
            !.deadline = deadline, !.seen = {}, !.asked = FALSE]]
       /\ AddToFlyingList(x, deadline)
  /\ lock' = [lock EXCEPT ![x] = "held"]
  /\ submits' = submits + 1

\* A thread of the application submits a transfer that is not pending.
Submit(x) ==
  /\ ~closed /\ submits < MaxSubmits
  /\ lock[x] = "free" /\ ~xfer[x].inFlight /\ event.x # x
  /\ Enlist(x)
  /\ UNCHANGED <<reapable, gone, reapAfter, event, fdRemoved, closed, now>>

Fresh(x) == [xfer[x] EXCEPT !.urbs = TRUE, !.retired = 0, !.action = "NORMAL",
                            !.status = "COMPLETED", !.inFlight = TRUE]

SubmitUrbs(x) ==
  /\ lock[x] = "held" /\ ~gone
  /\ xfer' = [xfer EXCEPT ![x] = [Fresh(x) EXCEPT !.urb = [i \in Urbs(x) |-> "queued"]]]
  /\ lock' = [lock EXCEPT ![x] = "free"]
  /\ UNCHANGED <<flying, armed, reapable, gone, reapAfter, event, fdRemoved, closed,
                 submits, now>>

\* Mutant: the URB that was refused is not counted as retired.
SubmitFailsMidwayOffByOne(x, k, m) ==
  LET t == [Fresh(x) EXCEPT !.urb = [i \in Urbs(x) |-> IF i <= k THEN "queued" ELSE "none"],
                            !.action = "SUBMIT_FAILED", !.retired = NumUrbs[x] - k - 1] IN
  /\ lock[x] = "held" /\ ~gone
  /\ xfer' = [xfer EXCEPT ![x] = Discarded(t, 1, k, m)]
  /\ reapable' = [reapable EXCEPT ![x] = @ \o GivenBack(t, 1, k)]
  /\ lock' = [lock EXCEPT ![x] = "free"]
  /\ UNCHANGED <<flying, armed, gone, reapAfter, event, fdRemoved, closed, submits, now>>

\* The kernel has taken k URBs and refuses the next one: they are discarded,
\* the others count as retired, and the transfer is in flight.
SubmitFailsMidway(x, k, m) ==
  LET t == [Fresh(x) EXCEPT !.urb = [i \in Urbs(x) |-> IF i <= k THEN "queued" ELSE "none"],
                            !.action = "SUBMIT_FAILED", !.retired = NumUrbs[x] - k] IN
  /\ lock[x] = "held" /\ ~gone
  /\ xfer' = [xfer EXCEPT ![x] = Discarded(t, 1, k, m)]
  /\ reapable' = [reapable EXCEPT ![x] = @ \o GivenBack(t, 1, k)]
  /\ lock' = [lock EXCEPT ![x] = "free"]
  /\ UNCHANGED <<flying, armed, gone, reapAfter, event, fdRemoved, closed, submits, now>>

\* Mutant: URB k is counted as retired already.
SubmitCompletesEarlyOffByOne(x, k) ==
  /\ lock[x] = "held" /\ ~gone /\ xfer[x].kind = "bulk"
  /\ xfer' = [xfer EXCEPT ![x] = [Fresh(x) EXCEPT
       !.urb = [i \in Urbs(x) |-> IF i < k THEN "ok" ELSE IF i = k THEN "short" ELSE "none"],
       !.action = "COMPLETED_EARLY", !.retired = NumUrbs[x] - k + 1]]
  /\ reapable' = [reapable EXCEPT ![x] = @ \o [i \in 1 .. k |-> i]]
  /\ lock' = [lock EXCEPT ![x] = "free"]
  /\ UNCHANGED <<flying, armed, gone, reapAfter, event, fdRemoved, closed, submits, now>>

\* EREMOTEIO: URB k has ended short before the next one was submitted.
SubmitCompletesEarly(x, k) ==
  /\ lock[x] = "held" /\ ~gone /\ xfer[x].kind = "bulk"
  /\ xfer' = [xfer EXCEPT ![x] = [Fresh(x) EXCEPT
       !.urb = [i \in Urbs(x) |-> IF i < k THEN "ok" ELSE IF i = k THEN "short" ELSE "none"],
       !.action = "COMPLETED_EARLY", !.retired = NumUrbs[x] - k]]
  /\ reapable' = [reapable EXCEPT ![x] = @ \o [i \in 1 .. k |-> i]]
  /\ lock' = [lock EXCEPT ![x] = "free"]
  /\ UNCHANGED <<flying, armed, gone, reapAfter, event, fdRemoved, closed, submits, now>>

SubmitRefused(x) ==
  /\ lock[x] = "held"
  /\ xfer' = [xfer EXCEPT ![x].urbs = FALSE]
  /\ lock' = [lock EXCEPT ![x] = "failed"]
  /\ UNCHANGED <<flying, armed, reapable, gone, reapAfter, event, fdRemoved, closed,
                 submits, now>>

\* Mutant: a failed submission stays on the list.
DelistForgets(x) ==
  /\ lock[x] = "failed"
  /\ lock' = [lock EXCEPT ![x] = "free"]
  /\ xfer' = [xfer EXCEPT ![x] = Idle(x, @.kind)]
  /\ UNCHANGED <<flying, armed, reapable, gone, reapAfter, event, fdRemoved, closed,
                 submits, now>>

Delist(x) ==
  /\ lock[x] = "failed"
  /\ RemoveFromFlyingList(x)
  /\ lock' = [lock EXCEPT ![x] = "free"]
  /\ xfer' = [xfer EXCEPT ![x] = Idle(x, @.kind)]
  /\ UNCHANGED <<reapable, gone, reapAfter, event, fdRemoved, closed, submits, now>>

(****************************************************************************)
(* Cancellation by the application and by a timeout                         *)
(****************************************************************************)
Cancellable(x) == Unlocked(x) /\ xfer[x].inFlight /\ ~xfer[x].cancelling
Succeeds(x)    == xfer[x].urbs /\ Success(xfer[x], NumUrbs[x])

\* libusb_cancel_transfer with op_cancel_transfer.
Cancelled(x, m) ==
  LET t == xfer[x]
      u == IF t.urbs THEN Discarded(t, 1, NumUrbs[x], m) ELSE t IN
  [u EXCEPT !.cancelling = TRUE,
            !.action = IF Succeeds(x) /\ ~(xfer[x].kind = "bulk" /\ @ = "ERROR")
                       THEN "CANCELLED" ELSE @]

Ended(x) == IF xfer[x].urbs THEN GivenBack(xfer[x], 1, NumUrbs[x]) ELSE <<>>

CancelTransfer(x, m) ==
  /\ ~closed /\ Cancellable(x)
  /\ xfer' = [xfer EXCEPT ![x] = [Cancelled(x, m) EXCEPT !.asked = Succeeds(x)]]
  /\ reapable' = [reapable EXCEPT ![x] = @ \o Ended(x)]
  /\ UNCHANGED <<lock, flying, armed, gone, reapAfter, event, fdRemoved, closed, submits, now>>

\* The next transfer whose timeout has expired, if there is one.
Expired ==
  {x \in Transfers : /\ Waiting(xfer, flying) # {} /\ x = FirstWaiting(xfer, flying)
                     /\ xfer[x].deadline <= now}

\* Mutant of HandleTimeout: a refused cancellation counts as a timeout too.
HandleTimeoutAlways(x, m) ==
  /\ Unlocked(x)
  /\ xfer' = [xfer EXCEPT ![x] =
       IF Cancellable(x)
       THEN [Cancelled(x, m) EXCEPT !.handled = TRUE, !.timedOut = TRUE]
       ELSE [@ EXCEPT !.handled = TRUE, !.timedOut = TRUE]]
  /\ reapable' = IF Cancellable(x) THEN [reapable EXCEPT ![x] = @ \o Ended(x)] ELSE reapable

\* handle_timeout.
HandleTimeout(x, m) ==
  /\ Unlocked(x)
  /\ xfer' = [xfer EXCEPT ![x] =
       IF Cancellable(x)
       THEN [Cancelled(x, m) EXCEPT !.handled = TRUE, !.timedOut = Succeeds(x)]
       ELSE [@ EXCEPT !.handled = TRUE]]
  /\ reapable' = IF Cancellable(x) THEN [reapable EXCEPT ![x] = @ \o Ended(x)] ELSE reapable

\* handle_timer_trigger, one expired transfer at a time; then the timer is set
\* to the next deadline, which may have passed as well.
TimerTrigger ==
  /\ event.pc = "poll" /\ armed # 0 /\ armed <= now
  /\ IF Expired = {}
     THEN UNCHANGED <<xfer, reapable>>
     ELSE \E x \in Expired : \E m \in 0 .. NumUrbs[x] - 1 : HandleTimeout(x, m)
  /\ armed' = NextDeadline(xfer', flying)
  /\ UNCHANGED <<lock, flying, gone, reapAfter, event, fdRemoved, closed, submits, now>>

\* handle_timeouts, when a wait of any thread has run out: the timer stays.
WaitRunsOut ==
  /\ \E x \in Expired : \E m \in 0 .. NumUrbs[x] - 1 : HandleTimeout(x, m)
  /\ UNCHANGED <<lock, flying, armed, gone, reapAfter, event, fdRemoved, closed, submits, now>>

(****************************************************************************)
(* reap_for_handle: one URB.  A completion routine yields the transfer's    *)
(* new record, the URBs it discards (those after i, if "discard"), and the  *)
(* result to report once all are back ("none": not yet).                    *)
(****************************************************************************)
Outcome(t, discard, result) == [t |-> t, discard |-> discard, result |-> result]
Finished(t, result) == Outcome([t EXCEPT !.urbs = FALSE], FALSE, result)

Reaped(x, i) == [xfer[x] EXCEPT !.retired = @ + 1, !.urb[i] = "none",
                                !.seen = @ \cup {xfer[x].urb[i]}]
Final(t, status) == IF t.action = "CANCELLED" THEN "cancellation" ELSE status

\* Mutant: the status is left as it was.
AfterErrorSilent(t) == [t EXCEPT !.action = "ERROR"]

AfterError(t) == [t EXCEPT !.action = "ERROR",
                           !.status = IF @ = "COMPLETED" THEN "ERROR" ELSE @]

Blamed(t, status) == [t EXCEPT !.status = IF @ = "COMPLETED" THEN status ELSE @]

\* handle_bulk_completion.  An overflow ends the transfer at once, whatever is
\* left of it; a stall lets the rest come back in the normal way.
BulkCompletion(x, i) ==
  LET r == xfer[x].urb[i]
      t == Reaped(x, i)
      last == t.retired = NumUrbs[x]
      failed == IF t.action # "COMPLETED_EARLY" /\ t.status = "COMPLETED"
                THEN "ERROR" ELSE t.status
      next == CASE r = "gone"  -> [t EXCEPT !.status = "NO_DEVICE"]
                [] r = "error" -> AfterError(t)
                [] r = "stall" -> Blamed(t, "STALL")
                [] r = "overflow" -> Blamed(t, "OVERFLOW")
                [] r \in {"short", "cancelled"} /\ ~last
                               -> [t EXCEPT !.action = "COMPLETED_EARLY"]
                [] OTHER       -> t IN
  IF t.action # "NORMAL"
  THEN IF last THEN Finished([t EXCEPT !.status = failed], Final(t, failed))
               ELSE Outcome(t, FALSE, "none")
  ELSE IF last \/ r = "overflow" THEN Finished(next, next.status)
       ELSE Outcome(next, r # "ok", "none")

\* handle_iso_completion: the status of the transfer is that of its last URB.
IsoCompletion(x, i) ==
  LET r == xfer[x].urb[i]
      t == Reaped(x, i)
      status == CASE r = "gone" -> "NO_DEVICE" [] r = "error" -> "ERROR" [] OTHER -> "COMPLETED"
  IN IF t.retired < NumUrbs[x] THEN Outcome(t, FALSE, "none")
     ELSE Finished(t, Final(t, IF t.action = "NORMAL" THEN status ELSE "ERROR"))

\* handle_control_completion.
ControlCompletion(x, i) ==
  LET r == xfer[x].urb[i]
      t == Reaped(x, i)
      status == CASE r = "gone" -> "NO_DEVICE" [] r = "error" -> "ERROR"
                  [] r = "stall" -> "STALL" [] r = "overflow" -> "OVERFLOW"
                  [] r = "cancelled" -> "CANCELLED" [] OTHER -> "COMPLETED"
  IN Finished(t, Final(t, status))

Completion(x, i) == CASE xfer[x].kind = "bulk"    -> BulkCompletion(x, i)
                      [] xfer[x].kind = "iso"     -> IsoCompletion(x, i)
                      [] xfer[x].kind = "control" -> ControlCompletion(x, i)

Report(x, result, back) ==
  event' = [pc |-> "remove", x |-> x, result |-> result, back |-> back]

Reap(x, m) ==
  LET i == Head(reapable[x])
      c == Completion(x, i)
      n == NumUrbs[x] IN
  /\ ~closed /\ reapable[x] # <<>> /\ Unlocked(x)
  /\ (event.pc = "poll" /\ ~fdRemoved) \/ (event.pc = "lost" /\ reapAfter)
  /\ xfer' = [xfer EXCEPT ![x] = IF c.discard THEN Discarded(c.t, i + 1, n, m) ELSE c.t]
  /\ reapable' = [reapable EXCEPT ![x] =
       Tail(@) \o IF c.discard THEN GivenBack(c.t, i + 1, n) ELSE <<>>]
  /\ IF c.result = "none" THEN UNCHANGED event ELSE Report(x, c.result, event.pc)
  /\ UNCHANGED <<lock, flying, armed, gone, reapAfter, fdRemoved, closed, submits, now>>

(****************************************************************************)
(* usbi_handle_transfer_completion (and _cancellation): off the list, no    *)
(* longer in flight, then the callback                                      *)
(****************************************************************************)
TakeOffList ==
  /\ event.pc = "remove"
  /\ RemoveFromFlyingList(event.x)
  /\ event' = [event EXCEPT !.pc = "clear", !.result =
       IF @ # "cancellation" THEN @
       ELSE IF xfer[event.x].timedOut THEN "TIMED_OUT" ELSE "CANCELLED"]
  /\ UNCHANGED <<xfer, lock, reapable, gone, reapAfter, fdRemoved, closed, submits, now>>

Clear ==
  /\ event.pc = "clear" /\ Unlocked(event.x)
  /\ xfer' = [xfer EXCEPT ![event.x].inFlight = FALSE]
  /\ event' = [event EXCEPT !.pc = "callback"]
  /\ UNCHANGED <<lock, flying, armed, reapable, gone, reapAfter, fdRemoved, closed,
                 submits, now>>

Back == event' = [Polling EXCEPT !.pc = event.back]

\* A transfer that is not submitted again is freed; if it is submitted later,
\* that is a new one.
CallbackReturns ==
  /\ event.pc = "callback"
  /\ Back
  /\ xfer' = [xfer EXCEPT ![event.x] = Idle(event.x, @.kind)]
  /\ UNCHANGED <<lock, flying, armed, reapable, gone, reapAfter, fdRemoved, closed,
                 submits, now>>

\* The callbacks of libuvc submit the transfer again after these results.
CallbackResubmits ==
  /\ event.pc = "callback" /\ Resubmits(event.x)
  /\ event.result \in {"COMPLETED", "TIMED_OUT", "STALL", "OVERFLOW"}
  /\ submits < MaxSubmits /\ ~xfer[event.x].inFlight
  /\ Enlist(event.x)
  /\ event' = [event EXCEPT !.pc = "resubmit"]
  /\ UNCHANGED <<reapable, gone, reapAfter, fdRemoved, closed, now>>

ResubmitReturns ==
  /\ event.pc = "resubmit" /\ lock[event.x] = "free"
  /\ Back
  /\ UNCHANGED <<xfer, lock, flying, armed, reapable, gone, reapAfter, fdRemoved, closed,
                 submits, now>>

(****************************************************************************)
(* POLLERR in op_handle_events: reap what there is (see Reap), then         *)
(* usbi_handle_disconnect ends the transfers that are left.                 *)
(****************************************************************************)
Disconnect ==
  /\ event.pc = "poll" /\ gone /\ ~fdRemoved /\ ~closed
  /\ fdRemoved' = TRUE
  /\ event' = [event EXCEPT !.pc = "lost"]
  /\ UNCHANGED <<xfer, lock, flying, armed, reapable, gone, reapAfter, closed, submits, now>>

InFlight(x) == xfer[x].inFlight

\* Mutant: the transfers are ended before their URBs are reaped.
NothingToReapAssumed == TRUE

NothingToReap == reapAfter => \A x \in Transfers : reapable[x] = <<>>

\* The first transfer in flight; the search waits for a submission before it.
EndTransfer ==
  /\ event.pc = "lost" /\ NothingToReap
  /\ \E n \in DOMAIN flying :
       /\ InFlight(flying[n]) /\ Unlocked(flying[n])
       /\ \A k \in 1 .. n - 1 : Unlocked(flying[k]) /\ ~InFlight(flying[k])
       /\ xfer' = [xfer EXCEPT ![flying[n]].urbs = FALSE]
       /\ Report(flying[n], "NO_DEVICE", "lost")
  /\ UNCHANGED <<lock, flying, armed, reapable, gone, reapAfter, fdRemoved, closed,
                 submits, now>>

DisconnectReturns ==
  /\ event.pc = "lost" /\ NothingToReap
  /\ \A n \in DOMAIN flying : Unlocked(flying[n]) /\ ~InFlight(flying[n])
  /\ event' = Polling
  /\ UNCHANGED <<xfer, lock, flying, armed, reapable, gone, reapAfter, fdRemoved, closed,
                 submits, now>>

\* do_close, by a thread that has the events lock; no thread submits any more.
Close ==
  /\ ~closed /\ event.pc = "poll" /\ \A x \in Transfers : lock[x] = "free"
  /\ closed' = TRUE
  /\ flying' = <<>>
  /\ UNCHANGED <<xfer, lock, armed, reapable, gone, reapAfter, event, fdRemoved, submits, now>>

(****************************************************************************)
(* Specification                                                            *)
(****************************************************************************)
EventSteps ==
  \/ TimerTrigger \/ (\E x \in Transfers : \E m \in 0 .. NumUrbs[x] - 1 : Reap(x, m))
  \/ TakeOffList \/ Clear \/ CallbackReturns \/ CallbackResubmits \/ ResubmitReturns
  \/ Disconnect \/ EndTransfer \/ DisconnectReturns

SubmitSteps(x) ==
  \/ SubmitUrbs(x) \/ SubmitRefused(x) \/ Delist(x)
  \/ \E k \in 1 .. NumUrbs[x] - 1 :
       SubmitCompletesEarly(x, k) \/ \E m \in 0 .. k - 1 : SubmitFailsMidway(x, k, m)

UserSteps ==
  \/ Close
  \/ \E x \in Transfers : Submit(x) \/ \E m \in 0 .. NumUrbs[x] - 1 : CancelTransfer(x, m)

Environment ==
  \/ DeviceGone \/ TimePasses \/ WaitRunsOut
  \/ \E x \in Transfers, r \in Results : UrbCompletes(x, r)

Next == EventSteps \/ (\E x \in Transfers : SubmitSteps(x)) \/ UserSteps \/ Environment

Spec == Init /\ [][Next]_vars

(****************************************************************************)
(* Properties                                                               *)
(****************************************************************************)
TransferSet(x) ==
  [kind : Kinds[x], urbs : BOOLEAN, urb : [Urbs(x) -> {"none", "queued"} \cup Results],
   retired : 0 .. NumUrbs[x], action : Actions, status : Statuses,
   inFlight : BOOLEAN, cancelling : BOOLEAN, handled : BOOLEAN, timedOut : BOOLEAN,
   deadline : 0 .. MaxTime, seen : SUBSET Results, asked : BOOLEAN]

EventSet ==
  [pc : {"poll", "lost", "remove", "clear", "callback", "resubmit"},
   x : Transfers \cup {"none"}, result : Statuses \cup {"none", "cancellation"},
   back : {"poll", "lost"}]

\* The variables have their types; a transfer never retires more URBs than it has.
\* (linux_transfer_priv)
TypeOK ==
  /\ DOMAIN xfer = Transfers
  /\ \A x \in Transfers : xfer[x] \in TransferSet(x)
  /\ lock \in [Transfers -> {"free", "held", "failed"}]
  /\ flying \in Seq(Transfers) /\ armed \in 0 .. MaxTime
  /\ reapable \in [Transfers -> Seq(Nat)]
  /\ \A x \in Transfers : reapable[x] \in Seq(Urbs(x))
  /\ gone \in BOOLEAN /\ reapAfter \in BOOLEAN
  /\ event \in EventSet
  /\ fdRemoved \in BOOLEAN /\ closed \in BOOLEAN
  /\ submits \in 0 .. MaxSubmits /\ now \in 0 .. MaxTime

\* An array of URBs is freed only when the kernel has none of them: it would
\* hand a freed URB to reap_for_handle.  After an overflow the code frees it
\* without a look at what is left.  (handle_*_completion, the partly failed
\* submissions, usbi_handle_disconnect)
FreedUrbsAreBack == \A x \in Transfers : ~xfer[x].urbs => Held(xfer[x]) = {}

\* A bulk or control transfer that is reported COMPLETED has lost nothing: no
\* URB has failed, and only those after a short one were cut off.
\* (handle_bulk_completion, submit_bulk_transfer)
CompletedMeansWhole ==
  LET seen == xfer[event.x].seen IN
  event.pc = "callback" /\ event.result = "COMPLETED" /\ xfer[event.x].kind # "iso"
  => /\ seen \subseteq {"ok", "short", "cancelled"}
     /\ "cancelled" \in seen => "short" \in seen

\* A cancellation is reported as what it was: TIMED_OUT only if the timeout had
\* passed and nobody else had cancelled, CANCELLED only if somebody had.
\* (handle_timeout, usbi_handle_transfer_cancellation)
ReasonIsTrue ==
  LET t == xfer[event.x] IN
  event.pc = "callback" =>
    /\ event.result = "CANCELLED" => t.asked
    /\ event.result = "TIMED_OUT" => Timed(event.x) /\ t.deadline <= now /\ ~t.asked

\* flying_transfers holds each transfer in flight once, and otherwise only
\* transfers whose submission has not returned: a second insertion or a lost
\* one would break the list that timeouts, disconnection and close walk.
\* (libusb_submit_transfer, usbi_handle_transfer_completion)
FlyingListExact ==
  /\ IsInjective(flying)
  /\ \A x \in Transfers :
       /\ x \in Range(flying) => xfer[x].inFlight \/ lock[x] # "free"
       /\ xfer[x].inFlight => \/ x \in Range(flying) \/ closed
                              \/ event.pc = "clear" /\ event.x = x

\* The timer is set no later than the next timeout to handle, except while a
\* transfer that has timed out is still first in the list: its removal sets it.
\* (add_to_flying_list, remove_from_flying_list, arm_timer_for_next_timeout)
TimerCoversTimeouts ==
  Waiting(xfer, flying) # {} =>
    \/ armed # 0 /\ armed <= xfer[FirstWaiting(xfer, flying)].deadline
    \/ xfer[Head(flying)].handled

\* Every URB of a transfer is accounted for, retired or with the kernel; and
\* once the transfer is cancelled, has failed or has lost its device, none of
\* them waits for the device any more.  So the event thread only has to reap
\* for the transfer to end, and it ends when its last URB is back.
\* (submit_bulk_transfer and submit_iso_transfer, op_cancel_transfer)
EndIsCertain ==
  \A x \in Transfers : LET t == xfer[x] IN
    t.urbs /\ lock[x] = "free" /\ (gone => reapAfter) =>
      /\ t.kind # "control" => t.retired + Cardinality(Held(t)) = NumUrbs[x]
      /\ t.cancelling \/ t.action # "NORMAL" \/ t.status # "COMPLETED" \/ gone
           => Queued(t) = {}
=============================================================================
