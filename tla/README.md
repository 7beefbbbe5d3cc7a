# A formal model of AndroidUVC

AndroidUVC turns an Android phone into an MJPEG server for USB (UVC) cameras. A
Kotlin service owns the cameras, a C++ JNI library drives them through the
vendored libuvc and libusb, and an HTTP server hands the frames to any number of
clients. The hard part of the program is concurrency: frames, starts, stops,
recoveries, detached devices and clients meet on half a dozen threads per camera
and as many kinds of locks. This directory holds TLA+ models of that part, from
the session table of the service down to the URBs of libusb, the TLC runs that
check them, and TLAPS proofs of most of their safety properties.

## The system

| Component | Source | State | Operations | Modelled in |
|---|---|---|---|---|
| Streaming session | `UvcStreamingService.kt` | `CameraSession` (`state`, `buffer`, `frameCount`, `frameSize`, `frameLock`), the maps by fd and by index, reserved indices | `initCamera`, `startStreaming` with recovery, `stopStreaming`, `releaseCamera`, `stopIfIdle`, `onFrameReady` | `SessionService` (the table), `FrameHub` (one session and its frames), `CameraContext` (its JNI calls and its connection) |
| MJPEG clients | `UvcStreamingService.kt` | `lastReadFrameId` and a snapshot per client | `serve`, `MjpegInputStream.read`, `close` | `FrameHub`, its locks in `CameraContext` |
| Live preview | `MainActivity.kt` 154-205 | `isDecoding`, `previewBuffer` | the frame listener, the decoder | `FrameHub`, its locks in `CameraContext` |
| Activity: devices | `MainActivity.kt` | the device list, `bulkStreamAction` | refresh, open, detach, end | `SessionService`; bulk actions are not modelled |
| JNI layer | `native-lib.cpp` | `g_camera_map`, one `CameraContext` per camera (`devh`, `buffer_ptr`, `cleaned_up`, `uvc_mutex`, `buffer_mutex`), `g_callback_mutex` | `getDeviceSupportedFormats`, `startUVC`, `stopUVC`, `releaseUVC`, `lockBuffer`, `unlockBuffer`, `frame_callback` | `CameraContext`; negotiation in `UvcDevice` |
| libuvc stream | `libuvc/src/stream.c` | `uvc_stream_handle`: `running`, `transfers`, the two frame buffers, `cb_mutex`, `cb_cond` | `uvc_start_streaming`, `uvc_stop_streaming`, `_uvc_stream_callback`, `_uvc_process_payload`, `_uvc_swap_buffers`, `_uvc_user_caller`, probe and commit | `UvcStream` (threads), abstractly `FrameSource`; `FrameAssembly` (bytes); `UvcDevice` (negotiation) |
| libuvc device | `device.c` | `ref`, `claimed`, the status transfer | `uvc_wrap`, `uvc_open`, claim, release, `uvc_close` | `UvcDevice` |
| libusb transfers | `io.c`, `os/linux_usbfs.c` | `flying_transfers`, the timer, `usbi_transfer`, the URBs | submit, cancel, timeout, reap, disconnect, close | `UsbTransfers` |
| libusb events | `io.c`, `core.c`, `sync.c` | `events_lock`, `event_handler_active`, `event_waiters_cond`, `device_close` | handle events, synchronous transfers, `libusb_close` | `UsbEvents` |
| Start gate, statistics, HTTP life cycle | `StartActivity.kt`, `UvcStreamingService.kt` | permissions, counters, the server | request, update, restart | not modelled |
| UI, controls, diagnostics, examples, other systems | | | | not modelled |

How they interact:

- A thread per call. `startStreaming`, `stopStreaming` and `initCamera` run on a
  new thread each; `releaseCamera` runs on its caller's thread; each client has a
  thread of NanoHTTPD. All of them call the JNI layer, with a *file descriptor
  number* as the name of the camera.
- The JNI layer looks the number up in `g_camera_map` for every call and keeps
  the context alive with a local `shared_ptr`.
- Frames travel the other way: libusb completes transfers on the event thread,
  `_uvc_stream_callback` assembles frames, `_uvc_user_caller` runs
  `frame_callback` on a thread per stream; that copies into the buffer of the
  session and calls `onFrameReady`, which wakes the clients and lets the preview
  copy the frame.
- A stop waits for that callback, so every lock the callback takes is a lock a
  stop must not hold. A close competes with the event thread for `events_lock`.

Where the models meet. `FrameHub` composes the actions of `FrameSource`, which
`UvcStream` is shown to implement. `UvcDevice` composes `FrameAssembly`.
`SessionService` treats "does the camera deliver formats, start, reopen?" as a
free choice, which covers every answer of `CameraContext` and `UvcDevice`;
`UvcStream` treats a transfer as something that comes back, which is what
`UsbTransfers` shows of libusb; `UsbEvents` knows a transfer only as flying, ended
or done.

What is hard here, and what each property is for, is listed line by line under
`hazards` in `PROJECT.json`.

## The modules

### FrameSource: what a stream promises

The abstract specification of a libuvc stream, as the code above it uses it:
callbacks one at a time, frames in order and never twice, at most one callback
that begins after a stop has begun, and none running when the stop returns.

### UvcStream: `stream.c` from start to stop

Three threads: `ctl` (start and stop; the JNI layer serialises them with
`uvc_mutex`), `ev` (the event thread), `usr` (`_uvc_user_caller`). The state of
`strmh` is kept under its names. `transfers` records what libusb does with each
slot; a cancelled transfer can still complete with data, as libusb allows.
`running` is read and written outside `cb_mutex`, as in the code. Condition
variables are wait sets: `pthread_cond_wait` adds the thread and frees the mutex,
a broadcast empties the set, `SpuriousWakeup` takes one thread out at any time.
The bytes of a frame are its number, so a torn frame shows as a difference
between `data` and `sequence`.

### FrameAssembly: payloads become frames

`_uvc_process_payload` and `_uvc_swap_buffers` with byte counts, beside a camera
that sends frames in payloads of any size, with an end-of-frame bit on the last
one, on a header behind it, or never. Payloads may get lost. Every header has the
two bytes UVC requires; the case of a shorter one (stream.c:759) is left out. A byte is known by
its frame and its place in it, so `FramesIntact` can say that what reaches the
application is in order, is joined only after a loss, and is whole if nothing was
lost and the frame fits the buffer. The end at `dwMaxVideoFrameSize` and the cut
of a payload that does not fit are the code's.

### UvcDevice: one camera from open to close

Descriptors are a constant: which interfaces have a kernel driver, whether there
is a status endpoint, the alternate settings, the modes. Two threads may be in
`startUVC` of one context; each holds `uvc_mutex` except in its two pauses, where
`stopUVC`, `cleanup` or the other start may run. Any request may fail, and the
device may be unplugged at any time. The probe does not depend on the claim before
it, whose result `negotiate_mjpeg_stream_ctrl` ignores; `uvc_stream_open_ctrl`
claims again, and keeps the claim when the commit fails. `Negotiate` builds the candidates of
`negotiate_mjpeg_stream_ctrl`; `StreamStart` chooses the alternate setting.
A stream stops in one step here, because its threads are the subject of
`UvcStream`. Two ghosts record what the code gets wrong quietly: a second start
whose probe fails releases the interface of the first one's stream
(`disturbed`), and a claim that fails after the detach leaves the driver
detached (`stranded`). The properties speak of everything else.

### CameraContext: `native-lib.cpp`

Any number of threads, each in one call or none; the label of the program
counter starts with the call. A step is the code between two operations that
others can see: a lock, a look at the map, a write to a context. All locks are in
`held`. Shared pointers are modelled by who has a context in a local
(`th[t].ctx`) or in the map; whoever drops the last reference to a context
nobody cleaned up runs `cleanup` there and then, also inside `releaseUVC` under
`g_map_mutex` (`ReleaseErase`). The Kotlin code around the calls is included as
far as it decides which calls happen: a session is released once by
`releaseCamera`, but a recovery releases it regardless; a reader belongs to a
session that streamed once and may outlive it; the connection is closed after
`releaseUVC` returned. A file descriptor number can be used again as soon as its
connection is closed. `buffer_mutex` is recursive, and unlocking a mutex one does
not own has no effect; both are how bionic's recursive mutex behaves.
Two pairs of Kotlin statements are one step each. `CallbackReady` looks the session
up (`UvcStreamingService.kt:597`) and takes its `frameLock` (603): the session can go
in between only while it is taken down twice, since `releaseUVC` waits for the
callback before the session is removed; and the holders of `frameLock` do not wait
for a callback. `RemoveSession` removes the session (579) and closes the connection
(587): in between its number leads to no session and cannot be given out again.

### FrameHub: a session, its clients and its preview

One session: the callback thread in `frame_callback` and `onFrameReady`, clients
in `MjpegInputStream.read`, the preview listener and decoder, a starting thread
and several stopping threads. A frame and its size are both represented by the
frame's number, so a snapshot whose `size` and `data` differ is torn.
`frameLock` is a monitor with a wait set; `wait(500)` may return at any time,
which covers the timeout. `lastReadFrameId` starts at -1 in the code; the model
keeps it plus one.

### SessionService: the session table

All sessions at once. Worker threads create a session (`createSession`, in a
thread of `initCamera` or of a recovery), start it with up to
`MAX_START_ATTEMPTS` attempts and a recovery between two of them, or stop it; the
main thread refreshes the devices, handles detached ones and closes the
application. An access to a concurrent map and a synchronized block are one step
each, so all the gaps between them are there: between the two insertions of
`createSession`, between the look at a state and its change, between the
releases of two threads.

A recovery releases its session without a look at its state, so a session can be
taken down twice, and a session can be taken down between the two insertions.
Nothing promises what the tables then hold. The ghost `releases` counts such
cases, and `IndicesMatch` and `NoConnectionLeaks` assume `Disjoint`: there is
none. `SessionsSettle` assumes nothing.

### UsbTransfers: transfers and URBs

`Submit` puts a transfer on the list of flying transfers, `SubmitUrbs` and its
variants hand the URBs to the kernel, which may refuse one in the middle; `Reap`
handles one completed URB with the code of the transfer's kind
(`BulkCompletion`, `IsoCompletion`, `ControlCompletion`). A stall and a failure of
a bulk URB discard the others and wait for them; an overflow ends the transfer and
frees its array at once. Cancellation, the timer
and disconnection come at any time. The kernel is external: URBs complete with
any result, except that only the last URB of a transfer can overflow (see
"Assumptions about the kernel"), those of one transfer in the order of submission, those of several
transfers in any order, and are given back discarded or finished. `reapable`
keeps for each transfer the completed URBs nobody has reaped; which transfer the
kernel serves next is open. The deadline of a transfer with a timeout is any
number up to `MaxTime`, so a later submission may be due earlier and the list of
flying transfers is really sorted.

Assumptions about the kernel.

- *Overflow only on the last URB.* `handle_bulk_completion` relies on it
  (linux_usbfs.c:2482, "overflow can only ever occur in the last urb"): on
  `EOVERFLOW` it jumps to `completed` (2486) and frees the array (2531) without a
  look at `num_retired`. `FailsWith` states it for the kernel. URBs before the last
  one are whole numbers of packets long, so only a device that sends a packet
  larger than its endpoint allows could break it. Without the assumption
  `FreedUrbsAreBack` is false: if the first of two URBs overflows and is reaped
  before the second one is back, the array is freed with a URB in the kernel (TLC
  finds this in five states when the conjunct `i = NumUrbs[x]` is dropped).
- *`USBFS_CAP_BULK_CONTINUATION`*: a bulk URB that ends short or fails takes those
  behind it along. The split without it (linux_usbfs.c:2017-2024, kernels before
  2.6.32) is left out.
- *A timer.* The build has a timerfd (`libusb/CMakeLists.txt:26`). That arming it
  fails (io.c:1444-1451) is left out: the submission then takes the transfer off the
  list again under the same lock, which is a step that changes nothing.

### UsbEvents: who handles events

The loop of `libusb_handle_events_timeout_completed`, for the event thread of the
JNI layer and for threads in `libusb_control_transfer`, and `libusb_close`, which
raises `device_close` to keep all of them out. The transfer of a synchronous call
lies on its stack. With a timerfd `libusb_get_next_timeout` returns 0 at once
(io.c:1360), so the early return for an expired timeout (2363-2368) is not
reached. A poll that fails, and the cancellation a synchronous transfer then asks
for (sync.c:56-62), are left out.

### MC modules and proof modules

`MC...` modules give the constants finite values and define the symmetry sets.
Definitions marked "Mutant" are faulty variants of the action below them; no
specification uses them. Each of them breaks one property, which shows that the
property depends on that line. `...Proofs` extends the module it is about.

## The runs

| Run | Bounds | Properties | Answer |
|---|---|---|---|
| `uvc_stream` | 2 transfers, 4 frames | `NoUseAfterFree`, `FrameIsWhole`, `ImplementsFrameSource`, `StopReturns`, `PublishedFrameArrives` | hold |
| `camera_safety` | 2 threads, 1 descriptor number, 2 connections, recovery, cameras without MJPEG | `StreamOnOpenHandle`, `CopyTargetValid` | hold |
| `camera_live` | 2 threads, 1 descriptor number, 2 connections | `ModesFromOpenHandle`, `ConnectionOutlivesHandle`, `CallbackContextAlive`, `ErasedUnlocked`, `StopsReturn` | hold |
| `camera_unlock` | 3 threads, 1 connection | `CallsReturn`: does every call return? | **violated** |
| `camera_connection` | 2 threads, 2 connections, recovery, cameras without MJPEG | `ConnectionOutlivesHandle` | **violated** |
| `hub_safety` | 2 clients, 2 stops, 3 starts, 2 frames | `TearsByOneFrame`, `PreviewWhole` | hold |
| `hub_live` | 2 clients, 1 stop, 1 start, 2 frames | `NoStarvation`, `StoppedReaderReturns`, `SessionSettles` | hold |
| `hub_tearing` | 1 start, 2 frames | `NoTearing`: is a snapshot one frame? | **violated** |
| `session` | 1 device, 2 descriptors, 2 workers, 2 sessions, 2 user calls, 2 attempts | `SessionsSettle`, `IndicesMatch`, `NoConnectionLeaks` | hold |
| `device` | 2 cameras, 2 threads in `startUVC`, 2 opens, 2 starts, 3 frames of up to 2 bytes | `StreamIsServed`, `NothingLeftBehind`, `FramesIntact` | hold |
| `usb_transfers` | 2 transfers, up to 2 URBs, 3 submissions | `FreedUrbsAreBack`, `CompletedMeansWhole`, `ReasonIsTrue`, `FlyingListExact`, `TimerCoversTimeouts`, `EndIsCertain` | hold |
| `usb_events` | the event thread, 1 synchronous transfer, 2 closes | `StackOutlivesTransfer`, `SyncReturns`, `CloseReturns`, `EventsGoOn` | hold |

Each module's `TypeOK` is checked in its first run. Liveness: `StopReturns`,
`PublishedFrameArrives`, `StopsReturn`, `CallsReturn`, `NoStarvation`,
`StoppedReaderReturns`, `SessionSettles`, `SyncReturns`, `CloseReturns`,
`EventsGoOn`. Refinement: `ImplementsFrameSource`.

Why the bounds are enough.

- `UvcStream`: with two transfers the submit and cancel loops have a first and a
  last one and a state in between; four frames use both buffers twice. The
  proofs cover every number.
- `CameraContext`: two threads give every pair of calls, plus the callback
  threads, which come on top; three threads on one context are what the lost
  buffer lock needs (a reader, a release, a start). Two connections on one number
  give a stale number that names another context; a session is rebuilt at most
  once per connection. With one number two cameras never stream at once, so
  `StopsReturn` does not show two callbacks that contend for `g_callback_mutex`. With three threads `camera_safety` has 9.3 million states
  and `camera_live` 1.5 million; both show no error and are too slow to keep.
- `FrameHub`: two frames are the frame published and the next one, the only two a
  snapshot can mix while a client holds `frameLock`; the third start lets a late
  stop meet a start after both a failed and a successful one.
- `SessionService`: a device can be opened again while its first session is still
  there or coming down, and a recovery replaces a session; both need two
  sessions. Larger instances, too slow to keep, also show no error: two devices
  (5.3 million states), three workers (8.9), three sessions (7.9).
- `UvcDevice`: one isochronous camera with three alternate settings, drivers on
  both interfaces and modes of which one is not MJPEG and one has an unknown
  GUID; one bulk camera with a status endpoint and a mode without frame
  intervals. The second open finds what the first close left; the second thread
  uses the first one's pauses. `FrameAssembly` alone was also run with four
  frames of up to three bytes.
- `UsbTransfers`: two URBs have a first, a last and a refusal in between; two
  transfers are a head of the list and another one behind it; a third submission
  is one from a callback while both fly. Two deadlines (`MaxTime`) give a
  transfer that is due before, with and after the other one; a transfer without a
  timeout belongs behind both.
- `UsbEvents`: the second closer lets `device_close` be two. Two synchronous
  threads and two closers were also run, for safety (444 779 states).

`MaxFrames` bounds the frames copied and delivered, or sent by the camera,
`MaxStarts` and `MaxOpens` the calls of `startUVC` and the connections, `MaxSeq`
the frames assembled per stream, `NumContexts` the connections, `MaxSessions`
the sessions created, `MaxUserCalls` the starts and stops, `MaxSubmits` the
submissions, `MaxTime` the deadlines. `UvcStream` and `UsbEvents` are checked for deadlock; the others
switch the check off, because a system whose bounds are used up stops, and their
liveness or quiescence properties cover what a deadlock would break.

### What the violations show

- `camera_unlock`. `lockBuffer` and `unlockBuffer` look the context up
  separately. A reader finds the context, `releaseUVC` cleans it up and erases
  it, the reader locks the orphan's `buffer_mutex`, and its `unlockBuffer` finds
  nothing. A `startUVC` that got the context earlier waits at line 504 for ever.
  `releaseUVC` erases under `buffer_mutex`, which protects readers that have
  locked (`ErasedUnlocked` holds) but not those between lookup and lock.
- `camera_connection`. Two ways to close a connection under its open libusb
  handle: a camera without MJPEG leaves its context in `g_camera_map` when its
  connection is closed; and when a recovery and a release of one session overlap,
  the second `releaseUVC` returns at the compare-and-swap of `cleanup`, and the
  connection is closed while the first is still closing the handle.
- `hub_tearing`. A client can send the beginning of one frame, or one frame with
  a stale tail, under the size of another: the bytes change under `buffer_mutex`
  before the size changes under `frameLock`. `TearsByOneFrame` says that it is
  never worse than the next frame.

### Observed, but promised nowhere

These are behaviours the models show and no document rules out, so no run checks
them; the properties above are stated so that they hold in spite of them.

- The second of two `stopStreaming` calls can run when the first is done and a
  new start is under way: it stops nothing and sets `IDLE`; the camera then
  streams, but is refused to clients and released as idle.
- With recoveries, `CallbackContextAlive` fails: a stale recovery's `releaseUVC`
  erases the map entry of a new context with the same number while the preview's
  `lockBuffer` holds the last reference; `~CameraContext` then runs on the
  callback thread and joins that thread.
- A session released between the two insertions of `createSession` is put back
  into `sessionsByIndex`, and the index page lists it; a detach during
  `createSession` leaves its session behind; a device reopened meanwhile has two.
- A recovery marks its replacement `STARTING` without a look, even when it is
  being released. The session still settles.
- A second `startUVC` whose probe fails releases the interface of the first one's
  stream (`UvcDevice`, ghost `disturbed`).

## Fairness

Every thread that is inside a call goes on, which a preemptive scheduler gives.
A thread that wants a mutex gets it if it is free again and again (strong
fairness): without this no mutex promises anything, and bionic's mutexes are
futexes whose waiters are woken in turn. In `UvcStream` every transfer in flight
completes, at the latest by its timeout of 5000 ms (`libusb_fill_*_transfer`),
and the number of packets in a transfer is finite (`EndPayload`). In `FrameHub`
`wait(500)` returns again and again. In `UsbEvents` strong fairness is assumed
only of taking `event_waiters_lock`; `events_lock` is taken with a try-lock in
the loop, and that a close gets it is shown from `device_close`. A poll returns
by itself: its limit is 60 s, or 100 ms in the event thread. A loop that retries
stops doing so (`RetriesEnd`): it retries only while another thread is between
two steps. Nothing is assumed of the outside: no camera has to send frames, no
client has to read, nobody has to start or stop a stream. `NoStarvation`
therefore only speaks of frames that are there. `SessionService`, `UvcDevice` and
`UsbTransfers` have no fairness: what must end there is stated as an invariant of
quiet states (`SessionsSettle`, `IndicesMatch`), or as "whoever is waited for has
been told" (`EndIsCertain`).

## Proofs

TLC checks the instances above; the theorems hold for every value of the
constants. The only assumptions on them are those the modules name (bounds are
natural numbers, a set of threads is finite, special values are not threads, a
camera has at least one mode and one alternate setting), and TLC evaluates them in
the runs. What is assumed of the kernel is part of the specification: see
`UsbTransfers`. The theorems of `CameraSessionProofs` say in their statements what
else they suppose.

| Module | Theorems (`Spec => ...`) |
|---|---|
| `UvcStreamProofs` | `TypeCorrect`; `MemorySafe`: `[]NoUseAfterFree`; `FramesWhole`: `[]FrameIsWhole`; `Implements`: `ImplementsFrameSource` |
| `FrameHubProofs` | `TypeCorrect`; `TearingBounded`: `[]TearsByOneFrame`; `PreviewIntact`: `[]PreviewWhole` |
| `CameraContextProofs` | `TypeCorrect`; `StreamSafe`: `[]StreamOnOpenHandle`; `CopySafe`: `[]CopyTargetValid` |
| `CameraSessionProofs` | `ModesWhileDisjoint`: `[](Disjoint => ModesFromOpenHandle)`; `CallbackWhileDisjoint`: `[](Disjoint => CallbackContextAlive)`; if every camera has an MJPEG mode, `ConnectionWhileDisjoint`: `[](Disjoint => ConnectionOutlivesHandle)` and `ErasureWhileDisjoint`: what `ErasedUnlocked` says of a step, as long as `Disjoint` holds; without recoveries, where `Disjoint` is an invariant, `ModesSafe`, `CallbackSafe`, `ConnectionSafe`, `ErasureSafe`: the four properties as the run `CameraContext_live` checks them |
| `SessionServiceProofs` | `TypeCorrect`; `Settles`: `[]SessionsSettle`; `IndicesAgree`: `[]IndicesMatch`; `NoLeaks`: `[]NoConnectionLeaks` |
| `UvcDeviceProofs` | `TypeCorrect`; `FramesHold`: `[]FramesIntact`; `Accounted`: `[]NothingLeftBehind`; `Served`: `[]StreamIsServed` |
| `UsbTransfersProofs` | `TypeCorrect`; `NoUrbFreedInTheKernel`: `[]FreedUrbsAreBack`; `NoLossInCompleted`: `[]CompletedMeansWhole`; `ReasonReported`: `[]ReasonIsTrue`; `ListIsExact`: `[]FlyingListExact`; `NoTimeoutForgotten`: `[]TimerCoversTimeouts`; `EveryEndCertain`: `[]EndIsCertain` |
| `UsbEventsProofs` | `TypeCorrect`; `StackSafe`: `[]StackOutlivesTransfer` |

None of these properties is inductive. Each proof strengthens them to `IInv`,
shows `InitIInv` and `NextIInv` (a step or a lemma per action, below it one per
conjunct the action can break), and reads the theorems off `IInv`. What the
strengthening says is what the code relies on without saying so.

- `UvcStream`. `ControlInv` ties the program counters together, and `running` is
  set exactly between a successful start and the next stop; `MutexInv` says who
  holds `cb_mutex` and who can wait at which labels; `TransferInv` says which
  states of a transfer are possible at which stage, and that after the wait of
  the stop every slot is empty; `BufferInv` says that the two buffers differ and
  that `holdbuf` holds the frame `hold_seq` whatever is being assembled.
  `StepRefines` maps each action to one of `FrameSource` or to a stutter.
- `FrameHub`. `CallbackInv`: the buffer is one frame ahead of `frameSize` between
  copy and publication, and equal to it otherwise. `ReaderInv`: while a client
  copies under `frameLock` the size it took is current, because `PublishSize`
  needs that lock; so the bytes are at most one frame younger.
- `CameraContext`, with recoveries and cameras without MJPEG either way.
  `CleanupFinal`: behind the compare-and-swap of `cleanup` `cleaned_up` stays set,
  and at the step that resets `buffer_ptr` the stream is stopped for good, since
  whoever starts one looks at `cleaned_up` under `uvc_mutex` first.
  `CallbackInStream`: the callback only copies while its stream runs.
- `CameraSession`, on top of that, with recoveries, as long as `Disjoint` holds: no
  session was taken down both by `releaseCamera` and by a recovery, which is all a
  recovery can break. `Attended` and `OneOwner`: a descriptor number has one owner
  at a time, the thread that creates its session (`Creates`) or the one that takes
  it down (`Releases`), and at each of their labels it is known what the two maps
  have for the number and what state its connection is in. `Serves`: a thread that
  starts or stops works on the session of its number, unless somebody took that
  down meanwhile; so a recovery is an owner like a release. `Entries` says what the
  maps have for the numbers nobody owns. `Safe` is why no destructor runs: whoever
  drops a reference to a context drops it while the map still has one, or after
  somebody has begun to clean it up. `HandleKept`: an open handle is in the map or
  in the hands of a call. `BufferHolders`: who holds the buffer of a mapped context
  is a reader under the number it will look up to unlock it.
- `SessionService`. `Attended`: a session in a transient state has a thread that
  will end it, also across the replacement of the session by a recovery, which is
  `SessionsSettle` once all threads are idle. `Owned`: an open descriptor belongs
  to exactly one session or one creating thread. `OneTaker`, `OneOwner`,
  `Indexed` hold as long as `Disjoint` does: who takes a session down is alone,
  an index has one owner and is reserved exactly as long, and it leads to its
  session. They are needed together: that clearing the maps by key removes no
  other session's entry follows from the uniqueness of descriptors and indices,
  and that uniqueness from nobody else taking the session down.
- `UvcDevice`. `Phases` says in which states of the context and of the threads
  which interfaces may be claimed, `Balanced` relates `ref`, `claimed`, the
  kernel's claims and the drivers, `Backed` gives a running stream a mode and a
  control block that came from a probe. For `FramesIntact`, `FInv`: the bytes
  in the buffer have arrived and are in order (`Good`), come after all that is
  published (`AllGood`) and have the last frame ID bit, like every frame seen since
  the first of them (`Steady`), which is why a published frame joins others only as
  `JoinedAfterLoss` allows. While nothing is lost (`Lossless`), the frame that
  arrives is in the buffer up to what was sent (`Arriving`), or the one before it
  waits there for the frame ID bit to flip (`Waiting`). A payload adds a run of
  bytes to the buffer or begins a new one, so the lemmas (`Advance`, `Extend`,
  `CutBytes`, `Publish`) speak of one payload and need no induction over the
  sequence. The buffers keep their size while a stream runs; that is all the
  frames need to know of the device.
- `UsbTransfers`. `Sound` holds for each transfer by itself. `Mirrors`: the
  completed URBs of a transfer in `reapable` are those its records call completed,
  each once, and a bulk transfer's in their order. `Counted`: URBs retired and
  URBs still with the kernel add up to all of them, which is `FreedUrbsAreBack`
  at the moment the count reaches the number of URBs. `CutOff` and `Whole`: behind
  a URB of a bulk transfer that came back short or failed, every other one is
  discarded or will be, and a URB that overflowed is the last one; without that, a transfer that retires its last URB could
  be `COMPLETED` with a hole in it. `Reason` ties the reap action and the status to
  the results seen so far. `Ending`, `Members` and `Distinct` say what the
  completion of a transfer and the list of flying transfers have to do with each
  other between the steps of `usbi_handle_transfer_completion`. `Ordered` and
  `HeadArmed` carry `TimerCoversTimeouts`: the timer knows only the first timeout
  that is not handled, and that this one is the earliest follows from the list
  being sorted at every insertion. The facts about `InsertAt`, `RemoveAt` and
  `SetToSeq` the proof needs are lemmas of the module.
- `UsbEvents`. `Apart` says who can hold which lock where; `CompletedLast`, that
  `*completed` is set only after libusb let go of the transfer. That
  `device_close` is the number of closers at work uses the library's facts about
  cardinalities.

Proof attempts corrected the model twice. `JoinedAfterLoss` said that of the
frames between two that are joined nothing arrived; that is false, because frames
with the same frame ID bit join as well, and to see one arrive between two others
takes five frames, while the run `UvcDevice` has three. The corrected property was
checked on `FrameAssembly` alone with five frames of up to two bytes. And the
constants of `UvcDevice` did not say that a camera has a mode.

Only model-checked: liveness, which is out of reach of the prover like `ENABLED`
(`StopReturns`, `PublishedFrameArrives`, `StopsReturn`, `NoStarvation`,
`StoppedReaderReturns`, `SessionSettles`, `SyncReturns`, `CloseReturns`,
`EventsGoOn`). Every invariant and every action property of the passing runs has
a theorem.

## Not modelled

- *Most of the repository's lines.* More than half of the C code is libusb's
  backends for Windows, macOS, Haiku and WebUSB, its examples, its tests and
  Xcode or Visual Studio files, none of which is compiled for Android. Of the
  rest, `ctrl-gen.c` is generated accessors, `frame.c` and `frame-mjpeg.c` convert
  pixels, `diag.c` prints, and the app calls none of them; the parsers of
  `device.c` and `descriptor.c` turn bytes into the records `UvcDevice` takes as a
  constant.
- The global libusb context and its event thread as objects. They are created
  once and never shut down: `shutdown_usb_ctx_if_idle` has no caller.
- `attachServiceCallback` and `detachServiceCallback`: the service callback is
  attached in `CameraContext` all the time.
- The global reference of the Java buffer (`native-lib.cpp:139` against 505): it
  would double the state of each context.
- `frameCount`, which is never reset (`UvcStreamingService.kt:444`): in
  `SessionService` an attempt succeeds or fails freely.
- Bulk actions (`MainActivity.kt:599`): they are starts and stops, plus a counter
  for the screen. Permissions, the start gate, statistics, notifications, the
  HTTP server's restart, the user interface: one thread each, or display.
- libuvc: polling (`uvc_stream_get_frame`), still images, metadata, iSight headers,
  time stamps, headers of less than two bytes, `GET_MAX` and zero-length answers to a probe, the contents of status
  updates, a kernel driver that cannot be attached again.
  `dwMaxPayloadTransferSize` 0 is assumed away.
- libusb: hotplug and enumeration (Android hands over open descriptors), bulk
  streams, the results of single packets of an isochronous URB, kernels without bulk
  continuation, a timer that is missing or cannot be armed, a poll that fails, a
  device lost in the middle of a submission (it appears as a refusal).

## What is left

In the order of its worth: the life of the Java buffer in `CameraContext`;
`attachServiceCallback` and its counterpart; the bulk actions; the refinement of
`UvcStream`'s transfers by `UsbTransfers`.
