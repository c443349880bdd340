# Stearlight verification

TLA+ models of the Stearlight Quest runtime (`packages/quest-runtime`) and of
the code that the virtual machine version preloads
(`packages/stearlight-runtime`), the TLC runs that check them and the TLAPS
proofs about them.

Stearlight runs a Linux guest (Steam, SteamVR, Plasma) under PRoot inside an
Android application. Android owns the headset: display, radio, codec, audio,
battery, Wi-Fi. The guest asks for them over Unix sockets, shared memory pages
and small files in `/run/stearlight/quest`. Nearly everything that is hard
about the program is in those seams, and the models are of the seams.

The repository also holds a virtual machine version. Its README says that it is
not maintained any more, but the Vulkan layer it preloads is the largest single
program of the repository, and it pretends to have what the host has not: that
is modelled too.

## 1. Inventory

### GPU frame transport (`GpuFrames`, modelled)
* State: the images of a swapchain and who has each; the frame leases of the
  Android side (`gpu_frames.h`), the frame pool of the Linux side, the socket
  with its messages, present ids.
* Operations: connect and hello, acquire, present, wait for a present, read an
  event, close (`quest_wsi.cpp`); the receiver thread's poll, publish, accept,
  release and shutdown; the OpenXR thread's poll, draw and end of frame
  (`gpu_bridge.cpp`).
* Interaction: two processes over `gpu.sock` (SEQPACKET), two threads over
  `historyLock`.
* Hard: a renderer is killed with images in every place and a new one connects;
  the socket fills; the eyes still sample an image that was superseded.
* Correct if no image is drawn into while it is shown, none is lost, neither
  side refuses the other and a present id is reported only when it is true.

### Event waits of the compositor (`WsiEvents`, modelled)
* State: `eventWaiting`, the condition variable, each waiting thread.
* Hard: several threads wait for different events of one socket, one reads for
  all; time-outs, spurious wake-ups, a hang-up.
* Correct if nobody waits for what has come, and nobody is told a time-out that
  is not one.

### Shared timeline semaphore (`SharedTimeline`, modelled)
* State: value and epoch in memory shared by processes, the threads in the
  wait and signal functions of `mesa-shared-timeline.h`.
* Hard: lock-free signalling, futex wake-ups, device loss in one process.
* Correct if the value only shows finished work and no thread sleeps on.

### SteamVR OS update (`OsUpdate`, modelled)
* State: three directories under `/opt`, three JSON files, the updater's lock.
* Operations: stage (`steam-os-update.py`), recover and activate
  (`activate-os-update.py`), confirm (`runtime-monitor.cpp`), extraction of the
  APK's overlay (`QuestActivity.java`).
* Hard: a kill between any two file operations; two updaters; a runtime that
  never shows a dashboard; an APK upgrade half-way through a trial.
* Correct if a whole runtime is always there and the version page is honest.

### Desktop handoff (`DesktopHandoff`, modelled)
* State: mode and ready files, the manager's processes and its one request
  queue, a Remote Desktop login, the monitor's view of all of it, the audio
  services.
* Hard: stale files between two 200 ms polls, requests whose sender has given
  up, processes that die between a check and a use, deadlines.
* Correct if there is one Plasma session at a time and Steam comes back.

### Bluetooth bridge (`BluetoothBridge`, modelled)
* State: the D-Bus service's pending calls and advertisement, three shared
  files, Android's advertiser and its call-backs.
* Hard: late and lost replies, callers that vanish, a radio that is switched
  off, a service that is stopped while it waits.
* Correct if answers are fresh and both sides agree about the advertisement.

### Video bridge (`VideoQueue`, modelled)
* State: the two V4L2 queues of the device `video-bridge.cpp` fakes, its worker
  thread, the MediaCodec session behind it, the eventfd.
* Hard: the worker exchanges a packet without the mutex while the player
  switches queues off or closes; a player that takes no pictures; resolution
  changes; an eventfd that is kept up to date by hand.
* Correct if pictures keep their order, no wake-up and no buffer is lost,
  decoding never waits for presentation, and close returns.

### Linux session lifecycle (`LinuxSession`, modelled in part)
* State: the guest's root file system and its marker, the staged installation,
  the overlay's version, `linux.pid`, the lock on `linux-session.lock`; the
  main thread and the worker of each activity, the process it has started.
* Operations of `QuestActivity.java`: request, install, start, restart after
  exit status 75, `killLinux`, `onDestroy`.
* Hard: Android kills the app between any two steps, and creates the next
  activity before it destroys the last; `killLinux` finds its victim through a
  file that the victim writes.
* Correct if one session lives at a time, on a whole root and on files nobody
  empties, and a closed activity gives the session up.

### Desktop applications (`DesktopApps`, modelled in part)
* State: request and result files, the launcher's deadline, the applications of
  each activity's bridge, `desktop-mode.active`.
* Operations: ask, look at the result, give up (`flatpak-launcher.py`); poll,
  start, close (`DesktopAppBridge.java`).
* Hard: two bridges poll one directory; the launcher gives up while its request
  is being started; an activity is destroyed in between.
* Correct if a request has one outcome, the launcher is told it, and
  applications end with their activity.

### PRoot adapter (`RobustFutex`, modelled in part)
* State: the robust list of each thread, the futex words, the sleepers and the
  bound that `robust.c` puts on their sleep.
* Hard: Android refuses the robust-list system calls, so the kernel frees
  nothing when an owner dies; PRoot marks the words of a dying thread and
  cannot wake anybody.
* Correct if a robust mutex has one living owner, nobody waits for a dead one
  for ever, and a time-out is only reported when it is over.

### Virtual machine runtime (`VirtualMachine`, modelled in part)
Five parts that share no state. `vulkan_wsi_shim.c` is four of them:
* `VulkanShim`: what the application is shown of the devices (extensions, queue
  families, features) and what reaches the host. State: the queue alias and the
  synthetic extensions, both variables of the process; the spin lock around the
  one real queue. Hard: the application's own structures are edited during a
  call that may be repeated; two queues of the application are one of the host.
  Correct if lists are honest, the host sees nothing made up, memory is
  restored and the host's queue has one thread.
* `ShimDispatch`: how an entry point is found. State: the cached pointers.
  Hard: `dlsym`, instance and device look-ups in any order, before and after
  the constructor. Correct if no wrapper calls itself and each finds its host
  function.
* `ShimDisplay`: the emulated display. Correct if what it shows can be used,
  in one window, however many attempts fail half-way.
* `TimelineBridge` (with `vulkan_timeline_bridge.inc`): exported timeline
  semaphores, a shared page and a worker for each. Hard: workers of several
  processes write one page, semaphores are destroyed, the driver fails.
  Correct if a shared value was completed by a GPU, never goes back, and
  reaches the others.

`fake_tracking.cpp` is the fifth, `VmDriver`: SteamVR's driver of the test
machine, with input queues that overflow and buttons it presses by itself.
Correct if no key stays pressed and the dashboard is opened by itself once.

### Not modelled yet, planned
| Component | State and operations | Hard | Correct if |
|---|---|---|---|
| USB route (`socket-report.c`, `socket_registry.cpp`, `UsbNetworkBridge`) | per-descriptor cache of network and inode, the registry, the network request | reused descriptors, a network that goes and comes, 250 ms caches | no socket stays on a network that has gone |
| Shared pages (`quest_bridge.h`, `gamepad_state.h`, `share-mirror.h`, ...) | sequence, payload, futex | torn reads, creation by two sides | a reader that says it has a sample has a whole one |
| Audio (`PcmQueue`, `AudioBridge`, `NativeAudioServer`) | ring buffer, sessions | overflow, stop, reconnection | what is played is a suffix of what came, with a fade at each gap |
| Render view tracker | views by buffer, command, queue, semaphore | frames in flight, reuse of handles | a presented image carries the cameras it was drawn with |
| Steam channels, `LoadingBoost`, the HEVC header parser | files; a small clock machine; bits | partial writes, boundaries | agree with a reference definition |

### Not modelled, not planned
The OpenXR main loop and OpenVR driver (calls into runtimes that are not part
of the repository), Wi-Fi and battery bridges (one snapshot, compared and
announced), launchers, probes and injected scripts (no protocol), build and
packaging scripts (sequential, checked by hashes), the virtual machine's session
scripts, and the Windows runtime (patches to programs that are not part of the
repository). Each is in `PROJECT.json` with its reason.

### Hazards beyond those of `PROJECT.json`
`PROJECT.json` lists the hazards the models are chiefly about. The survey
met these as well; they belong to the planned modules, are met by a run beside
its main question, or lie in parts that no property reaches. Java sources are under
`app/src/main/java/net/stearlight/quest/`, `app` means `app/src/main/cpp/`.

| Where | What can go wrong |
|---|---|
| `app/gpu_bridge.cpp:65`, `:83`, `:97` | What is to be sent is read before poll(2) and used after it; a hello that cannot be sent; a send that would block in the middle of the answers (in `GpuFrames`) |
| `mesa-shared-timeline.h:63`, `:90` | The 32-bit epoch comes round under a waiter (the theorems assume that it does not, no run reaches it); a device that is lost during an endless wait (in `SharedTimeline`) |
| `activate-os-update.py:9` | A start while the last runtime was never confirmed (in `OsUpdate`) |
| `QuestActivity.java:155` | A new APK arrives while a runtime is on trial (in `OsUpdate`) |
| `runtime-monitor.cpp:163` | The ready file is written for a desktop whose mode has gone (in `DesktopHandoff`) |
| `desktop-manager.py:207` | The mode file goes while the workspace runs: `stop` is called in the middle of the pass (in `DesktopHandoff`) |
| `desktop-manager.py:466` | `start` has stopped the listeners when READY does not come (finding 2) |
| `bluetooth-bridge.cpp:562` | A caller vanishes with its call unanswered (in `BluetoothBridge`) |
| `video-bridge.cpp:125`, `:140` | A packet in exchange while its queue is switched off; a size change before its capture buffers (in `VideoQueue`) |
| `vulkan_wsi_shim.c:1062`, `:1972` | A made-up present id behind another structure (exempt in `HostUnderstands`); a window without a surface after an attempt that failed half-way (in `ShimDisplay`) |
| `vulkan_timeline_bridge.inc:101` | A semaphore that is destroyed before its last completion is published (in `TimelineBridge`) |
| `desktop-pam.c:30`, `desktop-manager.py:125` | The login gives up while its request stays queued; `ensure_display` raises after `MODE=desktop` was granted, which leaves MODE without a workspace |
| `runtime-monitor.cpp:156` | A login served while MODE still says desktop does not stop the Steam client |
| `bluetooth-bridge.cpp:568`, `:585` | The stop for a vanished owner fails, or its file is overwritten by the next command; the service forgets the advertisement all the same |
| `BluetoothBridge.java:182`, `:146` | The radio is switched off between check and start (finding 4); two threads write `bluetooth-reply.tmp` |
| `video-bridge.cpp:264`, `:132`, `:121` | STREAMOFF does not update the eventfd; a second size change before STREAMON; stamps of discarded pictures |
| `app/video_bridge.cpp:59`, `:117` | Output drained to make room overwrites the answer (in `VideoQueue`); a connection accepted during shutdown |
| `PcmQueue.java:27`, `AudioBridge.java:162`, `:174` | A put that exceeds the queue; a receiver that outlives its connection; a reset of `maxReadGapNs` that is overwritten |
| `NativeAudioServer.java:48` | A pid that another process has by the time it is killed |
| `proot/robust.c:147` | Robust lists longer than 2048 entries |
| `display-pulse.h:20`, `app/quest_bridge.h:43` | A plain copy between two reads of the sequence; one wake-up for several waiters |
| `steam-capture.h:43`, `share-mirror.h:34`, `quest_driver.cpp:44` | A copy handed on after the last attempt; a page both sides initialise |
| `render_view_tracker.h:104`, `:44` | Views of a semaphore nobody waits for; views read from memory the game rewrites |
| `app/loading_boost.h:50` | Credit, warm-up and the 45 s limit at equal times |
| `socket-report.c:36`, `:111`, `app/socket_registry.cpp:48`, `UsbNetworkBridge.java:53` | Caches of a network that is gone; a slot stored in two steps; a reused descriptor; a network that returns within its second |
| `fex-game-launcher.py:27`, `gamescopereaper.c:55` | A stale `.paused` file; a stop signal between test and `waitpid` |
| `steam_channels.py:43` | Three files written one after the other |

## 2. Modules

| Module | Is | Extends / instantiates |
|---|---|---|
| `GpuProtocol` | constants of `gpu_bridge.h` | |
| `FrameLeases`, `FramePool` | the two ledgers of `gpu_frames.h`, as operators | `GpuProtocol` |
| `GpuFrames` | renderer, receiver and eyes composed over the socket | both ledgers; `ImageOwnership` |
| `ImageOwnership` | abstract: an image is drawn into or shown, shown frames go forward | |
| `GpuFramesInvariant`, `GpuFramesProofs` | inductive invariant; theorems | `GpuFrames` |
| `WsiEvents`, `WsiEventsProofs` | waiting threads of one swapchain; theorems | `FramePool` |
| `SharedTimeline`, `SharedTimelineProofs` | the timeline; theorems | |
| `OsUpdate` | the updater | `RuntimeTrial` |
| `RuntimeTrial` | abstract: a good runtime and at most one on trial | |
| `DesktopHandoff`, `DesktopHandoffProofs` | manager, monitor, login; theorems | |
| `BluetoothBridge` | guest service, files, Android | |
| `MCBluetoothBridge` | symmetry of callers | `BluetoothBridge` |
| `VideoQueue` | player, worker, Android | |
| `BridgeProofs` | theorems about the two bridges | `BluetoothBridge`, `VideoQueue` |
| `LinuxSession` | activities, their threads, the session's process and files | |
| `DesktopApps` | launchers, request and result files, bridges, applications | |
| `GuestLife`, `GuestLifeProofs` | the three things that outlive an activity, one per behaviour; theorems about each and the composition | `OsUpdate`, `LinuxSession`, `DesktopApps` |
| `RobustFutex`, `RobustFutexProofs` | robust mutexes under PRoot; theorems | |
| `VulkanShim` | devices, chains and queues of the preloaded layer | |
| `ShimDispatch` | its cached entry points | |
| `ShimDisplay` | its display and window | |
| `TimelineBridge` | its shared semaphores | |
| `VmDriver` | SteamVR's driver of the test machine | |
| `VirtualMachine`, `MCVirtualMachine` | the five, one per behaviour; hosts and requests for the run | the five |
| `VirtualMachineProofs` | theorems about each of the five and the composition | `VirtualMachine` |

Every action carries in a comment or in `PROJECT.json` (`map`) the function it
stands for. An operator whose comment begins with "Mutant:" is a plausible
mistake in the definition after it; it is used by no specification.

### How state and actions correspond to the code

* **GpuFrames.** `leases` is `FrameLeases` under `historyLock`, `pool` is
  `FramePool` under `Swapchain::lock`; `toBridge` and `toClient` are the two
  directions of the socket. `Acquire`, `Present`, `ReceiveEvent`, `Connect` and
  `Close` are the swapchain's functions; `EnterPoll` to `StopReceiving` the
  loop of `GpuBridge::receiveFrames`, cut where it polls and between its sends;
  `Poll`, `Draw`, `EndFrame` and `Shutdown` the OpenXR thread. One swapchain
  exists at a time: SteamVR's compositor destroys one before it makes the next.
  poll(2) and recv(2) of the renderer are one step. Continuations after `EINTR`
  and `EAGAIN` repeat a step and are left out.
* **WsiEvents.** An action is a stretch of code under `Swapchain::lock`. The
  bridge is reduced to the order of its messages. Capture swapchains, which
  have no socket, are left out. Spurious wake-ups may happen.
* **SharedTimeline.** One action per atomic operation or system call. The GPU
  finishes submitted work at any time or never.
* **OsUpdate.** One action per file operation of activation and staging; `End`
  kills the session with everything in it at any point. What is downloaded is
  a build; chunks, signatures and sizes are left out, and any of them may fail
  (`Fail`). An APK upgrade between an activation and its recovery keeps the
  runtime on trial: `QuestActivity` preserves the runtime whenever
  `installed.json` or `activated.json` exists.
* **DesktopHandoff.** A pass of the manager is `Serve` (one request) and
  `Poll`; a pass of the monitor is `Look` and `Act`, because it reads the mode
  file once at its head and once in `Session::poll`. `Dies` ends any process at
  any time. Left out: ssh, menus, focus, boosts and Steam's own exits; the user
  is taken to have a password.
* **BluetoothBridge.** The service is one thread and `pc` is where it waits.
  Android's poll is `TakeUp` (command), snapshots and call-backs. Reply files
  have two writers (poll and call-back), both by rename; each is one step,
  though both use the same temporary name. Agents, filters and property reads
  are left out, and so is the flag Discovering.
* **VideoQueue.** `SequenceHeader`, `Connect`, `Submit`, `Answer`, `Store`,
  `Resume`, `Stop` and `End` are the worker, cut where it releases the mutex.
  The codec keeps, drops or returns pictures as it likes. `Answer` also
  contains what Android did with the packet, which touches nothing but the
  decoder. Formats, controls, mappings and Android's limit of four clients are
  left out.

* **LinuxSession.** A worker's place (`worker`) is the statement of
  `runLinux()` it comes to next; `KillFromMain` and `Shutdown` are the end of
  `onDestroy`. The shell between `exec` and PRoot is taken to write its pid
  within the second that `killLinux` waits; process numbers are not used again
  while something here names them; `destroy()` of the interrupted worker is a
  SIGTERM that PRoot may ignore, so nothing is assumed of it. Android's end of
  an app ends all its processes and releases its locks. Left out: the developer
  runtime, the audio server, the socket registry, the archive format.
* **DesktopApps.** `Poll` lists what a pass of the bridge will look at,
  `ReadRequest` to `SomebodyElses` are its loop. Deleting a request and starting
  its application are one step: only the deletion can be raced for. A read that
  is interrupted or finds an ill-formed file fails at any time (`CannotRead`).
  Android creates and destroys activities on one thread.
* **RobustFutex.** One action per access of a word by the C library's mutex
  protocol (external), by PRoot at the entry and exit of FUTEX_WAIT, and by
  `mark` (read, then compare and write: two system calls). Left out: a relative
  FUTEX_WAIT restarted after EAGAIN, threads that are killed without the
  ptrace event of their exit, the credential and uname adaptations.
* **VulkanShim.** A chain of structures is a sequence of kinds with links in
  memory; `strip_synthetic_pnext_structures` follows the links as the code does
  and edits them, `MemoryAfter` undoes the edits of both attempts in the code's
  order. It is about links only: the timeline feature that the code clears in the
  application's structure without the bridge, and sets again at the end, has no
  value in the model. Chains are not shared between requests. `Call` and `Return` cut a queue
  call where the host works. Tracing is left out.
* **ShimDispatch.** A cached pointer is null, the host's function or the
  wrapper itself. The names are independent of each other, so a behaviour is
  about one name and the two look-up functions.
* **ShimDisplay.** Each query is one step; opening the window is one attempt
  that may fail at any of its three stages.
* **TimelineBridge.** `timeline_worker` is cut at every query, load, swap and
  signal. The GPU completes submissions in any order the application allows:
  with `gated` each waits for the value before its own, without it none need.
* **VmDriver.** The kernel's event queue is bounded and drops; `Read` empties it
  and forgets all keys at a drop.

## 3. Runs

| Run | Bounds | Question |
|---|---|---|
| `gpu_frames` | 3 images, 3 frames a session, 2 drawn at once, socket of 7 | `ImagesRound`: images never torn or lost, present ids exact; `NothingRefused`; `SendsAreSafe`: the socket never fills; `ImplementsOwnership` |
| `gpu_frames_live` | socket of 1, one drawn at once, `FairSpec` | `RendererGoesOn`: an image always comes, presents complete; `ServiceGoesOn`: the next renderer is served, shutdown ends |
| `timeline` | 2 threads, values to 2, 3 signals, epoch of 4, `FairSpec` | `ValuesAreTrue`, `NoMissedWakeup`; `WaitsEnd`: waits end, loss is noticed |
| `guest_life` | 3 builds, one broken, 2 updaters; 2 activities, 3 processes; 2 bridges, 1 launch; `LifeSpec` | `RuntimeSafe`: recoverable, honest, usable; `StagedOnce`; `ImplementsTrial`; `UpdatesEnd`: broken builds are left, staged ones taken; `ProcessesKept`: one session, one outcome a request, nothing outlives its activity; `SessionFollows`: a closed activity lets go, whoever waits gets the lock |
| `wsi_events` | 2 threads, 2 images, 1 frame, `FairSpec` | `NobodyWaitsInVain`, `TimeoutHonest`; `CallsEnd`: waits end, loss reaches all |
| `desktop_handoff` | 1 queued request, five user operations, logins, `FairSpec` | `DesktopsApart`: one Plasma, services quiet; `ListenersPause`; `HeadsetReturns`: Steam returns, logins end |
| `desktop_logout` | same constants, `FairSpec` | finding 1: a late `remote-start` keeps the headset |
| `bluetooth` | 2 callers, 1 device, 3 commands, 1 queued message | `AnswersAreFresh`, `BridgesAgree`, `ConfirmedByRadio` |
| `video_queue` | 2 + 2 buffers, 3 packets, 1 size, each queue off once, 3 modes | `QueuesAccounted`: buffers and wake-ups; `FramesInOrder` |
| `video_queue_live` | 2 + 1 buffers, 2 packets, 2 sizes, `FairSpec` | `PlayerGoesOn`: packets complete, close ends |
| `virtual_machine` | a device of three kinds and a second one, 2 threads, present chains of up to 2; every entry point; three loaders, 2 windows; 2 processes that share a semaphore, values to 2, 1 driver failure; 2 inputs, event queue of 2 | `EveryListHonest`, `HostUnderstands`, `MemoryRestored`, `HostQueueExclusive`; `WrappersWork`; `DisplayUsable`; `ValuesCompleted`, `NeverBack`, `Delivered`; `InputGenuine` |
| `robust_futex` | 3 threads, 2 mutexes, lists of 2, 3 lock calls, deadlines of 2 units and none | `MutexKept`, `TimeoutEarned`; `LocksEnd`: nobody waits for a dead owner |

Why the bounds are enough. Three images are the program's minimum for one
shown, one superseded and one drawn; three frames make every image go round.
A socket of seven is one more than `SocketNeverFills` says it can hold, so the
bound never cuts a behaviour off; a socket of one makes every send of the live
run block. Two threads are enough for one waiter and one signaller, or a reader
and a sleeper, and each may change roles. Three signals cross values 1 and 2
twice without wrapping an epoch of four (see below). Three builds are a good
one, a broken one and the next; two updaters are all that `flock` can tell
apart. One queued request already lets the manager serve what nobody waits for;
two queued ones are covered by the proof. Three commands are a start, its stop
and the next start. Two capture buffers are needed for a picture to overtake
another, and three packets for the overtaken one to be replaced.

Two activities are all that Android makes exist side by side, and the third
process is the one a restart or the other activity starts while the file still
names an old one. Applications meet only in the limit of four, which the action
for a start that fails covers (`CannotStart`), so one launch is enough; two
bridges race for it. Two processes and one shared page are the smallest
exchange; the proof covers any number. Three threads are an owner, a waiter and
one that comes in between, and the lists of two are as long as there are
mutexes. The devices of the run are one with a queue to split and no synthetic
extension missing, one with everything, and one with two families; the arrays
are smaller than, equal to and larger than what is listed.

Deadlock is checked in every run but three: in `wsi_events` all frames may have
been presented and every thread may be idle, in `virtual_machine` an
application may have asked all it asks, and in `robust_futex` all threads may
have ended. `GpuFrames` has an action for its regular end.

### Fairness
* `GpuFrames`: the receiver thread and a renderer that waits in `receiveEvent`
  run. Nothing is assumed of the OpenXR thread: a headset that is taken off
  stops calling it.
* `SharedTimeline`: a thread inside the timeline code runs. GPU and callers may
  stop. `ReachedWaitEnds` does not count on the 50 ms timer; `LossIsNoticed`
  names it as its hypothesis.
* `OsUpdate` (`UpdateFairness` of `GuestLife`): users quit and come back; the start-up runs, and is not killed at
  every attempt for ever. The updater and the dashboard may fail every time.
* `WsiEvents`: threads in a call run, finite time-outs pass, the bridge accepts
  what it holds. A caller that was told of a lost surface does not call again:
  without it such a caller could win the lock each time.
* `DesktopHandoff`: the loops of manager and monitor come round (each always
  has a step), deadlines pass, services that were told to end do so, and sesman
  starts what has logged in and ends what nobody is connected to.
* `VideoQueue`: the worker runs and exchanges end, because they have deadlines
  and `close()` shuts the socket down. The player switches its queues on; it
  need not take a picture, and need not close.

* `LinuxSession`: threads of an activity that have begun go on, an interrupt is
  noticed, the shell writes its pid. Nothing is assumed of users, of Android
  or of the end of a session.
* `DesktopApps`: none; its properties are safety.
* `TimelineBridge`: workers run (each round ends with a short sleep), the GPU
  completes what it may, and a destruction that has begun ends. The application
  need not submit anything.
* `RobustFutex`: a thread in a call goes on and its timers run out, and PRoot
  handles an exit that it was told of. An owner may hold its mutex for ever;
  `LocksEnd` speaks of owners that are dead or have unlocked.

## 4. Findings

1. **A late `remote-start` keeps the headset.** Handled after its Xorg has
   ended it leaves no deadline and no process to watch (`desktop_logout`).
2. **RDP does not resume.** `call('start')` of `desktop-manager.py` stops the
   listeners before it waits for READY; if READY does not come it raises and
   nobody starts them again (`RdpResumes` of `DesktopHandoff` states the
   contrary; no run checks it).
3. **A reconnecting user is thrown out.** A login to a session that still runs
   arms the thirty second deadline, which no `remote-start` will clear
   (`ExpiryFindsNoDesktop`; no run checks it).
4. **"Already active" when nothing is.** Android notes the callback of a start
   before it calls `startAdvertising`. When that throws, because the radio has
   been switched off since the check, the guest is told FALSE and the callback
   stays. The service rightly believes that nothing is active and sends no stop,
   so Android refuses every later start as "already active" until the activity
   is recreated. `AlreadyActiveIsTrue` states what the message of
   `BluetoothBridge.java:168` says; TLC refutes it with registrations alone, in
   eleven states; no run checks it. `BridgesAgree` exempts this one
   start through the history variable `thrown`.

Deviations that no run is about; where a property would be violated by one, it
names and exempts it:

* **A session that outlives its activity.** After a restart on status 75
  `linux.pid` holds the number of the session before until the new shell has
  written its own; `killLinux` only removes the file at the beginning of
  `runLinux()`. If the activity is destroyed in that moment, main thread and
  worker both kill a process that is gone, and the worker waits for the living
  one with the lock in its hands. `Outlives` is exactly this state; without it
  `SessionFollows` is violated.
* **A root without its marker.** A kill between the rename of the root file
  system and the write of its marker leaves a root that is complete, but is
  refused at every later start. The code says that it preserves it for recovery.
* **An application that starts late.** `close()` ends what the bridge has
  started, but the workers are shut down only after `killLinux` has returned; a
  poll in between starts applications that nobody ends (`late`). A request of a
  crashed session is started as well if `desktop-mode.active` survived it.
* **A refusal that is not one.** Of two bridges that look at one request, the
  one whose read fails writes "failed" over the "running" of the other
  (`hidden`). A launcher whose application came after fourteen seconds says that
  it did not respond, though it runs.
* **Steam beside a login.** A remote login served while the mode file still
  says "desktop" finds `desktopMode` already true in the monitor, so Steam is
  not stopped.
* **An advertisement of nobody.** In the Bluetooth bridge a start that the
  guest gave up waiting for may still succeed: the advertisement then belongs
  to nobody and every later registration is answered "already active" until the
  session ends; `BridgesAgree` exempts it through the history variable
  `unlearned`. (The start that throws is another case, finding 4.)
* **A present id behind another structure.** The layer looks for a synthetic
  present id at the head of the chain of `vkQueuePresentKHR` only. Behind another
  structure it is handed on to a host that does not have the extension. The run
  presents such chains; `HostUnderstands` exempts them and asks that a present
  id leaves the chain exactly when it leads it and the host lacks it.

Notes on the virtual machine. The alias and the synthetic extensions are
variables of the process and describe the physical device asked last; what
`VulkanShim` promises it promises to an application that keeps to one
(`OnePhysical`), as SteamVR's compositor does. Asking for the extensions of a
device counts (`asked`) also when its host has `global_priority` and the alias
is not looked for, because the flags are set all the same: after a question
about such a second device, the flags no longer fit the first one's host. The
run has a second device of that kind. The model has one queue per family. A
synthetic wait succeeds at once. `return -3` of `vkCreateDevice` does not restore
the queue chains; `VulkanShim` does not model that return. It is taken when no
look-up has left the host's function in the cached pointer, which `ShimDispatch`
does model: `vkCreateDevice` uses the pointer as it is. With a loader that is
installed it cannot happen once an instance exists (`Ready` of the proof). The
budget of 64 edits is shared by all queues of a request, where the model has one
per queue. `dlsym` on a handle that lacks a name clears the cached pointer until
it is asked again; with a loader whose own tables name the preloaded functions
some pointers stay null, and `HandedOutWorks` excludes it. Without gated
submissions a worker's signal may be overtaken and refused, which ends the
worker. In `fake_tracking.cpp` an `Init` that fails half-way frees devices that
vrserver may hold, and a controller that is deactivated in a press leaves its
buttons pressed.

Notes on `VideoQueue`: `STREAMOFF` changes what is ready without signalling, so
the eventfd may stay readable with nothing to read (only the lost wake-up is a
property); it also returns a packet that is in exchange, whose index is then
completed into the new stream (`stale` exempts it); a second change of size may
be satisfied by the `STREAMON` of the first and end in "capture buffer too
small". The worker reads width and height once without the mutex.

## 5. Proofs

All theorems hold for every value of the constants that satisfies the
assumptions named in the modules.

| Module | Theorems | Argument |
|---|---|---|
| `GpuFramesProofs` | `TypeCorrect`, `ImagesNeverTorn`, `ImagesConserved`, `ProtocolAgrees`, `ImagesGoRound`; `SendsStaySafe`, `OwnershipKept` (the refinement of `ImageOwnership`) | `IInv`, for the last two `SInv`, of `GpuFramesInvariant` |
| `SharedTimelineProofs` | `TypeCorrect`, `TimelineHonest`, `SubmitNeverLosesDevice`, `TimelineForward`, `NoWakeupMissed`, `TimelineTrue` | `Honest`, `EpochCounts`, `Awake` |
| `GuestLifeProofs` | updater: `TypeCorrect`, `AlwaysRecoverable`, `VersionPageHonest`, `SessionsRunWhole`, `UpdateIsTrial` (the refinement of `RuntimeTrial`), `RuntimeAlwaysSafe`, `StagedStays` | `Exclusive`, `Staging`, `Switching`, `Kept` |
| | sessions and applications: `LifeTypeCorrect`, `SessionsStayApart`, `ProcessesAlwaysKept`, `UpdatesInLife` | `SessionInv`, `AppsInv` |
| `WsiEventsProofs` | `TypeCorrect`, `SocketHasOneReader`, `NoEventMissed`, `AnnouncedEventIsRead`, `TimeoutsAreHonest` | `OneReader`, `AnnouncedIsThere`, `ExpiredFinite` |
| `DesktopHandoffProofs` | `TypeCorrect`, `PausedMeansQuiet`, `OnePlasmaSession`, `DesktopsStayApart`, `ListenersYield` | `SesmanBehind`, `LoginsWait`, `StartAlone`; `PInv` |
| `BridgeProofs` | Bluetooth: `TypeCorrect`, `AnswersFresh`, `RegistrationConfirmed`, `BridgesInStep` | `Numbered` ... `Called`, `InStep` |
| | video: `VideoQueuesKept`, `PicturesInOrder` | `VideoInv` |
| `VirtualMachineProofs` | `BridgedValuesAreTrue`, `BridgedValuesGrow` | `KnowsAlone`, `Carried` |
| | `HostQueuesExclusive`, `WrappersAlwaysWork`, `DisplayAlwaysUsable`, `EveryListIsHonest`, `InputsGenuine` | `QueueInv`, `DispatchInv`, `DisplayInv`, `ListsInv`, `DriverInv` |
| | `MemoryAlwaysRestored` | `Remembers`, for a strip step by step |
| | `HostAlwaysUnderstands` | `UnderstandInv`; `LeftBy` for a strip, `Behind` for what a walk finds |
| | `MachineKept`: all of these of the composition | one invariant per part |
| `RobustFutexProofs` | `RobustMutexesKept`, `TimeoutsEarned` | word and list agree |

The inductive invariants have each been model-checked on the run of their
module before they were proved.

Why the strengthenings are needed:

* **GpuFrames.** That no image is torn is not inductive: a present in flight
  says nothing about its image unless the six places of an image (pool, drawn,
  in flight, displayed, to be released, being returned) exclude each other and
  every message names the frame the ledgers expect. `Round`, `Numbered` and
  `Connection` say so; they have to know where the receiver stands, because its
  sends empty the ledgers in several steps.

  That a send is safe, and that a step of the pipeline is one of
  `ImageOwnership`, needs two facts more (`SInv`). `HeardFirst`: what the bridge
  has accepted, or will be told of, is an image the renderer has not got back
  yet; without it a release that is read after an acceptance could be for
  another round of the same image. `FramesForward`: the frame that is shown was
  published and the published one presented, per session and along the socket,
  so an OpenXR frame that repeats or advances never goes back.
* **SharedTimeline.** A sleeper is only safe if the epoch it read is still the
  epoch, or a signaller is about to wake it. `Awake` says that, and
  `EpochCounts` that the epoch has not gone round: it is bounded by the signals
  begun. The theorem therefore assumes `MaxSignals < EpochModulus`. Without the
  assumption it is false: a thread that is preempted between reading the epoch
  and sleeping while 2^32 signals are given sleeps through them, and only the
  50 ms timer in the code saves it.
* **OsUpdate.** `Switching` says what each directory holds at each step of
  activation, `Staging` the same of an updater under the lock, `Exclusive` that
  there is one of them. The refinement follows from the invariant, one lemma a
  step. `StagedStays` is proved from the same invariant.
* **LinuxSession.** Two sessions are kept apart by the lock, but the lock is held
  by a worker or by the session it started, and released at different places.
  `HoldsLock` says at which places a worker has it, `LivesForOne` that whoever
  lives is the session one such worker waits for or ends, `Installed` that the
  root and its layers are complete before anything runs in them.
* **DesktopApps.** The request file is the ticket: while it exists nothing was
  started for it, and whoever has the application in its books has started it
  (`Tickets`). `Outcomes` says what a launcher and a result file may claim, and
  that a refusal whose application runs is one of those that section 4 exempts.
* **WsiEvents.** One reader and `eventWaiting` depend on each other; that what
  poll(2) announced is still there follows from both. `TimeoutHonest` speaks of
  the one step that returns VK_TIMEOUT; the code looks once more before it, so
  all it needs is that only finite waits get there (`ExpiredFinite`).
* **DesktopHandoff.** The headset's Plasma starts only when sesman is not
  running (`StartAlone`), a session only begins behind sesman (`SesmanBehind`),
  and one that is asking waits for the manager (`LoginsWait`). That listeners
  are down beside the headset's desktop is not inductive: `prepare_access` starts
  them whenever gamescope does not run, also while the workspace of one that
  has just died still does. `MeetAtPoll` confines their meeting to the poll that
  follows each request and ends the workspace; for that the manager must not
  have forgotten the display (`DisplayKnown`), and a desktop that is being
  started has no listeners (`StartUnheard`).
* **BluetoothBridge.** Commands carry growing ids. Android takes a command up
  only if its id is not the last (`TakeUp`), so an answer to the newest id
  means that the newest command has been taken up; the callbacks still to come
  belong to the current callback (`starting` is within `callback`), which is
  why a late one cannot confirm a later start. A stopped service has nothing
  pending and nothing active. `InStep` says, for each place the service can
  wait at, what it and Android may disagree about meanwhile. Two disagreements
  last and are exempt in `BridgesInStep` as in the property: after a start or
  stop whose answer the guest never had (`unlearned`), and the callback of a
  start that threw (`thrown`).
* **VideoQueue.** `FramesInOrder` is about the picture shown last; it holds
  because all that wait are newer, all differ, and none is ahead of the number
  of stored pictures (`FramesAhead`), so that the oldest is newer and leaves
  only newer ones. An encoded buffer is in one place because the queue, the
  completed ones and the hand of the worker never share one (`InputsApart`);
  `InputsHeldOnce` is a count of that. The wake-up needs that a closed device
  has nothing to tell (`ClosedIsIdle`), because `open` does not signal, and the
  types need that pictures never outnumber packets (`Spent`).

* **TimelineBridge.** What a semaphore has completed since its worker looked is
  known to nobody else, neither the page nor another worker on its way to a
  signal; so, with gated submissions, a signal of a worker is never overtaken.
  That a completion is not lost with its semaphore needs `Carried`: it is in
  the page, or somebody attached still brings it.
* **VulkanShim.** Two threads inside the host's queue calls use one host queue
  only if their families are aliased, and then both have taken the lock.
  `QueueInv` says that the alias has not changed since they looked
  (`OneAsked`, for an application that keeps to one physical device), that each
  handle is the mapped one, and that the lock counts who is inside. Lists are
  honest because what was shown was the list of a host that names each
  extension once (`HostAssumption`).
  `MemoryRestored` is about walks: `StripWalk` and `Undone` are functions
  defined from the value before, which exist because every finite stretch of
  them does (`Recursion`), and what holds at the start and is passed on holds
  at the end (`UpTo`, by a least counterexample instead of an induction
  theorem). A step of a strip changes one link and saves what it was
  (`Edits`), so the first entry about a place is what the application wrote
  there (`Remembers`); undone from the youngest, that entry is written last
  (`Undoes`). A second attempt edits what the first has left, and gives that
  back before the first one's edits are undone (`QueueRestored`). It holds for
  chains of any length, whatever the walk leaves out.
  `HostUnderstands` has two halves. The first is about time: what the layer
  takes out of a request is decided by the flags of the moment, what it let
  the application ask for by those of an earlier query. `KnownInv` says that the
  alias is what the host's families make of it, and that whoever was shown a
  list was shown the list of these flags, unless another device was asked about
  since; so a structure the application may add is real exactly when no flag
  takes it out (`FlagsTrue`, `RealOnes`). `DevicesMade` keeps the same up to the
  queues: each family asked for is mapped to one the host has made. The second
  half is about walks: after i structures a strip has left links that lead from
  each structure that stays to the next that stays (`LeftBy`, `Behind`), so a
  walk over them finds those and no others, in order (`WalkRetains`), where the
  restore array has room for the chain. With an alias exactly one request for a
  queue is left, the one of the backing family (`MappedOnce`); the second
  attempt finds only structures that were there in the first
  (`RetriedUnderstood`).
* **ShimDispatch.** That no wrapper calls itself needs `Sound`: whatever was
  looked up before, only the pointer to `vkCreateInstance` may be the wrapper,
  an open loader is one that is installed, and with a linked one
  `vkGetInstanceProcAddr` was found. That `vkCreateDevice`, which does not look
  its function up, has it all the same needs `Ready`: whatever opens the loader
  leaves the host's function in that pointer. The theorem is about the look-up functions
  one by one, each of which keeps the pointers sound and the loader open.
* **ShimDisplay.** `DisplayInv` ties the window and the connection to X together
  and bounds what was listed by what the host provides.
* **VmDriver.** What a queue says last about a key is true (`LastIsTrue`), since
  the kernel puts every change into it and an overflow leaves a mark; so a key
  the driver takes for held is held at some device, or a queue has the event
  or the mark that will release it (`HeldOrReleased`). `PulseInv` says where the
  dashboard's automatic press of the system button stands.
* **RobustFutex.** While a thread lives, the words that name it are those in its
  list, but for the one it is locking or unlocking; a dying thread that still
  stands in a word has the entry before it (or the word is past the end of what
  `robust.c` follows). A time-out follows from the artificial bound never being
  the one that is reported.

Assumptions on constants: bounds are natural numbers, those of which the code
needs one are not zero; sets that are counted are finite; names that stand for
nobody are not names of somebody. Beyond that: a swapchain has two buffers or
more, `MaxSignals < EpochModulus` (see above), a host lists each extension once,
as Vulkan requires (`HostAssumption`, `DisplayAssumption`), a request has
sequences of structures of known kinds (`RequestAssumption`), an event queue holds
two events or more, and the intervals of the driver's automatic presses are in
the order of the code's numbers (`DriverAssumption`).

`OrdinaryRequests` is what `HostUnderstands` needs of an application and the
layer does not check: each family is asked for once and a structure is in a
chain it extends (both required by Vulkan), a chain has at most
`MAX_PNEXT_RESTORE` structures, and some queue has no flags. The last is about
protected queues, which a compositor does not use: the layer rewrites the
requests only if it maps or adds the alias (`Maps`), so a request whose queues
are all protected would keep a made-up priority at the head of its chains.
`MemoryAlwaysRestored` and `HostQueuesExclusive` do not use it. Of the chains of
`vkQueuePresentKHR` nothing is assumed (`PresentAssumption` only says what they are
made of).

Only model-checked: all liveness (`RendererGoesOn` and the like), because the
prover does not do fairness. Every invariant and every action property of the
runs is stated by a theorem.

## 6. Plan

What is there: the modules of section 2. What comes next, in this order:

1. `UsbRoute`: caches against a network and descriptors that go.
2. `TrackingPage`: a sequence lock with word-wise copies, its futex pulse and
   the share mirror; one module, instantiated for its pages.
3. `RenderViews`: the tracker as a refinement of "the presented image carries
   the cameras of its draws".
4. Pure algorithms against reference definitions: `PcmQueue`, `LoadingBoost`,
   `steam_channels`, the HEVC header parser.

Small independent components (1, 2, 4) will share a run, as `GuestLife` and
`VirtualMachine` do: a choice at the start says which of them the behaviour is
about, so the states add up instead of multiplying.
