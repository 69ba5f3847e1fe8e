# SeeDesktop: TLA+ models of the controlled side

SeeDesktop (a descendant of RustDesk) lets one machine show its screen to, and
be driven by, others.  This directory holds TLA+ models of the part of the
program that runs on the controlled machine: the publish/subscribe services
that feed the connections, the video service with its pacing and its quality
control, the display service, a connection's permissions and subscriptions,
the privacy mode, the rendezvous mediator that makes the machine reachable,
and, with both of its sides, the file transfer.  TLC checks the models on small
instances; TLAPS proves the main safety properties for all instances.

## The system

A controlled machine runs one `Server` (`src/server.rs`).  Every controlling
peer is a `Connection` (`src/server/connection.rs`), a task with its own event
loop.  What the peer sees comes from *services* (`src/server/service.rs`):
threads that produce messages for whoever has subscribed.

| Part | State | Operations | Interacts with |
| --- | --- | --- | --- |
| service (`service.rs`) | `subscribes`, `new_subscribes`, `active`, `handle`, options | subscribe, unsubscribe, snapshot, send, join, the run loop | Server (calls under its lock), connections (messages) |
| server (`server.rs`) | connections, services | add, remove, subscribe, capture_displays | connections, services, root process (configuration) |
| video service (`video_service.rs`) | encoder, frame controller, `FRAME_FETCHED_NOTIFIERS`, `DISPLAY_CONN_IDS` | capture, encode, send, wait, refresh, switch | connections (acknowledgements), `VIDEO_QOS`, display service |
| quality control (`video_qos.rs`) | `fps`, `ratio`, users, displays | delays, timeouts, choices, adjustments | connections (reports), video services (once a second) |
| display service (`display_service.rs`) | `SYNC_DISPLAYS`, `TEMP_IGNORE_DISPLAYS_CHANGED` | poll, mark, send | logins, video services, privacy mode |
| connection (`connection.rs`) | login, sessions, permissions, jobs | one handler per message | everything above |
| audio, cursor, clipboard, terminal services | last state sent | poll and send | connections |
| rendezvous mediator (`rendezvous_mediator.rs`) | registration timers, failures, restart flags, last messages; id, key and confirmation in `config.rs` | register, restart, punch hole, relay, listen | rendezvous server, server, ipc, root process |
| privacy mode (`privacy_mode.rs`, `privacy_mode/`) | the implementation, the connection that holds it, the input hook | turn on, turn off, switch | connections, options, Windows |
| client (`client.rs`, `client/io_loop.rs`) | routes, decoding queues | connect, receive, decode | a remote Server |
| file transfer (`hbb_common/src/fs.rs`) | jobs, files, digests | read, write, confirm, resume | connections, client, connection manager |

`PROJECT.json` lists the remaining parts (transport, configuration, user
interface, packaging and so on) with the reason why each is left out.

What is hard here:

* **Interleaving.**  A service's thread and the tasks that change its
  subscribers meet on a lock that several operations take more than once
  (`is_subed`, `snapshot` with its `Drop`).  Readers of the displays ask the
  system first and lock later.
* **Ordering.**  Acknowledgements of frames go through a channel that outlives
  the frame; a closing connection notifies before it unsubscribes.
* **Timeouts.**  A frame is waited for at most three seconds; a user that does
  not answer for two seconds slows down everybody.
* **Coupled users.**  The frame rate is one number for all users, the quality
  is the latest choice of those present, and the last user to leave resets
  both while a service may still be running.
* **Answers that do not say to what.**  A registration is accepted without
  naming the id or the key; a confirmation of a file names only its number.
* **Crashes and partial failures.**  A client may be killed between the three
  files that make up an unfinished download; a privacy mode may fail half-way.
* **Many places, one rule.**  What a connection may receive is decided again at
  each of a dozen messages, each time by a part of the conditions.
* **Numbers at their limits.**  Two clamps panic when their bounds cross.

## The modules

| Module | Models | Used by |
| --- | --- | --- |
| `PubSub` | abstract: a set of members that only the Server's calls change | `Service` (refinement) |
| `Service` | `service.rs` and the calls of `server.rs` | `MCService`, `ServiceProofs` |
| `VideoStream` | the loop of `video_service.rs` for one display, its clients and acknowledgements | `MCVideoStream`, `VideoStreamProofs` |
| `VideoFps` | the frame-rate half of `video_qos.rs` | `MCVideoFps`, `VideoFpsProofs` |
| `VideoRatio` | the bitrate half of `video_qos.rs` and `check_qos` | `MCVideoRatio`, `VideoRatioProofs` |
| `DisplaySync` | `SYNC_DISPLAYS` and its writers | `MCDisplaySync`, `DisplaySyncProofs` |
| `Connection` | what one connection is subscribed to (`connection.rs`) | `MCConnection`, `ConnectionProofs` |
| `Privacy` | the holder of the privacy mode on Windows (`privacy_mode.rs`) | `MCPrivacy`, `ConnectionProofs` |
| `Registration` | the registration of id and key (`rendezvous_mediator.rs`, `config.rs`) | `MCRegistration`, `RendezvousProofs` |
| `Mediator` | `start_all`, `restart`, the tasks for peers, `direct_server` | `MCMediator`, `RendezvousProofs` |
| `FileCopy` | abstract: what a transfer does to the directory it writes to | `FileTransfer` (refinement) |
| `FileTransfer` | a download, both sides (`fs.rs`, `connection.rs`, `client/io_loop.rs`) | `MCFileTransfer`, `FileTransferProofs` |
| `FileTransferInv` | the inductive invariants of `FileTransfer` | `FileTransferProofs` |

The operators whose comment describes a fault (`SwapForgets`,
`AnyFetched`, `AdjustFpsHalts`, ...) are faulty variants of the operator that
follows them.  They are not used by the specifications; put in the place of
that operator they make a property fail, which shows that the property depends
on it.

### Service

One service, its thread and the task that holds the Server's write lock.  A
step is one acquisition of the lock of `ServiceInner`; `snapshot` is therefore
three steps (test, callback, the `Drop` of `ServiceSwap`) and `is_subed` two.
Calls come from connections whose `Connection::start` runs (`tasks`).  Not all
of them are in `Server.connections`: a permission that is switched before the
login already subscribes (`connection.rs:653-712`), `add_connection` comes
later.  The callback of the service succeeds or fails nondeterministically,
also before it comes to its snapshot (the setup of the video service, the
cursor's errors), and either returns after one iteration (`repeat`) or goes on
while the service is active and has members.  After a
failure the thread sleeps for the time of `BackOff`, which doubles up to
`MAX_ERROR_TIMEOUT`.  The history variable `asked` is what the Server's calls
ask for and `straddled` the connections that a swap moved between the two reads
of a call in progress.

`PubSub` is what the Server may believe: a set of members, changed by calls and
by nothing the thread does.  `Service` implements it with
`members = subscribes \cup new_subscribes`; who is served is a connection that
runs, whether it has been added or not (`ServesRunningOnly`).

### VideoStream

One display.  `Setup` to `FrameDone` are the stages of the loop in `run`;
`Exit` stands for every way out of it, with the `Drop` of `Raii`.  The reasons
to switch (codec, privacy mode, desktop, quality) come from outside and are
one event, `Switch`; the change of the display is another because it moves the
new subscribers.  Native clients acknowledge when their task takes the frame
(`FetchFrame`), web clients with a message that names no display
(`VideoReceived`).  Closing is two steps: the notification and
`remove_connection`.  The maps of the service are used through their methods
here, one step each.

Abstractions: the content of a frame is whether it is the first one of its
encoder; the channel is a set, since the receiver drains it into a set; a
display has one video source.

### VideoFps and VideoRatio

`VIDEO_QOS` is one mutex, so every method is a step of its own, computed with
the code's integer arithmetic.  `VideoFps` keeps every field that the rate
depends on: the last three delays, the window of the round-trip estimate, the
two counters of good samples, the flag of an overdue answer.  `devide_fps` is
computed in `f32` in the code: the rounding of the division may turn an exact
quotient into the next integer, which for rates up to 120 happens only from 35
on; `Divided` allows both.  `VideoRatio` has ratios in thousandths, truncated;
whether three seconds have passed, whether enough was sent and the largest
delay are inputs of the step.  Two users never choose in the same millisecond,
and `set_quality` of an encoder succeeds.

The two halves are separate modules because they share only the quality in
force, an input of `VideoFps`.

### DisplaySync

The list of displays is one value.  The system's answer and the store under the
lock are two steps for each of the three writers (thread, logins, a video
service).  `told` is what was last put into the queue of a connection: the
login response, then messages of the service.  `handover` records who was moved
to `subscribes` while the list was marked synced and different from the one it
had been told.

### Connection

The event loop of one connection to a screen or a camera: one action for each
message of the connection manager that switches a permission, for each field of
an `OptionMessage`, for the stages of the login (`Authorize`, the options of the
login, `LoggedOn` or the choice of a Windows session, `SelectedSid`), for voice
calls and for the choice of displays.  Every call of `Server::subscribe` in a
handler is part of its action; `Subscribed` is what a list of such calls does.
A choice of displays adds, takes away or sets them, as the three lists of
`CaptureDisplays` say.  `subs` are the services that depend on permissions or
options, `shown` the displays.  How a peer proves who it is, and messages that
change no subscription, are left out.

### Privacy

`PRIVACY_MODE` is locked for a whole turning on or off, so that one critical
section is one step and what happens between two is interleaved.  The
operations of the two families of implementations (a window over the screen,
virtual displays instead of the physical ones) map a mode to the set of its
possible outcomes, with the number of calls of the system that failed in it.  A
connection goes through the states of `Connection::turn_on_privacy`; with a slow
implementation a thread does the work and the connection waits for 7.5 seconds
(`Timeout`), after which the thread is in `late`.  The hook of the input is
"leaving" between the message that `unhook` posts and the end of its thread.
After a turning off that the system refused (`stuck`) nothing is claimed.  The
`Drop` of `AuthedConnID` is three steps: the entry is taken out (`Leave`), the
others are counted under another lock (`Count`), and the last one to go resets
the virtual displays, whoever holds the mode by then (`ResetAll`); `newcomers`
are the connections that logged in between the two last ones.  `CtrlP` is the
owner's key, which the hook sees (`win_input.rs:222`).  The end of the process
through the ipc (`ipc.rs:563`) turns the mode off as well, just before nothing
of the model is left, and is not an action.

### Registration

The loops of `start_udp` and `start_tcp` with their timers in ticks, the answers
of the server (`handle_resp`), and the others who change the id and the key: the
ipc handler in two steps, the configuration that comes from root on macOS, with
the `Drop` of `CheckIfResendPk`.  The module does not cover Linux, where the
same synchronisation runs (`server.rs:716`) but the cached key is kept
(`config.rs:1416-1420`) and nothing checks whether to register again.
`register_pk` is two steps, the send and the store to `SENT_REGISTER_PK`.
Messages carry the id and the key they are about for the properties only.  The
server is external: it remembers one key for each id, refuses ids of other
devices, and may forget or refuse. Over UDP messages are lost, repeated and
reordered; over TCP they keep their order and end with the connection.
`using_public_server()` is false in this program, so the back-off of the timeout
is never used, and there is one server only.

### Mediator

The loop of `start_all` (test of `stop-service`, store to `SHOULD_EXIT`, start,
end, sleep), the threads that set an option and then call `restart`, one task
for each message of a peer, and `direct_server`.  Each task reads and stores
`LAST_MSG` or `LAST_RELAY_MSG` under two locks; `Elapse` lets 100 ms pass for
all.  The ways to a peer (intranet, hole, relay) differ in what comes after a
failure only.  `missed` records that `stop-service` was set, and `restart`
called, between the test and the store.

### FileTransfer

A download of `N` files.  The reading side is the `Connection`'s list of
`TransferJob`s with its file timer, the writing side the client's job with its
files `f`, `f.download` and `f.digest`; between them two ordered channels.
Faults are, on the reading side, a file that cannot be opened, read or asked for
its digest; on the writing side, one that cannot be created, written, sought in
or renamed (`fs.rs:588` ignores it), or whose time cannot be told when a digest
arrives (`fs.rs:1340-1343`: the client prints the error and answers nothing,
`io_loop.rs:1605`).  Beside them, a connection breaks (the client saves its
position), a client is killed, also in the middle of `write` and between the
removal of a digest and the renaming, and a source changes while nobody is
connected.  A digest is the version of the source.  An offset is a number of
blocks; the code sends it in bytes as a `u32` (`io_loop.rs:1565`), which is the
same number as long as files are smaller than 4 GiB (`OffsetAssumption`).
`FileCopy` is the promise: under its own name a file is what it was or a whole
copy of one version, and a skipped one is not touched. `suspect` lists the files
for which the program does not keep it, `failed` the jobs that may wait for
ever: those that the reader reported as failed and still keeps, and those whose
question the writer dropped.

## What is checked

| Run | Instance | Properties |
| --- | --- | --- |
| `service` | 2 connections, snapshot service | `SubscribeNeverLost`, `UnsubscribeLostOnlyByStraddle`, `ImplementsPubSub`, `JoinReturns`, `NewSubscriberServed` |
| `video_stream` | a native and a web client, 1 round of waiting, 2 frames queued, 2 encoding errors | `BlindOnlyAfterHandover`, `OneFrameUnderWay`, `RefreshMakesKeyFrame`, `WaitEnds`, `RefreshTakenUp` |
| `fps` | 2 users, delays of 10 and 1000 ms, rates of 5 and 60 asked for | `FpsInRange`, `SlowestUserRules`, `DelayedUserHoldsBack`, `Recovers` |
| `ratio` | 2 users, 1 service, all qualities, custom ones at both ends of the range | `RatioInRange`, `ClampOrdered`, `NoBetterThanChosen` |
| `ratio_reaches` | 1 user, 2 services, all qualities, no adaptation | `QualityReachesEncoder` |
| `display_sync` | 2 connections, 2 lists of displays | `SyncedMeansTold`, `HandoverNeedsDeparture`, `TheRestIsTold` |
| `connection` | 2 displays | `NothingForbidden`, `NothingMissing`, `CameraHearsCalls` |
| `privacy` | 2 connections, 3 failing calls | `NoGhostHolds`, `CoveredIsHeld`, `OnlyOwnMode` |
| `registration` | 2 ids, 2 keys, 1 message under way, 1 fault, 1 edit | `ConfirmedMeansRegistered`, `ShownOnlineIsRecent`, `RegisteredInTheEnd` |
| `mediator` | 2 requests of 1 address, 2 changes of options, 1 error | `AskedIsServed`, `OptionsTakeEffect`, `StoppedMeansAlone` |
| `file_transfer` | 2 files, 2 versions, 2 jobs, 1 fault | `DoneMeansDelivered`, `DigestTells`, `AgreedBeforeSent`, `NobodyWaitsInVain`, `ImplementsFileCopy`, `JobEnds`, `ReadJobsEnd` |
| `file_ignored` | 2 files, 3 jobs, no fault | `IgnoringIsHarmless`, which is violated |

What they show:

* The Server's view of a service is right: the thread never changes who is
  served, a subscription is never lost, a connection whose task is over is never
  served again, `join` returns and then the thread is silent, and as long as
  callbacks come to their snapshot everybody who waits is moved.  An unsubscription can
  be lost, in exactly one way: a swap between the two reads of `is_subed`.
* A connection starts in the middle of a stream only when it takes over the
  encoder of a last subscriber that left within one iteration.  As long as no
  wait is given up and nobody closes, no connection has two frames under way.
  A refresh disappears only with its encoder, is taken up, and a client that
  never acknowledges does not hold the thread for ever.
* The frame rate and the ratio stay where their clamps are well defined.  The
  common rate never exceeds what was measured for any of the users, whoever
  comes, goes or reports, and no change gives a better quality than the latest
  choice of those present.  One user whose answer is overdue holds the rate down
  whatever the other reports, and a single user's rate recovers when its
  network does.  Without adaptation every registered encoder comes to
  work at the quality chosen last; except one that cannot change its quality
  and met a change while a custom quality was in force, which `check_qos` noted
  (`video_service.rs:1322`) and never looks at again.
* When `is_synced` is set, every subscriber of the display service knows the
  stored list, whatever the three writers did, except one that joined silently
  after a departure.

* A connection gets what permissions and options allow and nothing they forbid,
  in every order of switches, options, calls and stages of the login, with the
  exceptions the properties state: the switch of the keyboard does not look at
  `disable_keyboard` for the cursor (`connection.rs:668`), the clipboard's
  switch and option do not look at the file clipboard (`:672`, `:3885`), and
  several displays at a time suspend the focused window.  A switch before the
  login already subscribes.  A camera is heard in calls only.
* A connection that has gone does not hold the privacy mode, unless its thread
  turned it on after the 7.5 seconds or a turning off failed; screen and input
  are covered exactly while somebody holds it, except that virtual displays may
  be used with the input left free; no step a connection takes for itself
  takes over or ends another one's mode.  Two steps do not look at the holder:
  a connection whose turning on failed turns off whatever is on
  (`connection.rs:4072`), of which nothing is claimed, and the last one to go
  resets the displays, which hits only a connection that logged in after it had
  counted, or one that is over itself.
* A device that takes its key to be confirmed is registered; one that is shown
  online was answered recently; in the end the server has the current id and
  key.  Over TCP, and for a key from root, this needs that no change raced with
  a registration under way.
* Of several copies of a request at least one is served (and two may be, when
  both tasks read before either stores).  Options take effect and a stopped
  service ends up without connections, except when `stop-service` is set
  between its test (`rendezvous_mediator.rs:100`) and the store of false
  (`:105`): then the mediator runs on until something restarts it.
* A downloaded file gets its name whole, a skipped file is not touched, a job
  that is done has delivered every file, an unfinished file is continued only
  with its own version, and every job ends or waits for the user.  Neither side
  waits for something that is not under way: a reading job without an answer has
  its digest, its answer, its cancel or the user's question pending, the
  writer's job has a reading job, a request or its end.  Exempt are
  files with a failed write (after a failed `File::create` the next blocks go
  into the file before, `fs.rs:666`) or a failed renaming, remains that nobody
  resumed (the first block gives them their final name, `fs.rs:639`), jobs that
  the reader keeps after an error (`fs.rs:1216`), and jobs whose digest the
  writer could not compare with its own file (`io_loop.rs:1605`).  A job of the
  last two kinds may wait for ever and blocks the ones behind it.

### Disagreements with comments

`file_ignored` checks what a comment says and finds it violated: a confirmation
for another file than the current one is ignored, "It is ok. Because
`confirm()` in `ui_cm_interface.rs` is only used for resuming"
(`fs.rs:1018`).  A job that resumes and finds remains of a later file as well
asks the sender to continue them, ignores its own answer because it still has
the file before open, truncates the remains and writes the rest of the source
at their beginning.

The other models are exact about the following, which comments or names do not
say:

* "break if all connections have received current frame"
  (`video_service.rs:875`): numbers are compared, and the channel keeps
  acknowledgements of earlier frames, so that a late one ends the wait for the
  next frame.
* `DISPLAY_CONN_IDS` is for "The client is closing" (`video_service.rs:72`):
  the notification comes before the connection is unsubscribed
  (`connection.rs:1044`) and is dropped while a frame is sent but not
  registered yet, so a frame can be waited for in vain, for three seconds.
* Below 150 ms "increase fps" (`video_qos.rs:12`): with two users whose third
  samples do not coincide the increase of one is undone by the report of the
  other (`video_qos.rs:269`), hence `Recovers` is claimed for a single user only.
* `in_vbr_state` says "supported and enabled" (`video_qos.rs:177`): the last
  user's departure forgets the displays of a service that still runs (`:196`).
* "sync peer info message will be sent" (`display_service.rs:104`): not to a
  connection that waits in `new_subscribes` while a change is sent and joins
  after its predecessor has left (`:232`), which is what `handover` records.
* `CheckIfResendPk` "detects pk changes and triggers a re-registration"
  (`rendezvous_mediator.rs:904`): an acceptance of the old key that arrives
  afterwards confirms the new one (`:289`), which is what `raced` records.
* "unreachable!" (`privacy_mode/win_input.rs:32`): `unhook` only posts a
  message, so a mode that follows at once finds the input hooked.  The window
  then fails to turn on; the displays are turned on with the input left free.
* A failed attempt to turn on the privacy mode, also one that failed because
  somebody else holds it, turns off that one's mode (`connection.rs:4072`).

### Bounds

Two connections are enough for the roles that the code tells apart: an old and
a new subscriber, one that stays and one that leaves, one that acknowledges and
one that does not; an id is never used again, so longer histories need no more
of them.  `MaxPending` (2) is the least bound at which two frames can be under
way; `Capture` stops at it.  `WaitRounds` stands for the ten rounds of 300 ms
in three seconds, `MAX_FAIL_TIMES` for 3 or 9.  The delays of `fps` are one in
the range where the rate grows and one above 600 ms; the window of the
round-trip estimate is 3 samples with a minimum of 2, instead of 60 and 10.  A
single user is not bounded; while two are present, `Bounded` explores up to two
reports of each (`MaxShared`) and requests that do not exceed the default, which
is enough for each to be slower than the other, to be overdue while the other
reports, and to leave in either state.  `Recovers` starts from the states of a
single user, those after another one's departure included.  The safety
properties are proved without these bounds.  In `ratio` the delay is
good and the ratio grows; the proofs cover every delay.

In `registration` an interval is two ticks, long enough for an answer that is
late and not too late; one message under way, kept or repeated, is enough for an
answer to meet a changed id, since the sequences of requests are not bounded.
Two requests of `mediator` are copies of each other or not, as their lock says.
In `file_transfer` two files make a file before and a file after, and two jobs
one that is interrupted and one that resumes or starts anew. `privacy` has a
fault for each of turning off, turning on and trying a capturer.  `MaxEdits`,
`MaxSettings`, `MaxFaults`, `MaxFails`, `MaxJobs` and `MaxVersion` limit only
what users and the world do.  No run replaces a definition, and only `fps`
limits the states by a constraint; `privacy` uses the symmetry of its
connections, and checks nothing temporal.

Only `privacy` checks for deadlock.  In the others a system whose connections
have all gone, whose jobs are done or whose peers have all been served, with
the bounds used up, rightly does nothing.

### Fairness

* `Service`: weak fairness of the thread and of the Server's call in progress,
  which hold their lock only for a moment.  No fairness for the arrival of
  calls or for the success of a callback: `NewSubscriberServed` is about
  behaviours in which the callback comes to its snapshot again and again.
* `VideoStream`: weak fairness of the thread.  No fairness of any client and of
  no event that switches the encoder.
* `VideoFps`: every connection's event loop runs its timer once a second and
  answers `TestDelay`; the video service updates once a second.
* `VideoRatio`: a service thread goes on, and checks once a second.
* `DisplaySync`: weak fairness of the thread and of the holder that ignores
  changes, which sleeps a second and is dropped; strong fairness of a
  successful answer of the system, which may fail again and again but not for
  ever.
* `Registration`: weak fairness of the loop, whose timer ticks, of the tasks
  that have begun to change the id or the key, and of the server; strong
  fairness of an answer that reaches the device and of its handling, since the
  socket an answer is for may be replaced again and again, but not each time
  just before the answer comes.  A TCP connection without heartbeats is a
  fault.  Root's configuration need not come.
* `Mediator`: weak fairness of the loop, of a thread that is about to call
  `restart`, of every task and of the listener's loop.  No peer needs to do
  anything.
* `FileTransfer`: weak fairness of the reader's file timer and of the two event
  loops.  The user need not answer, and nobody need connect again.

`Connection` and `Privacy` have no liveness property.

## What is proved

All proofs are for any sets of connections, users, services, delays, bitrates,
display lists, requests and files, and for any bound on what users, the network
and the system do.

* `ServiceProofs`.  The inductive invariant `Inv` joins the properties with
  `CallInv`, which says what the call in progress has read and what may have
  been moved since; without it `UnsubscribeLostOnlyByStraddle` is not
  inductive.  From it: `TypeCorrect`, `HeldOnceHolds`,
  `ServesRunningOnlyHolds`, `SubscribeNeverLostHolds`,
  `UnsubscribeLostOnlyByStraddleHolds`, `JoinedIsSilentHolds`, the action
  property `ThreadKeepsMembersHolds`, and `Refinement`: `Service` implements
  `PubSub`.
* `VideoFpsProofs`.  `TypeOK` and `FpsInRange` are inductive together: the rate
  must be at least 1 for the next one to be computed, and the delays at least
  10 for the division.  `RateStep` says that a step either sets the rate to a
  value of `adjust_fps`, or leaves it and everything it must follow (`Kept`), or
  removes the last user.  From them `FpsAlwaysInRange`, `SlowestUserAlwaysRules`
  and `DelayedUserAlwaysHoldsBack`, which need that every way to change what is
  known of a user ends in `adjust_fps`.
* `VideoRatioProofs`.  `TypeOK` and `RatioInRange`: with the ratio in range the
  lower bound of the clamp is at most the upper one, which keeps the ratio in
  range.  `RatioStep` lists the ways the ratio changes.  From them
  `TypeCorrect`, `RatioAlwaysInRange`, `ClampAlwaysOrdered` and `NeverBetterThanChosen`.
* `DisplaySyncProofs`.  `SyncedMeansTold` and `HandoverNeedsDeparture` become
  inductive with `ThreadInv` (what the thread has made of `is_synced` at each
  place) and `ServedUntilDeparture` (as long as nobody has left, a thread past
  the snapshot has subscribers, so `is_synced` is never set for nobody).  From
  them `TypeCorrect`, `SyncedAlwaysMeansTold` and `SilentOnlyAfterDeparture`.
* `VideoStreamProofs`.  `BlindOnlyAfterHandover` needs `Keyed` (who has had the
  first frame of the running encoder, at each stage of the loop), and
  `OneFrameUnderWay` needs `Room` and `Pace`: as long as nothing was disturbed,
  the acknowledgements in the channel and in `fetched_conn_ids` belong to the
  wait in progress, so that comparing numbers is comparing sets.  From them
  `TypeCorrect`, `BlindOnlyAfterHandoverHolds`, `OneFrameUnderWayHolds` and the
  action property `RefreshMakesKeyFrameHolds`.
* `ConnectionProofs`, the connection.  The three properties are inductive
  together with `NoEarlyCalls` (before the login there is no voice call), which
  `CameraHearsCalls` needs at the login.
* `ConnectionProofs`, the privacy mode.  `PrivacyInv` joins the types, `ModeOK`
  (what is covered and hooked is held, and the input is left free only for a
  holder) and `NoGhostHolds`.  The operations return sets of outcomes, so the
  proof is in lemmas on them (`TurnOff`, `TurnOnSync`, `Replace`): each outcome
  keeps `ModeOK`, and its holder is the one before, the caller or nobody.
  `NoGhostHolds` rests on a part of the types: a thread nobody waits for belongs
  to a connection that gave up waiting, so that a mode turned on late is
  accounted for.  From it `PrivacyTypeCorrect`, `NoGhostHoldsHolds`,
  `CoveredIsHeldHolds` and, with `ResetInv` (while one that counted nobody is
  about to reset, whoever has an entry logged in after the count), the action
  property `OnlyOwnModeHolds`.
* `RendezvousProofs`, the registration.  `ShownOnlineIsRecent` rests on
  `UdpShown` and `TcpShown`, which bound the silence by the timers and the
  counted failures.  `ConfirmedMeansRegistered` rests on what is known of
  messages under way as long as nothing raced: requests carry the current id
  and key (`RequestsCurrent`), an acceptance says what the registry has
  (`AcceptedIsTrue`), and so do the confirmations (`ConfirmedIsTrue`,
  `RootIsTrue`).
* `RendezvousProofs`, the mediator.  `AskedIsServed` becomes inductive with
  `LastHasWinner` (the address stored last belongs to a message that was, or
  will be, served) and `SeenHasWinner` (the same for what a task has read).
* `FileTransferProofs`.  `Inv` (in `FileTransferInv`) has three groups beside the
  types, and the argument needs them all because a confirmation names only a file and a block
  only a file and a place:
  - `Protocol`, the questions and answers.  Ids are not reused and nothing
    outlives a connection (`Ids`), nothing is under way for a job not asked
    for yet (`Fresh`), a digest, the user's question and an answer are about
    the file at which the reader waits (`Question`) and only one of them exists
    at a time (`OneQuestion`), blocks are of the present version, of one file
    that comes before the file of a digest behind them (`Wire`), and none
    follows the end of its job (`Ended`).
  - `Writer`, the two positions.  The writer knows the digest of what is sent
    (`Agreed`) and is at most one skipped file ahead (`Progress`); skipped files
    are behind (`Behind`); only the current file is unfinished (`Parts`,
    `Stream`); the blocks under way continue what the writer holds without a gap
    (`InOrder`), the reader is where they end (`Top`), and it has left no
    file behind except after an error it reported (`Reached`).  Without the
    last three, the step that finishes a file could not be shown to finish it
    whole, nor the end of a job to come after its last file.
  - `Disk`, the outcome.  What a running or saved job has passed is whole,
    skipped or suspect (`Keeps`), an unfinished file is a beginning of one
    version (`Sound`), and the properties `DigestTells` and
    `DoneMeansDelivered` themselves.

  Most actions are an instance of one of a few shapes (`Tick`, `Sending`,
  `Confirming`, `Thinned`, `Asking`, `Answering`, `Wrote`, `Opening`,
  `Cancelling`, `Quiet`), named for what they do to the jobs and the channels;
  each group of the invariant is proved for the shape, and each action is shown
  to have its shape.  From `InvHolds`: `TypeCorrect`,
  `DoneMeansDeliveredHolds`, `DigestTellsHolds`, `AgreedBeforeSentHolds`.  The
  refinement `ImplementsFileCopyHolds` uses `Copied`, proved beside each step:
  it leaves the names alone, or gives one file that is not skipped a whole copy
  or makes it suspect (`Installed`).

  `NobodyWaitsInVainHolds` needs `Alive` on top of `Inv`.  It says for each side
  that what it waits for is under way (`ReaderWaits`, `WriterWaits`), and,
  since the two lists of jobs change at different times, what is true while
  they differ: a reading job, or the request for one, that is no longer the
  writer's has its cancel behind it or is `failed` (`Orphans`), a job
  whose end is under way is no longer read unless it failed (`EndsOnce`), and
  the list of files precedes all that needs it (`ListFirst`).  The timer's shape
  `Tick` is completed by `TickEnds`: a job leaves the list only with its end
  sent.  A digest that the writer drops is thus one of a job whose cancel
  is already on its way, or one it could not compare, whose job is `failed`.

The assumptions are the `ASSUME`s of the modules: what kind of value each
constant is, that the constants that stand for different things differ, that
sets of connections and displays are finite where they are counted, that
the round-trip window is not smaller than its minimum, and that a download has
at least one file and none of 4 GiB or more.

Only model-checked: all liveness properties (`JoinReturns`,
`NewSubscriberServed`, `WaitEnds`, `RefreshTakenUp`, `Recovers`,
`QualityReachesEncoder`, `TheRestIsTold`, `RegisteredInTheEnd`,
`OptionsTakeEffect`, `StoppedMeansAlone`, `JobEnds`, `ReadJobsEnd`), since the
proof system reasons neither about fairness nor about `ENABLED`.  The safety
core of the last two, that there always is something under way for them to
wait for, is `NobodyWaitsInVain` and is proved.  `TypeOK` of `FileTransfer` is
proved (`TypeCorrect`) and in no run.  Every safety
property of a passing run is proved.

## What is not modelled

Most of the repository's lines are user interface (Flutter and its bridge),
platform calls, codecs, key tables and configuration access, which have no
behaviour of their own that a model would tell more about than the code does.
Of the parts with behaviour the following are left out: authentication and
sessions; uploads and the file jobs of the connection manager, which are the
same `TransferJob` with one more hop; terminals; the client's video queue;
screenshots and recording; a camera and a monitor of the same index, which
share a notifier; port forwarding; Wayland; virtual displays; privacy mode on
macOS; the configuration from root on Linux; the close through the ipc; the ways
a hole is punched.  `PROJECT.json` gives the reason for each
component.

The models are not composed into one: `Service` is the contract under which
`VideoStream` and `DisplaySync` use their subscribers, `Connection` decides what
`Service` is asked for, `Mediator` runs what `Registration` describes, and each
takes the others' effects as events that may happen at any time.

## Plan

Done: the services, the video service, the quality control, the display
service, connections, privacy mode, registration, the mediator, downloads.
Candidates, in this order:

1. Terminals that outlive their connection: output buffers, reconnection.
2. The second source of a display and screenshots in `VideoStream`.
3. Uploads through the connection manager in `FileTransfer`.
4. The rate control of the client's video queue.

To run a check: `tlc -config MCService.cfg MCService`; a proof:
`tlapm ServiceProofs.tla`.
