# TLA+ models of the Straw worker SDK

`straw-sdk-go` is the Go SDK with which a program becomes a Straw *worker*: it
registers with Control over NATS, keeps a session alive with heartbeats,
accepts assignments, runs each of them through a user-supplied executor and
streams the response back under flow control. The root package is a small REST
client of the same service.

This directory holds TLA+ modules for the part of the SDK that has state and
concurrency, the TLC configurations that check them, and TLAPS proofs of every
safety property that those runs find to hold. Paths below are relative to the repository.

## 1. The system

### Components, their state and operations

| Component | Source | State | Operations |
|---|---|---|---|
| Assignment admission and drain | `egress/assignment.go` 28-273 | `draining`, `active`, `cancels` under `mu`; the wait group `wg`; the assignment subscription | `Serve`, `handleAssign`, `prepareRequestStream`, `reserve`, `release`, `abandonInFlight`, `SetDraining` |
| Decoded request execution | `egress/assignment.go` 275-375, 677-707, 754-795 | the request context, the result channel, the number of the last progress frame | `runDecodedRequest`, `startDecodedExecution`, `publishResponse*`, `waitForResult`, `applyCancellation`, `publish` |
| Request body reader | `egress/assignment.go` 579-675 | `requestBodyState` | `readRequestBody`, `accept`, `acceptBodyRef` |
| Response credit gate | `egress/assignment.go` 709-752 | `credit`, the channel `grants` | `grant`, `takeAvailable` |
| Stream validator | `egress/stream.go` | `expectedSeq`, `offset`, `credit`, `terminal`, `lastActivity` | `accept`, `idleExpired` |
| Raw tunnel | `egress/assignment.go` 377-577 | the upstream connection, a gate, `tunnelFrameBuilder.seq` | `run`, `handleFrame`, `handleDone`, `streamTunnelDownload`, `next` |
| Session runtime | `egress/runtime.go` | the session id, `ready`, the backoff, `stop` | `Run`, `registerWithRetry`, `runSession`, `runHeartbeatLoop`, the snapshot callback |
| Admission decision, subjects | `egress/types.go` | none | `EvaluateAssignment`, `StreamSubject`, `ValidateSubjectToken`, `ValidateMaxPayload` |
| Body reference resolver | `egress/bodyref.go` | none | `DownloadBodyRef` |
| REST client | `client.go`, `types.go` | none across calls | one HTTP call per method |
| Example | `examples/client/main.go` | none | |

### How they interact

`Run` registers, and for each session builds a `Worker` and starts `Serve` in a
goroutine. NATS calls `handleAssign` from one dispatcher goroutine. For each
accepted assignment `handleAssign` subscribes to the request's stream, takes a
place under `mu`, answers and starts a goroutine. That goroutine reads frames
from a channel that the stream subscription's callback fills, passes each of
them through its validator, and starts one more goroutine for the executor. The
two share the credit gate (a channel) and the context. The runtime reads
`active` and `draining` for heartbeats, sets `draining` from snapshots, and
ends the session by closing `stop`; `Serve` then waits for the wait group, for
at most `workerDrainTimeout` before it cancels what is left.

### What is hard about it, and what makes it correct

* *Admission.* The decision is taken on a copy of the capacity, the place is
  reserved several calls later. Correct: never more than `MaxConcurrency`
  places, one answer per assignment, no place, cancel or subscription leaked.
* *Drain.* Requests end, deadlines pass and a callback may still run while
  `Serve` waits. Correct: `Serve` returns, and requests are not left behind.
* *Body.* Frames may be lost, repeated, or come from another attempt on the
  same subject. Correct: the executor sees the body as uploaded, or nothing.
* *Response.* Executor, grants, cancel, deadline and result race. Correct:
  data in order, within the credit, one terminal frame that tells the truth.
* *Termination.* Control may fall silent, and so may the object store or the
  upstream. Correct: idle clock, deadline or cancel end the request and free its
  place. The code has exceptions (section 3, fairness), which the properties name.
* *Session.* Control forgets sessions, loses or delays requests and replies, and
  publishes settings meanwhile. Correct: a session is drained before it is left,
  what readiness and heartbeats say is true, `Run` returns when it is told to, and
  the worker gets back to a session that Control holds. The last two hang on the
  drain: `runSession` waits for `Serve` (`runtime.go:248`), and `Serve` for every
  request. They hold as long as each request of the session ends, which findings 1
  and 2 and an upstream that stops reading can prevent.

`PROJECT.json` lists the hazards line by line, with the properties for each.

## 2. The modules

| Module | Models | Extends or instantiates |
|---|---|---|
| `AdmissionContract` | what a worker promises Control about assignments (abstract) | |
| `AssignmentServer` | what a worker promises `runSession` (abstract): the interface `AssignmentServer` with `runtimeController` | |
| `Worker` | `Serve`, `handleAssign` and the life of a request's place | instantiates `AdmissionContract`, `AssignmentServer` |
| `MCWorker` | the request ids for the runs of `Worker` | extends `Worker` |
| `WorkerProofs` | the theorems about `Worker` | extends `Worker` |
| `SessionRuntime` | `Run`, registration, sessions, heartbeats and snapshots | extends `AssignmentServer` |
| `SessionRuntimeProofs` | the theorems about `SessionRuntime` | extends `SessionRuntime` |
| `StreamValidator` | `streamValidator`, as operators on a record | |
| `RequestStream` | the control-to-executor stream of one request: Control and the wire at one end, the validator at the other | extends `StreamValidator` |
| `RequestStreamProofs` | lemmas about the validator and the stream | extends `RequestStream` |
| `CreditGate` | `responseCreditGate`, as operators on a record | |
| `CreditGateProofs` | lemmas about sums and the operations of the gate | extends `CreditGate` |
| `BodyRef` | `HTTPBodyRefResolver`: what a download may return | |
| `CreditStream` | a response stream under credit (abstract) | |
| `DecodedRequest` | one request from its body to its terminal frame | extends `RequestStream`, `CreditGate`, `BodyRef`; instantiates `CreditStream` |
| `DecodedRequestProofs` | the theorems about `DecodedRequest` | extends it and the two modules of lemmas |
| `RawTunnel` | a CONNECT tunnel, from its RequestStart to the return of its request | extends `RequestStream`, `CreditGate` |
| `RawTunnelProofs` | the theorems about `RawTunnel` | extends it and the two modules of lemmas |

An operator whose comment begins with "Fault" is a wrong version of the
definition that follows it (a dropped guard, a missing reset, an off-by-one).
No specification uses one; `PROJECT.json` pairs each with the property that must
reject it, so that every property is known to be able to fail.

### `Worker`

The variables carry the names of the fields (`draining`, `active`, `cancels`,
`wg`) or of the program's positions: `hpc` and `hmsg` for the dispatcher,
`rpc[m]` for the goroutine of request `m`, `spc` for `Serve`. A step is what a
goroutine does between two points at which another can run: a critical section
of `mu`, a call on the connection, an operation on the wait group. Two steps take
more: `PrepareRequestStream` is `Subscribe` and `Flush` (with `Unsubscribe` when that
fails), and `RequestDone` the deferred `Unsubscribe` with the `wg.Done` after it; in
between there is only a stream subscription no other goroutine of the model looks at.
Thus
`handleAssign` is `Receive`, `AdmitAssign` (or `RejectAssign`),
`PrepareRequestStream` (or `PrepareRequestStreamFails`), `Reserve`,
`AckAccepted` and `Spawn`; the end of a request is `RequestReturns`, `Release`,
`RequestDone` in the order of its deferred calls; `Serve` is `ServeSubscribe`
to `ServeReturns`.

The content of a message is abstracted to its `kind`: what `handleAssign` can
tell about it. `cancels` maps a request id to the assignment whose cancel it
holds, so overwriting and deleting by id are what they are in the code.

External and assumed: nats.go runs one callback of a subscription at a time;
Unsubscribe drops what is pending and does not wait for a running callback;
`msg.Respond` does not fail (an ack that is lost on the way is a message for
which Control may send a retry: another assignment with the same id).
`DrainTimeout` waits for `hpc = "idle"`: the timer is 60 s, the only blocking
call of `handleAssign` is a Flush that nats.go bounds by 10 s.

### `AssignmentServer` and `SessionRuntime`

The code couples the session to the worker by two interfaces: `Serve(stop)`,
`ActiveRequests`, `SetDraining` and `Draining` are all that `runSession` sees.
`AssignmentServer` says what these allow, as operators on a record `[phase, stop,
draining, handling, active]`, and `Step(sv, new)` is the disjunction of all that a
server may do. It is used twice: `Worker!ObeysServerContract` says that every
step of the detailed worker, seen through `ServerView`, is a `Step` or a stutter
(model-checked, and proved for all constants), and `SessionRuntime` runs
one such server per session. This is how the session is checked against any
number of interleavings inside the worker without the worker's state.

In `SessionRuntime`, `pc` is where the goroutine of `Run` is, from
`register` to `returned` or `failed`; it also waits for each reply
(`registering`, `beating`, `parting`). `conn.Request` is `Request`, the reply or its
timeout, and `Returned`; the check of the context before it is the guard of
`Register`, `Beat` and `BeatNot`. The last heartbeat goes out with
`context.WithoutCancel` and so has no such guard. `sid` is the session id, `lost`
the result of the heartbeat loop. The snapshot callback is three steps (it has the
message, `SetDraining`, the ack), and one that has begun runs to its end after the
session has unsubscribed: hence `callbacks[i]` for each session.

Control is external, and is the adversary: it opens a session per registration
it sees, accepts heartbeats of the session it holds (`current`) and rejects others,
and up to `MaxFaults` times a reply is lost or late (the late request is still taken
by Control: it then knows a session the worker does not), a registration is
refused, the session forgotten, or Control goes down, with its requests and
with or without its memory, to come back later. Snapshots may miss the
worker or arrive in order. The backoff's length, the counts in a heartbeat and
the subjects are left out.

### `RequestStream`

What `DecodedRequest` and `RawTunnel` share: the variables of Control (`ctlSeq`,
`uploaded`, `granted`), of the wire and the subscription (`frames`, `noise`), of the
validator and its idle clock (`validator`, `quiet`), and of the request's context.
`taken` is a history variable: the bytes of credit in the frames accepted so far.
`AcceptFrame(types)` and `RefuseFrame` take the head of the queue through the
validator; each action of a user names the types it is for. An action here says
what becomes of every variable of the stream.

### `BodyRef`

A store returns what Control stored, or that with a byte too few or too
many, or something else of the same length. `Fetch` is the limited read,
`Verify` the comparison with what the frame carries (`RefSized`, `RefHashed`), and
`Downloads(stored)` the bodies that `DownloadBodyRef` may return. A checksum is
taken to be free of collisions.

### `DecodedRequest`

One accepted assignment. `mpc` is where the goroutine of `runDecodedRequest` is
(`reading` = `readRequestBody`, `waiting` = the select of `waitForResult`,
`granting` = blocked or about to send in `grant`, `cancelling` = the receive
after `cancel()`, `publishing` = the final `publish`), `epc` where the executor
is (`sending` = inside the send function, in `publishResponseData`).
`Reading` and `Waiting` are what their actions have in common; these are the cases
of `accept` and of the payload switch. `download` is what `DownloadBodyRef` has been
asked for and has not returned: until it does (`DownloadReturns`, `DownloadFails`)
the reader takes no frame and looks at neither clock nor context. The executor is the
user's:
it sends a head, then its bytes in order in pieces of any size, and returns an
End, an Error or nothing; with `MayBuffer` it may instead return a whole
response. `HeedsContext` restricts the End to a live context, as the contract
of `context.Context` asks; it is needed by `EndMeansComplete` only, because
`publishResponseData` drops data without telling the executor.

A byte of the body is the pair of its attempt and offset, so `BodyIntact` can
tell a lost, repeated or foreign byte. The environment: Control numbers its
frames and may lose any of them, repeats one, or another attempt publishes on
the same subject; it grants what it has received, and at most `EarlyCredit` bytes
ahead of it.

Abstracted: the pending messages of the subscription, its callback and the
channel of 32 are one queue (the request sees only its head; the callback left
blocked after a request has ended is not shown); `publish` does not fail
(nats.go buffers); taking a chunk of credit and publishing it is one step (only
the executor's goroutine does either); the result's frames keep the numbers
the executor gave them, and are not part of `ResponseInOrder`; 32 grants are
scaled to 1 (or to more than can be granted).

### `RawTunnel`

A request that turns out to be a tunnel: it starts where `runDecodedRequest`
calls `runRawTunnel`, with a validator that has accepted the RequestStart and no
body (bytes of a body that were read before are dropped by the code). `tpc` is
where the loop of `rawTunnelStream.run` is, `dpc` where the goroutine of
`streamTunnelDownload` is. Each case of the `select` is an action (`TakeDone`,
`TakeContext`, `TakeIdle` and the four `Take...` of a frame), so all those that
are ready race. A frame takes its number from the builder, under its mutex, in
one step (`loopFrame`, `downFrame`) and is published in a later one: the other
goroutine may number and publish in between. `writing` is a `conn.Write` in
progress, `granting` the blocked send of `grant`.

External: `OpenTunnel`, which is given the context and gives a connection or a
failure; the `net.Conn`, whose `Read` may return bytes together with an error,
whose `Write` may fail after a part, or not return, and whose `Close` makes a
pending `Read` return; the upstream, which sends, closes or breaks. A
reset connection may lose bytes that the download has not read. Control uploads
under the credit it was told of, grants what it has received, and the wire does
to its frames what it does in `DecodedRequest`. An upload byte is the pair of its
attempt and offset; a download byte is known by its position.

### Abstract specifications

`AdmissionContract` has one status per assignment: offered, rejected, executing
(at most `MaxConcurrency`) or finished. `Worker` implements it with
`status[m] = StatusOf(m)`: an assignment executes from `Reserve` to `Release`.
`CreditStream` has counters: bytes and frames published, bytes granted, closed.
`DecodedRequest` implements it with the published frames of `out`.
`AssignmentServer` is described above.

## 3. What is checked

Sizes are distinct states; every passing run is exhaustive.

| Run | Question | Bounds | Result |
|---|---|---|---|
| `worker_admission` | Do places, cancels, subscriptions and answers stay in step, whatever is retried, rejected, drained or stopped; does the worker obey the contracts its two users rely on; does the drain timer miss no request, and does `Serve` return? | 3 assignments, 2 of them one request id, all kinds of message, limit 2, one deadline | holds, 657 k |
| `worker_retry_drain` | Does `Serve` return when two live requests have one id? | 2 assignments, 1 id | **violated** |
| `decoded` | Is the body intact, inline or by reference, is the response ordered, within its credit and closed once with the right frame, and is no credit lost? | body 2 bytes, response 2 bytes, credit 1, channel of 1, 5 frames of Control, 1 stray or repeated frame | holds, 2.25 M |
| `decoded_live` | Do idle clock, cancel and deadline end the request, but for a download that no deadline bounds? | body 1 byte, response 2 bytes, 1 byte granted early, room for every grant, 5 frames | holds, 208 k |
| `decoded_grant_blocks` | Does a deadline end the request when the channel of grants can fill up? | credit 2, channel of 1 | **violated** |
| `decoded_buffered` | Is the credit respected when the executor returns its response? | credit 1, response 2 bytes | **violated** |
| `decoded_unsized_ref` | Is a body by reference the whole of what was stored? | no size, no checksum, 2 frames | **violated** |
| `tunnel` | Do both directions keep order and conserve credit, do the two goroutines share one numbering, does the last frame tell the truth? | 2 bytes up, 2 down, credit 1 down, channel of 1, 2 frames of Control, 1 stray or repeated frame | holds, 2.7 M |
| `tunnel_live` | Does a deadline, or the end of the upstream, end the tunnel, but for the exceptions below, and does the download return after it? | no upload, 3 bytes down, credit 2, channel of 1, 3 frames | holds, 310 k |
| `tunnel_upload_credit` | Is upload accepted that the tunnel has given credit for? | 2 bytes up, credit 1, 3 frames | **violated** |
| `session` | Is a session drained before it is left, do readiness, heartbeats and settings tell the truth, and, if its requests end, does `Run` return and does the worker get back to a live session? | 1 fault of Control or the wire, 2 snapshots, 1 place | holds, 536 k |
| `session_setting_lost` | Is a setting that was acknowledged still in force? | the same | **violated** |

Why the bounds suffice. Three assignments with a limit of two make the limit
bind while a retry is live and a third waits; two of one id make every overwrite
and delete of `cancels` happen; a third id would add only a disjoint entry. A
body of two bytes is the least in which order, a hole and a repetition differ,
and it can arrive in one frame, in two, or by reference; a response of two bytes
under a credit of one makes `takeAvailable` return one byte, spend it, wait and
be granted more; five frames are a start, the body in two, a grant and a
terminal or cancel; one stray frame suffices because the validator is without
memory of what it rejects. For the tunnel, two frames of Control after the start
are two pieces of upload, or one and a grant, a cancel or an end; two bytes
of download are read in one piece or two, and sent in two. In `tunnel_live`
the channel takes one grant and a credit of two comes back in two, so that `grant` does
block, and a third byte of download has to wait for credit. It has no upload, which
would more than double its states: `Write` is exercised by `tunnel` alone, and a `Write`
held for ever is an exception that this run does not reach. For the session, one fault
is enough for two sessions (one forgotten, one opened in a registration whose
reply was lost), which is where one could be left too early; two snapshots are a
setting and its reversal, and one can reach each session.

`CHECK_DEADLOCK FALSE` is set everywhere: a worker that has stopped and a
request that has ended take no further step.

**Fairness.** Goroutines that can run do run, timers fire and deadlines pass:
weak fairness of the handler, `Serve`, the reader, the waiter, the sender and
of the clock actions. Nothing is assumed of Control as the sender of assignments
and frames, or of an administrator. A
request goroutine (in `Worker`), and an executor and a download (in
`DecodedRequest`), all of which are given the context, is fair only once its context
is done. In `RawTunnel`, `OpenTunnel` is fair once the context is done and a `Write`
once the connection is reset; the send of `grant` is fair when the channel has room.

The code has calls that it cannot get out of, and no fairness hides them; the
properties name each as an exception:

* `conn.Write` (`assignment.go:479`): an upstream that stops reading holds the
  tunnel's only loop. `DeadlineEnds` and `UpstreamEndCloses` of `RawTunnel` exempt it.
* `grant` on a full channel (`assignment.go:724`): finding 2. The same two properties
  exempt it, and without that `tunnel_live` fails; `decoded_live` has room for every
  grant, and `decoded_grant_blocks` has not.
* `DownloadBodyRef` (`assignment.go:658`): `http.DefaultClient` has no timeout and the
  idle clock is not looked at meanwhile. `BodyReadEnds` exempts a store that does not
  answer a request without a deadline. It is also about a Control that falls silent
  (`MaxSeq`): each frame that is accepted, credit too, resets the idle clock.
* An End of Control stops the idle clock (`stream.go:90-92`), so a tunnel without a
  deadline whose download waits for credit then waits for ever; `UpstreamEndCloses`
  exempts that.

A request held in `Write` or in `grant` does not even return when its context is done,
as `Worker` assumes a request goroutine does. `DrainCompletesForDistinctIds` is
therefore a statement about requests that are not held so.

In `SessionRuntime`, `Run`, the timeout of a request, Control's answers and its
return after a crash are weakly fair, and so is a server, but `Serve` only returns
for certain when nothing is left to wait for. That a request ends is not assumed:
`RunReturns` and `SessionRecovers` say what happens unless one of the stopped session
never does (`NeverDrained`), and `DrainCompletesForDistinctIds` says, under its two
conditions, that each does. One strong fairness is used, of `SeeContext`: `select`
picks at random among ready cases, so a ticker that is always ready does not win for
ever.

### Findings

1. *Cancels are keyed by request id* (`worker_retry_drain`). When an assignment
   is repeated, the end of one of the two requests deletes the other's cancel
   (`assignment.go:264`). After 60 s `abandonInFlight` cancels nothing, and
   `Serve` waits for a request that nothing can end.
2. *The channel of grants can block the request* (`decoded_grant_blocks`).
   `waitForResult` blocks in `grant` while the executor still
   lives on its initial credit: 33 grants, one per small frame received, suffice.
   Deadline and cancel are not seen, no terminal frame is sent, the place stays taken.
   The loop of a tunnel does the same when its download lives on the initial credit
   and then waits in `Read`: it sees neither the deadline nor the end of the
   upstream, and the connection is never closed.
3. *A returned response bypasses the credit* (`decoded_buffered`).
4. *Upload credit of a tunnel is announced and not applied*
   (`tunnel_upload_credit`). `handleData` publishes credit for what it has written
   and never adds it to the validator, so a tunnel accepts its initial upload
   credit and no more; the first frame beyond it, and with it every later
   frame of Control, is dropped.
5. *A reference without size and checksum is cut to one byte*
   (`decoded_unsized_ref`). `fetch` limits the read to the expected size and one
   more, `verifyBodyRef` has nothing to compare, and the one byte is returned as the
   whole body, without an error. The request has announced more
   (`assignment.go:617-619`: `received` is less than `expected`), so its executor never
   starts: it stalls without a word until the idle clock or its deadline ends it.
6. *A drained worker that registers again accepts again*
   (`session_setting_lost`). The setting lives in the `Worker` of one session; the
   next session's starts without it, although it was acknowledged as applied.

Also seen, and of less weight: `handleAssign` reads `draining` once, so that an
assignment that is being prepared when `SetDraining(true)` returns is still
accepted. `AssignmentServer` allows it (`Accept` does not look at `draining`). By the
same window one assignment may be accepted, and executed, after its session is over
(`AtMostOneStraggler`, `PastSessionsDrained`). A session whose `Serve` fails at its
`Flush` is not drained at all: what it had accepted runs on beside the next session.

## 4. What is proved

`WorkerProofs` proves, with TLAPS, for every finite set of assignments, every
assignment of request ids to them, every limit and every kind of message:

| Theorem | Statement |
|---|---|
| `Invariance` | `Spec => []IndInv` |
| `TypeCorrect` | `Spec => []TypeOK` |
| `CapacitySafe` | `Spec => []CapacityRespected` |
| `StreamsSafe` | `Spec => []StreamOpenWhileAccepted` |
| `CancelsSafe` | `Spec => []CancelsAreLive` |
| `StragglerSafe` | `Spec => []AtMostOneStraggler` |
| `AnsweredOnceHolds` | `Spec => AnsweredOnce` (an action property) |
| `Refinement` | `Spec => ImplementsContract` |
| `CancellableSafe` | `Spec => []EveryLiveRequestCancellable` |
| `AbandonedSafe` | `Spec => []AbandonedAreCancelled` |
| `ServerContract` | `Spec => ObeysServerContract` |

The only assumption is `WorkerAssumption` of `Worker`, on the constants, which
TLC evaluates in each run.

**The inductive invariant.** `CapacityRespected` is not inductive: that
`active` may grow at `Reserve` depends on what the handler saw at `AdmitAssign`.
`IndInv` adds what the argument needs, in named parts:

* `ShapeOK`: types, and how `hmsg`, `hpc` and the queue fit together;
* `QueueInv`: no message is in the queue twice, and a queued message, or one in
  hand, has no goroutine yet. This is why a message is answered once;
* `CountInv`: `active = Cardinality(Live)`, `wg = Cardinality(Executing)`;
* `RoomInv`: from `admitted` to `prepared` a place is free. There is one
  dispatcher, and all others can only free places, so the stale copy of the
  capacity errs on the safe side;
* `AnswerInv`: what has been answered by where handler and goroutine are;
* `DrainInv`: once `drained` is closed, at most one request, the one whose
  callback outlived Unsubscribe, is executing or about to.

Each part is shown to be preserved in a lemma with one step per action; the
counting parts rest on `PlaceStep` and `GoroutineStep`, which reduce every
action to "a place is taken, freed or neither" and then use the cardinality
theorems of the library. The refinement reuses the invariant: `StatusStep` shows
that each action leaves all statuses or moves one of them along an edge of the
contract. `CancellableStep` adds to `IndInv` that a live request with an id of its own
is in the map of cancels; only `Reserve` and `Release` touch the map, and either
can only disturb an entry of the same id. `AbandonStep` follows the copy that the drain
timer takes of the map (`AbandonInv`): a request with an id of its own that is still
executing is in the copy or has been cancelled, because nobody is admitted any more
and because its goroutine keeps its entry until it has returned, when its context is
done anyway. `ServerStep` does for `AssignmentServer`
what `StatusStep` does for the other contract: `ViewUpdates` says what the
contract's updates make of a server field by field, and each action is a stutter
or one of them. Two cases need the invariant: `Reserve` finds room (`RoomInv`), and
`Serve` returns with at most one request left (`LeftAtReturn`, from `DrainInv`).

`SessionRuntimeProofs` proves all the invariants of the run `session`, for any
number of snapshots, failures and sessions and any limit of the servers, with no
assumption at all:

| Theorem | Statement |
|---|---|
| `TypeCorrect` | `Spec => []TypeOK` |
| `PastSessionsAreDrained` | `Spec => []PastSessionsDrained` |
| `SaysGoodbye` | `Spec => []GoodbyeSent` |
| `HonestlyReady` | `Spec => []ReadyHonest` |
| `SettingHolds` | `Spec => []SettingInForce` |

Its inductive invariant `Inv` adds to these:

* `Placed`: there is a server wherever `Run` is in a session, and wherever a
  snapshot is pending. Without it the updates of "the last server" are of nothing;
* `OneServes`: `Serve` runs for the session under way and for no other, and
  `AllSettled`: a `Serve` that has returned has left one assignment at most. The
  first says where a session that was left is, the second what remains of it; it is
  kept because a server that has returned receives nothing, and accepting moves what
  is left from `handling` to `active` and adds nothing;
* `Farewell`: the goodbye is the last request already while its reply is awaited;
* `Requested`: at most the last request on the wire is awaited, it is of the kind
  `Run` waits for, and the session of a reply is one that Control has opened. This
  is why a late reply of an earlier registration cannot be taken for the answer to
  a heartbeat, and why `ReadyHonest` holds;
* `InForce`: a callback has acknowledged what it applied or is about to, and what
  it applied last is what its server has.

`ServerActs`, `RunActs`, `ControlActs` and `CallbackActs` say what the steps of each
actor leave alone, so that each part of `Inv` looks only at the actions that can
disturb it. `OperationsKeep` does the same for the contract `AssignmentServer`: no
operation but `SetDraining` changes the draining of a server before it stops, none
starts `Serve` again, and none adds to what is left when it has returned.

### A request: `DecodedRequestProofs` and `RawTunnelProofs`

These prove every invariant of the runs `decoded` and `tunnel` and the
refinement, for all sizes of body, response, credit, buffer and channel and any
bound on frames and noise. The assumptions are `RequestStreamAssumption`,
`DecodedRequestAssumption` and `RawTunnelAssumption`: the sizes are natural
numbers, and those of a chunk, a buffer and the channel are not 0.

| Theorem | Statement |
|---|---|
| `DecodedTypes` | `Spec => []TypeOK` |
| `DecodedCreditConserved` | `Spec => []CreditConserved` |
| `DecodedBodyIntact` | `(RefHashed \/ ~AllowBodyRef) => (Spec => []BodyIntact)` |
| `DecodedBodyRefWhole` | `RefHashed => (Spec => BodyRefWhole)` (an action property) |
| `DecodedResponseInOrder` | `Spec => []ResponseInOrder` |
| `DecodedEndMeansComplete` | `Spec => []EndMeansComplete` |
| `DecodedExecutionAnswered` | `Spec => []ExecutionAnswered` |
| `DecodedImplementsCreditStream` | `~MayBuffer => (Spec => ImplementsCreditStream)` |
| `DecodedCreditRespected` | `~MayBuffer => (Spec => []CreditRespected)` |
| `TunnelTypes` | `Spec => []TypeOK` |
| `TunnelUploadForwarded` | `Spec => []UploadForwarded` |
| `TunnelDownloadInOrder` | `Spec => []DownloadInOrder` |
| `TunnelCreditConserved` | `Spec => []CreditConserved` |
| `TunnelNumberedOnce` | `Spec => []NumberedOnce` |
| `TunnelEndMeansComplete` | `Spec => []EndMeansComplete` |
| `TunnelIsAnswered` | `Spec => []TunnelAnswered` |

The hypotheses of four of them are where the code gives no guarantee. Without a
hash, `BodyIntact` fails for a foreign object of the size announced, and `BodyRefWhole`
also for one cut to a byte (finding 5); with an executor that returns its response the
credit is not respected (finding 3). The two theorems with the name of a violated
property say that the finding has no other cause.

**The lemmas they share.** `Total(s)`, the sum of a sequence of sizes, is the
cardinality of the set of its units `<<i, k>>` with `k` at most `s[i]`, not a recursion, so
that its laws can be proved: that it is a number (`UnitsFinite` looks at the least
prefix that could be infinite), and what an element more at the end or less at
the head does to it (`TotalAppend` and its like, by a bijection between the units). On
these rest the laws of the gate: a grant adds, taking it moves, spending
subtracts, and what `Available` allows is at least one byte and within the credit.
`RequestStreamProofs` says what acceptance does to the validator and that the
stream is sound whoever takes its frames (`StreamOK`): its `CreditInv` says that what was
accepted, and what may still be accepted from the queue with repeated frames
counted once, was granted. This is why `CreditRespected` survives frames that
are lost, repeated or forged.

**`DecodedRequest`.** The invariants have these parts:

* `SendInv`: a send has bytes left exactly while the executor is in it;
* `CreditBooks`: the gate, its channel, the grant in hand and the data out make up
  what was taken. Only with `EarlyCredit = 0` is it an equality: a grant that
  comes ahead of the data may come to the reader of the body, which drops it;
* `BodyInv`: every queued frame of this attempt lies within the body that was
  announced (`UploadFits`), and until it is complete the body is the upload up to
  the validator's offset. Frames may be lost or repeated, but one that is accepted
  starts at that offset;
* `PlaceInv`, `OutInv`, `EndInv`, `VerdictInv`: who may publish where the two
  goroutines are, and what is pending then. A terminal frame is out only when
  nothing is pending and the executor is not serving; an End is pending only
  when all the data are out, because the executor finds its context
  alive after its last send has returned, and only its end makes a send drop data.

The refinement takes `CreditBooks` for the step that publishes data and `OutInv`
for the one that closes the stream.

**`RawTunnel`.** Here two goroutines publish, and each number is taken in
one step and published in another:

* `PlaceInv`: what each of the two has in hand where it is;
* `NumberInv`: the numbers up to `builder` are those of the frames out and in the
  two hands, and there are as many frames as numbers: no number can occur twice;
* `DownInv`: the data out are what was read and is not in the chunk, and a
  numbered frame of data starts where they end. Frames of the loop in
  between add no bytes;
* `UploadInv`: what is written, with the frame in hand, is the upload up to the
  validator's offset, and after a failed `Write` the loop takes no frame;
* `CreditBooks`: as above, with the download's frame as one more place;
* `AnswerInv`: no terminal frame is out while the loop runs, and one, or none and
  Control quiet, when it has ended. A frame taken ends the quiet, and
  frames are only taken while the loop runs;
* `EndInv`: the knowledge that the upstream has closed and that everything is out
  (`AtEof`) is handed from the error of `Read` to `done`, to the loop's frame, and
  to `out`. "Closed" is only reported once the loop itself has closed the
  connection, so `handleDone`, which makes an End of it too, never sees it;
  and `AtEof` is stable (`EofStays`).

TLC finds these formulas to hold on the bounds of the runs as well, save those
that quantify over all frames, which it cannot evaluate.

**Only model-checked:** the liveness properties (`DrainCompletesForDistinctIds`,
`BodyReadEnds`, `CancelEnds`, `DeadlineEnds`,
`UpstreamEndCloses`, `DownloadReturns`, `RunReturns`, `SessionRecovers`): they
need reasoning about fairness and ENABLED, which the prover does not support.
Everything else that a passing run checks is also proved.

## 5. What is not modelled

The REST client (`client.go`, `types.go`): each method is one HTTP call, without
a retry, a state kept across calls or a second goroutine; what can be wrong in it is
the encoding of one request. `BuildRegisterRequest`, `BuildHeartbeat` and the checks
of configuration in `egress/types.go` copy and compare fields. The generated
protobuf code lives in another repository; of the wire encoding only "does not
decode" matters. The example is a usage example.

Within what is modelled: the callback that stays blocked on the frames channel
of a request that has ended, the overflow of a credit of 2^64 bytes, and an error of
`Publish` are left out; a body that was read for a request that turns out to be a
tunnel is dropped by the code, and `RawTunnel` starts without one.

## 6. Plan

In order of what matters to a worker in operation:

1. `Worker`, its two contracts and their proofs: done.
2. `RequestStream`, `BodyRef`, `CreditGate`, `DecodedRequest`, `RawTunnel` and the
   proofs of their safety: done.
3. `SessionRuntime` and the proofs of its invariants: done.
4. Next: the steps on which the liveness arguments rest, as action properties with
   proofs (an end that has begun is not undone, what is waited for is not taken
   back), so that only the fairness of the last steps is left to TLC.

## 7. Running

    tlc -config worker_admission.cfg MCWorker
    tlc -config decoded.cfg DecodedRequest
    tlc -config tunnel.cfg RawTunnel
    tlc -config session.cfg SessionRuntime
    tlapm WorkerProofs.tla
    tlapm SessionRuntimeProofs.tla
    tlapm CreditGateProofs.tla
    tlapm RequestStreamProofs.tla
    tlapm DecodedRequestProofs.tla
    tlapm RawTunnelProofs.tla

Each `.cfg` belongs to the module that `PROJECT.json` names under "runs".
