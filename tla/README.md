# Verification of http3-server

TLA+ models of http3-server, a Node.js server for HTTP/3, WebTransport and
WebSockets that also serves HTTP/2 and HTTP/1.1 over TCP, with TLC runs and
TLAPS proofs. Paths are relative to the repository; `H` is
`packages/server/HTTP3Server.js`, `W` is `packages/server/WebSocketConnection.js`
and `S` is `packages/server/HTTPServer.js`.

## 1. The system

JavaScript runs on one thread. Concurrency comes from the event loop: callbacks
of a native addon (QUIC, TLS, HTTP/3 framing), timers, and the continuations of
awaited promises interleave at every `await`. A step of a model is one turn: all
the code between two awaits, with every call it makes.

### Components

| Component | State | Operations | Hard behaviour | What makes it correct |
|---|---|---|---|---|
| Receive path of HTTP/3 (`H` 153-175, 225-248, 569-619) | `#receiveTimers`, the chunk each native stream waits for, unsettled deliveries | data callbacks, `#deliverReceive`, its timer, `#finishReceive`, the ends of streams, connections and the server | the delivery, its timer and three kinds of end race; ids identify streams, not chunks | each chunk completed at most once and never for ever withheld; a timeout ends the receive side |
| WebSocket connection (`W`) | `readyState`, `#sentClose`, `#receivedClose`, the write queue, the parse buffer, the close timer | `send`, `close`, `accept`, `receiveData`, `receiveEnd`, the timer | six asynchronous calls run interleaved and each may finish the socket; writes may stall or fail | one report of the close, one Close frame and nothing after it, every handshake ends, the transport is released |
| Requests and responses of HTTP/3 (`H` 61-151, 394-407, 473-513, 634-651) | `#connections`, the `streams` of each `Connection`, `#streams`, `#responseReaders`, `#responseCommitted` | connection and request callbacks, `#handleRequest`, `#sendResponse`, cancellation | a body is pulled across many awaits while its client, its connection or the server goes away | the index is exact, an open source can be cancelled, a FIN follows a whole body, no error after headers |
| WebTransport sessions and streams (`H` 177-248, 515-567) | `#sessions`, `sessions` and `streams` of connections and sessions, `#webTransportStreams` | accept or reject after an await, datagrams, streams | a session deleted while its acceptance is awaited; streams that outlive it | one session per connection, no state of a session that is gone, every stream's end reported |
| WebSockets over HTTP/3 (`H` 93-97, 127-133, 153-163, 409-471) | `#webSockets`, the await at which the opening stands | the routing handler, headers, `accept`; data, ends of streams, connections and the server | data, ends and closes while the headers are awaited; failures after the 200 | a socket that was offered and is not forgotten is closed exactly once; the map holds what it should |
| WebSockets over TCP (`S` 202-325, 414-444) | `#webSockets`, a chain of deliveries per socket | two upgrade paths, data, end and abort events | deliveries queued behind a slow handler, an end after a failed delivery | chunks in order, the end delivered, the socket forgotten |
| Composed server (`S` 60-178, 356-380) | `#state`, `#tcp`, `#address`, `#port`, `#stopPromise`, `#sessions`, `#sockets` | `start`, `stop`, `#closeTCP` | `stop` at each await of `start`; the grace period | after `stop` no listener, address or port is left; both promises settle |
| Start and stop of HTTP/3 (`H` 35-59, 343-392) | the start promise, limits, address | `start`, native start and stop events, `stop` | a second start; a stop before the start event | the limits of a running server stay; the promise settles |
| Fetch adapter (`packages/server/internal/fetch-adapter.js`) | none of its own | `requestFromNode`, `writeResponseToNode` | a client that goes away | the body is released |
| Frame parser (`W` 157-288, 435-451) | `#buffer`, fragments | `#readFrame`, `#handleFrame`, `encodeFrame` | chunk boundaries, length encodings, limits | the same messages however the bytes are cut |
| Certificate cache (`packages/dev-certificates/node.js`) | a directory with a pointer file | `ensureDevelopmentCertificate` | overlapping callers and processes, crashes | a matching pair for every caller |
| Trusted certificates (`packages/dev-certificates/trusted.js`) | the directory, the operating system's trust store, a queue per process | ensure, remove | a crash between trust and pointer, removal during ensure | no trusted authority that cannot be found again |
| Native binary import (`scripts/import-binaries.js`) | the live package directories, a transaction directory with staged and replaced ones | `main`, `commitImports` | a failed rename, a failed rollback, a crash between two renames | all packages replaced or none, nothing lost |
| Packing and release checks (`scripts/pack-release.js`, `check-release.js`, the workflow) | `release/` and its backup | packing, verification, the exchange of `release/` | a tree left behind by a failed import; a crash between two renames | a candidate is one build; no candidate is lost |
| Release publication (`scripts/publish-candidate.js`, `promote-release.js`, `verify-candidate.js`) | the registry | publish, resume, promote, verify | jobs cut off, late reads, repeated with another candidate | dependencies before dependents, one release per version, `latest` whole, recovery completes |
| Native module resolution (`packages/native/resolve.js`) | none | `loadNativeModule` | fallbacks and error merging | the platform's package or a helpful error |

The native layer is outside the repository. It is reached through a small
interface: callbacks into JavaScript, and `sendHeaders`, `sendData`,
`completeReceive` out of it. The models hold its state in variables of their own
and state what the code relies on; see *Assumptions*.

### Interaction

The native layer reports connections, requests, data and ends; `HTTP3Server`
keeps the maps, calls the application's handlers and answers. Data goes through
the receive path, which hands it to a request body, a `WebSocketConnection` or a
WebTransport handler and completes it when the consumer's promise settles.
`WebSocketConnection` is shared with the TCP server, which gives it Node streams
as transport instead of native ones. `HTTPServer` starts the TCP listener first
and then an `HTTP3Server` on the same port, and stops both together.

Releases are a second system, of scripts and workflows: builds of the native addon are
imported into a working tree, the tree is packed into a candidate, and workflow jobs
publish the candidate to the npm registry and promote it. The parts meet in directories
and in the registry, and each step may be the last one of its process.

## 2. Modules

| Module | Models | State and actions |
|---|---|---|
| `ReceiveDelivery` | the receive path | `rx`, `owed`, `sent` are the native streams; `receivers` the ids in the three maps; `receiveTimers` the map and `armed` the event loop's timers; `delivering` the unsettled promises. One action per callback (`HandleDataUnknown`, `DeliverReceive`, `DeliverThrows`, `TimerFires`, `DeliverySettles`, `HandleStreamEnd`, `HandleConnectionEnd`, `HandleStop`). `answers` and `timedOut` are history |
| `ReceiveCredit` | the contract behind it: a stream is idle, has its one chunk out, or is closed | abstract |
| `WebSocketConnection` | one socket | each asynchronous call is a task; `todo[t]` is what is left of it, so that a rejected promise unwinds it like an exception. `frames`, `settled` and `rejected` are the write queue; frames are kinds, not bytes. Between two frames the loop of `receiveData` is a step of its own (`Handled`): CLOSED is looked for in the turn that handled the first, the second is read in a later one |
| `WebSocketLifecycle` | what a WebSocket promises an application | abstract: the ready states, nothing before the opening or after the end, one report |
| `HTTP3Requests` | requests and responses | `link`, `rx`, `tx` are the native side; `connections`, `connStreams`, `streams`, `readers`, `committed` the maps; `pc[r]` the await at which `#handleRequest` stands; `source`, `produced`, `accepted` the response body |
| `StreamedResponse` | what a streamed response promises: complete only if every chunk was taken; stopped, not forgotten, when its client is gone | abstract |
| `HTTPServer` | the composed server | `startAt` and `stopAt` are the awaits at which `start` and `stop` stand; `tcp`, `endpoint`, `graceTimer`, `sockets`, `sessions` the fields; `listener`, `clients`, `destroyed`, `http3` what Node.js and `HTTP3Server` do; `StartHTTP3`, `HTTP3Reports` and `StopHTTP3` are `HTTP3Server`'s `start`, start event and `stop`; `ListeningTooLate` is a `stop` between the listening event and the step that awaits it. `raced` is history |
| `HTTP3Sessions` | WebTransport sessions and streams | `link`, `rx`, `tx`, `wt` are the native side; `connections`, `connSessions`, `sessions`, `sessStreams`, `wtStreams`, `committed` the maps; `pc[s]` the await of `#handleSession` |
| `WebSocketStream` | a WebSocket over TCP; extends `WebSocketConnection` | `chain`, `failed` are the variables of `attachWebSocketStream`; `registered` stands for `#webSockets`, `head` for the bytes of an upgrade; `destroyed`, `readEnded`, `notified` are the Node.js stream. An opening is refused before there is a socket (`Refuse`) or after the handler had it (`RefuseSocket`), or it succeeds (`Open`). The actions run those of the socket and add what happens to the stream (`Follow`) and to a rejected call (`Catch`) |
| `HTTP3WebSocket` | a WebSocket over HTTP/3; extends `WebSocketStream` for the variables they share | `stage` is the await of `#handleWebSocketStart`, `destroyed` that the native stream is gone. One action per outcome of the opening and per native callback; each runs an action of the socket and updates `#webSockets` (`Drop`) |
| `WebSockets` | the composed server's WebSockets | the three HTTP versions side by side, chosen by `protocol` |
| `WebSocketFrames` | the frame parser | `wire` is what the peer sends, `arrived` the bytes delivered, `next` the first frame that is still in `#buffer`; `fragments`, `fragmentOpcode`, `fragmentBytes` are the fields. The reference (`Proper`, `TooLarge`, `Output`) looks at `wire` as a whole |
| `ImportTransaction` | the import of a bundle into a tree | `live`, `staged`, `backup` are directories by the build they hold; `importing` the step and the target of the loop it is in; `orphans` what abandoned transaction directories hold. `before`, `slips` are history |
| `ReleaseCandidate` | packing and the workflow; extends `ImportTransaction` | `tree` whose tree it is and how far its job has come; `packing` the step of the exchange; `destination`, `aside`, `retained` are `release/`, its backup and backups left behind; `candidates` the uploaded artifacts |
| `ReleasePublication` | publication and promotion; extends `ReleaseCandidate` | `registry` holds contents and tags; `job` the job that runs, with the packages it has left |
| `ReleaseProcess` | a release from end to end | the three composed, with the maintainer who repeats a publication |
| `TrustedCertificates` | the certificates in one directory | `pointer`, `files`, `trusted` are the directory and the trust store; `pc[o]` the await of each operation; `previous`, `known`, `fresh` its local variables. `crowded` and `troubled` are history |
| `MC...` | the instances TLC checks | |
| `...Proofs` | theorems and their proofs | |

A definition with the comment *Mutant* is a plausible bug in the definition that
follows it. It is not used by any specification; it shows that a property would
notice.

How they compose: `ReceiveDelivery` says when a chunk is handed to a
`WebSocketConnection` and completed; `HTTP3Requests` and `HTTP3Sessions` share
the send side of the native layer and `#responseCommitted`; `HTTPServer` sees
`HTTP3Server` through its two promises; `WebSocketStream` is `WebSocketConnection`
with its environment replaced by a Node.js stream, `HTTP3WebSocket` the same with a native
one, and `WebSockets` puts them side by side. `WebSocketFrames` is the detail below a frame
of `WebSocketConnection`: it has the bytes and one reader, the other has whole frames and
everything that runs beside the reader. The release modules extend each other, from the
tree to the registry, and `ReleaseProcess` composes their steps. The abstract modules are instantiated by
the detailed ones with a refinement mapping (`ImplementsReceiveCredit`,
`ImplementsLifecycle`, `ImplementsStreamedResponse`).

### Assumptions about the code outside the repository

The native addon (`packages/native/http3.d.ts`), from how `H` uses it:

- One inbound chunk per stream is out until `completeReceive`; completing with
  `accepted = false` aborts the receive side (`README.md`, *Resource limits*).
- Ids of connections, requests, sessions and streams are not reused.
- A request, a session or a stream is reported as ended once. A connection that
  ends, a request that is aborted and a server that stops have their send sides
  closed before JavaScript is told, so a later send settles `false`.
- The start event may already be queued when `stop` is called.

Node.js: `server.close()` stops accepting at once and reports its close when the
last connection is gone. A listener that is closed while it looks up its host
name may give up or go on; `LookupOutcomes` allows both. A `ReadableStream`
reader that is cancelled settles its pending `read()` as the end of the stream.

A Node.js stream that is destroyed rejects its pending writes and `end` settles. An
HTTP/1.1 socket reports its close in a later turn; an HTTP/2 stream reports that it was
aborted in the turn in which it is destroyed, unless its writable side had ended.
Continuations of settled promises run before the next event, timer or native callback
(`Quiet`); handlers settle, and the application acts, at any time.

For HTTP/3 WebSockets: once a native stream is gone or its FIN was sent, a write may
settle `false`, `true` or with an error; its end is reported, by one of the three callbacks.

The file system, for the release: each rename, copy or removal has its whole effect or
none, and any may be refused. A directory is identified with the build it holds. A
removal that is refused is taken to leave what it was to remove. What a developer imports
from may be any mixture of builds, what a workflow job imports is the artifact of one
producer run.

The npm registry never overwrites a version and carries out each request once, whether or
not the job hears of it. A read may miss a package published a moment ago, or still show
the tags from before the job; a promotion may so find a package not promoted that is, but
reads `next` as it is. A read that fails ends its job. The publish and promote workflows share one concurrency
group, so one job runs at a time. Candidates are packed before the first publication job:
a publication reads only uploaded artifacts, which do not change, so the order of the two
loses no behaviour.

The operating system, for `TrustedCertificates`: the trust store is what
`authorityIsTrusted` sees of it, so an anchor whose refresh command failed is not told
apart from a trusted one. A command whose process is killed has had its effect or not,
and has none later. Certificates are made under unique names and identified by the call
that made them; any of them may come due for renewal at any time.

## 3. Runs

| Run | Instance | States | Shows |
|---|---|---:|---|
| `receive_delivery` | three streams of the three kinds on two connections, two chunks each | 58,536 | `NoStaleCompletion`: a completion is for the chunk the native side waits for, once. `TimeoutEndsReceive`: a timeout ends the receive side for good. The path implements `ReceiveCredit`: one chunk out per stream, and none out for ever, even if the handler never returns |
| `websockets` | one socket over any of the three HTTP versions, two frames (of eight kinds over HTTP/2, three over the others), an upgrade head or early input, one `close`, one `send`, writes that fail | 331,445 | The socket implements `WebSocketLifecycle` over each version. `CleanCloseIsMutual`, `ClosedReleasesTransport`. `CloseIsLastData`: one Close frame, and no message after it. `RegistryFollows`: `#webSockets` holds what it should on every path of the three openings and the end. Under fairness `ClosingEnds`: no handshake that was read goes on for ever; `CutIsReported`: a stream that is gone is reported as closed, unless the opening failed or a delivery was rejected |
| `websocket_frames` | the 3,325 streams of up to three frames at the boundaries of the format, in chunks cut after any byte that matters | 222,543 | `SameHoweverCut`: what came out is what the whole bytes mean. `BufferIsBounded`: less than one frame of the largest size is held |
| `websocket_stall` | a peer that does not read | 175 | violation, see *Findings* |
| `http3_requests` | a request on each of two connections, bodies of one chunk | 299,450 | `IndexesAgree`, `ErrorComesFirst`; `GoneResponseEnds` under fairness; the requests implement `StreamedResponse`, in which a FIN follows a whole body |
| `http_server` | three TCP connections | 5,030 | `FailedStartLeavesNothing`, `StopIsComplete`, `AwaitsEnd`; `StopResolves` and `StartSettles` under fairness |
| `http_server_overlap` | one TCP connection | 75 | violation, see *Findings* |
| `http3_sessions` | two sessions of one connection, a stream each | 207,221 | `SessionIndexesAgree`, `MarksAreTrue`, `OneSessionAccepted`, `StreamEndIsReported`; `RefusalFreesConnection` under fairness |
| `websocket_lost` | one message whose handler fails | 2,755 | violation, see *Findings* |
| `trusted_certificates` | three calls (one without trust) and a removal in two processes, two profiles | 2.7 million | `PointerIsWhole`: the pointer never names files that are gone. `TrustIsKnown`: no trusted authority is lost unless something failed or overlapped. `ResultIsUsable`: a call that ran alone returns a current, whole and trusted certificate, whatever failed before it |
| `trusted_by_name` | two calls, p11-kit | 225 | violation, see *Findings* |
| `release` | two platforms, a committed build and two of the baseline, two imports and two refused operations or kills per tree, two commits of different versions, two candidates, two registry faults | 226,816 | `ImportIsAtomic`: all or nothing, unless two operations are refused. `NothingIsLost`: neither the tree nor `release/` loses what it held. `CandidateIsWhole`: what a workflow uploads is one build, declarations included. `DependenciesFirst`, `OneRelease`, `LatestIsWhole` of the registry; under fairness `RecoveryCompletes`: a publication that began is completed |

### Bounds

Every bound is a constant of its module. Two chunks per stream are enough for a
late answer to an earlier chunk to meet a later one, which is what the timer map
must tell apart. Two frames, with one joined to a partial frame before it, fill
every pair of kinds that `#handleFrame` relates (fragment and continuation, Close
and anything after it); they are of every kind over HTTP/2, and over the others of the
three that meet what is special there, the upgrade head and the early input. Three frames
of the parser make a message of two fragments with a control frame between, and a sum of
lengths at the limit; widths and limits are the real ones. Two connections are needed to see one index updated for
the wrong one. Three clients of the composed server can be negotiating, an HTTP/2
session and an HTTP/1.1 socket at once. Two sessions of one connection compete
for its one place. Two calls in one process and one in another are queued and not
queued with each other; the third finds what the first two left. Two platforms and the declarations are three
targets of an import, so that a rollback has a first, a middle and a last one; two refused
operations are the least that break a rollback. Two candidates of one version or of two
compete for the registry, and two faults break a publication and its repetition. The
safety properties of all modules are proved for all values of these constants (section 4),
so the bounds only limit the liveness properties. The bounds end behaviours early (the peer has nothing left
to send), so deadlock is not checked: a finished system is quiet.

### Fairness

| Module | Assumed | Why |
|---|---|---|
| `ReceiveDelivery` | armed timers fire | the event loop runs them; no handler has to return |
| `WebSocketConnection` | settled promises resume, timers fire | used by `websocket_stall`: the peer has to do nothing |
| `WebSocketStream` | promises resume, timers fire, handlers settle; the writes of a destroyed stream settle, and its close is reported | Node.js; the client has to read and to send nothing. Handlers must settle because the chain waits for them |
| `WebSockets` | over TCP the same; over HTTP/3 promises resume, timers fire, and of a stream that is gone the headers, the writes and the end are settled and reported | no handler has to return over HTTP/3, and no write to settle while the stream is there |
| `ReleaseProcess` | a job that runs goes on; a maintainer repeats an incomplete publication again and again (strong fairness) | `RELEASING.md` 98-101 asks for it; nobody has to start a release, pack or promote |
| `HTTP3Requests` | sends on ended streams settle, a cancelled reader reports its end, `cancel` settles | the contract of the native layer and of `ReadableStream`; no source has to produce, no client to read |
| `HTTPServer` | Node.js reads files, reports events, fires timers; destroyed connections close; `HTTP3Server.stop` settles | no client has to leave by itself |
| `HTTP3Sessions` | sends of headers settle | as above; no application handler has to return |

### Findings

- `websocket_stall`. `close()` arms the close timer after its Close frame's write
  has settled (`W` 95-99). When the peer stops reading, the write stays pending and
  the timer never starts. `packages/server/README.md:237` says that an unanswered
  close handshake aborts the transport.
- `http_server_overlap`. `start()` does not look at `#state` after its awaits, and
  `#tcp` is not set before the files are read. A `stop()` in between resolves, and
  the listener opens afterwards, until `HTTP3Server.start` fails. `S` 163 says that
  `stop` stops both listeners.
- `websocket_lost`. After a rejected delivery `attachWebSocketStream` refuses every
  event (`S` 418), the close of the stream too. An HTTP/1.1 client that goes away while
  `webSocketMessage` awaits `socket.send()` makes the handler fail, then the Close frame
  (`W` 286), then the delivery, all before the socket reports its close. So
  `webSocketClose` is never called, and the socket stays in `#webSockets`.
  `packages/server/README.md:135` says that the callbacks are the same over all HTTP
  versions; over HTTP/3 `webSocketClose` is called.
- `trusted_by_name`. With p11-kit `authorityIsTrusted` looks for the name of the authority
  (`packages/dev-certificates/trusted.js:334`), which all authorities share by default.
  While another one is trusted, a new one passes for trusted and is not installed, and a
  rotation then removes the trust of the old one. `packages/dev-certificates/README.md:86`
  says that the CA is installed in the trust store.

Two excuses in `TrustIsKnown` are behaviours worth knowing: a call that fails after its
authority was installed leaves it trusted with nothing that points to it, and a call with
`installTrust: false` that replaces a certificate leaves the old authority trusted.

## 4. Proofs

| Module | Theorems |
|---|---|
| `ReceiveDeliveryProofs` | `AnswersAreUnique`, `CompletionsAreExpected`, `TimeoutsEndReceive`, `OwedChunksAreTimed`, `TimersAlwaysAgree`, `TypeCorrect`; the path implements the safety half of `ReceiveCredit`: `KeepsCredit` |
| `WebSocketsProofs` | of `WebSocketConnection`, in any environment: `ReportsOnce`, `ClosesLast`, `NeverOrphaned`, `CleanIsMutual`, `ClosedReleases`, `MovesForward`, `Implements`; of `WebSockets`, on the streams of the server: `SocketsTypeCorrect`, `SocketsKeep`, `SocketsCloseCleanly`, `SocketsRelease`, `RegistryCorrect`, `SocketsImplement` |
| `WebSocketFramesProofs` | `TypeCorrect`, `SameAlways`, `BufferStaysBounded` |
| `HTTP3RequestsProofs` | `TypeCorrect`, `IndexesAlwaysAgree`, `SourcesStayCancellable`, `MapsStayCurrent`, `ErrorsComeFirst`, `FinsAreComplete`, `ImplementsResponse` |
| `HTTP3SessionsProofs` | `TypeCorrect`, `IndexesAgree`, `CommittedIsTrue`, `OneAtATime`, `EndIsReported` |
| `HTTPServerProofs` | `TypeCorrect`, `StartedServes`, `FailedStartsLeaveNothing`, `StopsAreComplete`, `GraceAlwaysGiven`, `AwaitsAlwaysEnd` |
| `TrustedCertificatesProofs` | `TypeCorrect`, `PointerStaysWhole`, `TrustStaysKnown`, `ResultsAreUsable` |
| `ReleaseProcessProofs` | `TypeCorrect`, `ImportsAreAtomic`, `OldContentIsKept`, `CandidatesAreWhole`, `DependenciesComeFirst`, `ReleasesAreOne`, `LatestIsComplete` |

So every safety property of a passing run is a theorem, and so are the two refinements
that are safety properties, `ImplementsLifecycle` and `ImplementsStreamedResponse`. Some
theorems state properties that no run checks by itself, because a stronger one of the run
implies them or the theorem makes it unnecessary: `AnswersAreUnique`, `ReportsOnce`,
`NeverOrphaned`, `SourcesStayCancellable`, `FinsAreComplete` and the typing
of some modules.

They hold for every value of the constants that satisfies the named assumptions of the
modules, which TLC evaluates in the runs:

| Assumptions | Say |
|---|---|
| `StreamsAssumption`, `RequestsAssumption`, `SessionsAssumption` | the maps between ids have their types |
| `WebSocketAssumption`, `StreamAssumption` | the tasks of a socket are disjoint; each HTTP version has its kinds of frames |
| `LimitAssumption`, `WiresAssumption` | the message limit is positive; a stream is a sequence of frames whose length fits its field |
| `ServerAssumption` | the outcomes of a lookup that was overtaken |
| `CertificatesAssumption` | operations are calls or removals, and each call has a profile |
| `PlatformsAssumption`, `BuildsAssumption`, `BoundsAssumption`, `ProducerAssumption`, `CandidatesAssumption`, `VersionsAssumption`, `RegistryAssumption` | accepted builds come from one producer; each commit has a version; bounds are natural numbers |

One theorem has a hypothesis of its own. `ResultsAreUsable` is about stores in which an
authority is looked up by its certificate (`~ByName`): by name the model's `trusted` is
no longer what a call sees of its authority, which is the finding `trusted_by_name`.

Each proof module has an inductive invariant (`IInv`, `SocketsInv`, `FramesInv`), lemmas
that it holds initially and is kept, and one lemma or step per action.

- `ReceiveDelivery`. That a chunk is completed once depends on the timer map and
  the event loop holding the same timers (`TimersAgree`), on the stored timer being
  the one of the last chunk (`TimerIsCurrent`) and on every chunk that is owed
  having it (`OwedIsStored`): `#finishReceive` compares timers, and only these facts
  tie a timer to a chunk. For `KeepsCredit` every step is mapped to the credit of the
  streams it touches: out, given back, or closed.
- `WebSocketConnection`. The calls are continuations, so the invariant speaks of
  what a task will still do: with the peer's Close received, some task will finish
  the socket without a timer (`ReceivedHasFinisher`), and the peer's code is on its
  way only then (`PeerIsReceived`). A loop may read on after another task has
  closed the socket. It cannot open it again: whoever waits for the peer or will report a
  failure comes after the Close frame (`FinishersAnnounced`), and a socket that was CLOSED
  without one has nothing left to read (`UnsentIsEmpty`). Lemmas on sequences say which steps are left
  after one is done or the call is unwound. `ReleaseInv` adds that a task which will
  release the transport stays under way until it has.
- `WebSockets`. The actions of a stream are actions of the socket with other things
  around them, so the invariant of the connection is not proved again. A step is, for
  the connection, one of its own steps, the arrival of a head (`HeadStart`), or
  nothing (`SocketsSteps`), and it keeps the connection's invariant each time.
  What is left is that the socket is untouched until it is offered (`Untouched`), and
  for `RegistryFollows` which steps offer, fail and report.
- `WebSocketFrames`. `FramesInv` says of the frames read so far that they are proper,
  that what was passed on is what they are worth (`Passed`), and that the parser keeps
  of the open message what the reference says of it (`Kept`: count, bytes and opcode).
  Between chunks it adds that the next frame cannot be judged yet (`Short`), and after
  the end that the socket has ended at the first improper frame (`EndedAt`). The
  reference sums and joins over all frames. The lemmas that it grows frame by frame
  (`SumStep`, `JoinStep`) are inductions over data, done by taking the least number at
  which they would fail (`Least`, `UpTo`), as no induction rule can be instantiated.
- `HTTP3Requests`. `Agrees(r)` relates, for one request, the await at which its
  response stands to the maps, the source and the native stream; `Delivered(r)` says
  that what was read has been sent but for the chunk on its way, and that a source is
  stopped under a response only when the native stream is closed. That last part is
  why a FIN never ends a truncated body, although a cancelled reader looks exhausted.
- `HTTP3Sessions`. A session that is or may be accepted and that its client has not
  ended holds the place of its connection (`PlaceIsHeld`); since a connection has one,
  two are accepted only after each other. A session that ended under an await of its
  decision is an orphan (`MarkIsTrue`), and all false marks belong to orphans.
- `HTTPServer`. What `start` knows at each await as long as `stop` was not called, and
  what `stop` knows when no `start` was pending. `AwaitsAlwaysEnd` is the part of
  `StopResolves` and `StartSettles` that fairness does not give: a listener that closes
  has its grace timer, or every open connection was cut (`ClosingIsBounded`), so no await
  depends on a client that may stay for ever.
- `TrustedCertificates`. A call deletes the files of the certificate it read from the
  pointer, after it has moved the pointer; no lock keeps another process from writing the
  pointer meanwhile. `NamesArePublished` is why that is safe: a name is in the pointer, or
  was read from it, only if the call that made it has written the pointer already, and a
  call writes it once. So what was read and replaced never comes back (`Superseded`), and
  until a call publishes its certificate nobody can delete its files (`OwnFilesKept`).
  The other two properties speak of operations that overlap nothing: while nothing has
  failed or overlapped one operation is under way, its await determines the pointer and
  every trusted authority can be found (`CalmInv`); a call that is alone knows at each
  await what it has seen of the certificate it will return (`AloneInv`).
- `ReleaseProcess`. `Layout` is the state of all package directories at each step of the
  exchange and of the rollback: replaced below the target the loop is at, untouched above,
  for as long as one operation was refused. `JobIsWhole` says what a workflow job may have
  packed. `InOrder` and `JobFollowsPlan` are why jobs of different candidates do not mix:
  whoever publishes a package has compared all those before it with its own candidate.

Only model-checked: everything under fairness (`ClosingEnds`, `CutIsReported`, `GoneResponseEnds`, `StopResolves`, `StartSettles`, `RefusalFreesConnection`,
`RecoveryCompletes`, and the half of `ImplementsReceiveCredit` that says a chunk does not
stay out for ever), which needs ENABLED, out of the prover's reach.

## 5. Not modelled, and why

| Part | Why |
|---|---|
| A second start of `HTTP3Server`, and the values of its limits | they depend on the native layer: whether it refuses a second start, and whether a start event follows a stop. `HTTPServer` has the one start its code makes, with either order of the start event and a stop |
| Fetch adapter | two pipelines of Node.js streams; what there is to go wrong is in Node.js |
| Certificate cache | planned; the protocol of `TrustedCertificates` without trust |
| `--local` and `--check` of the import, dry runs, the names, sizes and versions that the release checks compare | the first exchanges fewer targets of the same loop, the others change nothing |
| Native module resolution | planned last: a pure decision over a platform and an environment |
| The native addon | a binary built elsewhere; its contract is in *Assumptions* |
| X.509 and DER encoding (`packages/dev-certificates/x509.js`), validation of options, formatting of responses and headers | pure functions on bytes and strings, without state |
| HTTP/1.1 and HTTP/2 themselves, `fetch`, streams | Node.js |
| Other scripts (platform detection, baselines, soak, stress and browser tests), the example | checks and packaging without state of their own, or test drivers |

Also left out: a rejection of the 403 or 429 that `HTTP3Sessions.TurnAway` sends without
awaiting it (`H` 181 and 188), which nobody handles, so that it is up to Node.js whether the
process goes on; and the receive timeout under a WebSocket, which is in `ReceiveDelivery`
and not in `HTTP3WebSocket`.

Some behaviours of the code have no property because no documentation promises another:
`handleConnectionEnd` and `handleStop` drop streams without `Stream.receiveEnd`, so a
handler that reads a request body waits for ever if the native layer reports the end of the
connection first (`H` 82-98); a WebTransport stream whose session ended first is never
reported (`H` 560-567); a publication repeated with another dist-tag leaves packages on
different tags (`publish-candidate.js` 124), which promotion refuses.

Within the modelled parts, what a handler computes, the text of errors, the contents of
headers and the payload of frames are left out: a frame is its kind and whether it is
valid, a body the number of its chunks.

## 6. Plan

Modules:

1. `CertificateCache`: several processes that find, validate and write a certificate pair
   in one directory. Abstract specification: each caller gets a pair that matches. Proof:
   the pointer names a whole pair, along the argument of `TrustedCertificatesProofs`.
2. `HTTP3Start`: a second start of an `HTTP3Server` (`H` 343-384), once the native contract
   for it is known.
3. `FetchAdapter` and `NativeResolve`, the decision table.

Runs stay few: a new module's run replaces the weaker of two runs that ask the same
question of the same module.

Proofs: the safety of every module above is proved, so what comes next are the properties
of new modules; those of `CertificateCache` first.
