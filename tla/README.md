# TLA+ verification of the AR support backend

The repository is a remote-support system: a technician (Windows agent) and an
end user (phone) meet in a *session*. The Go backend authenticates agents, mints
and redeems connection tokens, and relays WebRTC signaling frames between the
two sides over WebSockets; video and annotations then flow peer to peer. This
directory holds TLA+ models of the backend and of the logic the two clients
share with it, the TLC configurations that check them on small instances, and
TLAPS proofs that hold for every instance.

## 1. Inventory

| Component | State | Operations | Interacts with |
|---|---|---|---|
| Signaling hub (`signaling/hub.go`) | `rooms`: one local peer per room and role; the room-ended callback | `Join`, `Leave`, `Relay`, `deliverLocal`, `RoomCount` | presence, fanout, peers' `Send`, the callback |
| Local presence (`presence_local.go`) | connections per room and role | `Join`, `Leave` | called by the hub outside its own lock |
| Fanout (`fanout.go`) | the delivery function | `Publish` | `LocalFanout` calls `deliverLocal` synchronously |
| WebSocket handler (`handlers.go`) | per connection: bounded send channel, `closed`, socket | `ServeWS`, `readPump`, `writePump`, `Send`, `closeSend` | hub; client |
| Redis fanout / presence (`redis.go`) | pub/sub channel, hash of counters with a TTL | as above, across replicas | Redis |
| Session tokens (`session/service.go`) | Redis: token record, attempts counter; Postgres: session row | `Mint`, `Redeem`, `MarkEnded`, `ExpireStalePending` | Redis, Postgres, issuer |
| Server wiring (`cmd/server/main.go`) | – | room-ended callback, sweep ticker, shutdown | hub, session service |
| Issuer, auth middleware (`auth/`) | signing secret; claims in tokens | issue, parse, check `token_version` | identity |
| Identity (`identity/`) | users, `token_version`, `disabled` | register, login, refresh, logout, disable | Postgres, issuer |
| Rate limiter (`ratelimit/`) | fixed-window counters | `Allow`, `Middleware`, `ClientIP` | Redis |
| Recordings (`recordings/`) | recording rows | create upload, complete, list | Postgres, S3 presigning |
| Store (`store/`) | `schema_migrations` | `Migrate` | Postgres |
| TURN, metrics, config, router | – | pure functions and tables | – |
| Windows agent (`SessionConnection.cs`, `MainWindow.xaml.cs`) | peer connection, data channel, session field | offer on peer-ready, apply answer and ICE, send annotations | signaling, phone |
| Video coordinates (`VideoCoords.cs`) | – | pointer to normalized frame point | the agent's click handler |
| Mobile client (`SessionController.cs`, `PhoneSession.cs`, `SignalingClient.cs`) | peer connection, main-thread queue | answer offers, apply ICE, echo anchors | signaling, agent |
| Annotation anchors (`AnnotationAnchorManager.cs`, `Annotation2DOverlay.cs`) | anchors and flat markers by id | place or move, remove, clear | AR platform |

What is hard in this code, and what correctness means there:

* **Reconnects overlap.** A side may reconnect before its old socket is noticed
  dead; the map keeps one peer per role, presence keeps counts, and the late
  clean-up of the old connection runs interleaved with the new one. Counts must
  be exact and a successor must survive.
* **Work done after an unlock.** `deliverLocal` sends to a peer it looked up
  earlier; `Join` registers and then asks presence; `Leave` decides and then
  calls back. No send may hit a closed channel; two sides that join at once must
  not miss each other.
* **Two goroutines per connection**, either of which may fail first, must both end.
* **Two stores and no transaction.** `Mint` and `Redeem` are sequences of round
  trips to Redis and Postgres, each of which may fail with or without its
  effect, or be sent again by the client library; other requests and the sweep run in between; keys expire by
  themselves.
* **Multiple replicas** share counters that expire and survive crashes, a
  pub/sub channel that loses frames, and a database they migrate without a lock.
* **Claims outlive rows.** Tokens carry what a user row said when they were
  signed; logout, disabling and refresh race with requests that read it earlier.
* **The server restarts** while rooms, callbacks and redeems are in flight.
* **The clients' handshake** depends on the order of `peer-ready`, `offer`,
  `answer` and `ice`, on threads that start in a certain order, and on sends
  that may overlap.
* **Two representations of an annotation**, anchor and flat marker, alternate
  as raycasts hit and miss; removing must find both.

## 2. Modules

| Module | Role |
|---|---|
| `RoomPresence` | abstract specification: the set of members of each room, one end signal owed per emptying |
| `SignalingHub` | hub + local presence + local fanout + both goroutines of every connection; implements `RoomPresence` |
| `RedisSignaling` | the hubs of several instances over Redis presence and fanout, with faults; implements `RoomPresence` without them |
| `SessionTokens` | Mint, Redeem, MarkEnded and the sweep over Redis, Postgres and time |
| `SessionSystem` | one session through row, join tokens, room (an instance of `RoomPresence`), callback, sweep and server restarts |
| `Identity` | organizations, users, access and refresh tokens, the middleware, the admin endpoints |
| `RateLimit` | the fixed-window limiter and the choice of the client address |
| `Migrations` | replicas that run `Migrate` at the same time |
| `Recordings` | recording rows and the bucket clients upload to |
| `ServerStore` | both: replicas that migrate, then serve recordings requests |
| `Handshake` | negotiation between agent and phone over the relay |
| `Annotations` | annotations from click to marker and back |
| `VideoCoords` | the mapping of clicks, against a reference |
| `ClientSession` | the three client modules as one session |
| `SessionTokensHistory` | `SessionTokens` with history variables: a lost `DEL`, and the redeems that were waiting when a token went |
| `SignalingHubProofs`, `RedisSignalingProofs`, `SessionTokensProofs`, `SessionSystemProofs`, `IdentityProofs`, `RateLimitProofs`, `ClientSessionProofs` | theorems about the modules they are named after |
| `StoreProofs` | theorems about `Migrations`, `Recordings` and `ServerStore`, what the server keeps in Postgres |
| `MC...` | instances for TLC |

### SignalingHub

A process is a connection. `pc[p]` is where its handler goroutine stands; each
action is one critical section of a mutex or one operation on the socket:

* `Register`, `PresenceJoin`, `ReadySelf` are `Hub.Join` (map, presence, the
  two `peer-ready` sends); `Lookup` and `Deliver` are `deliverLocal` before and
  after its unlock, used by `Join`, by `Relay` and for the final bye;
* `ReadEnvelope`, `ReadMalformed`, `ReadError` are `readPump`'s loop;
* `HubLeave`, `PresenceLeave`, `RoomEnded`, `CloseSend`, `ConnClose` are its
  deferred function, `Hub.Leave` included;
* `WriteFrame`, `WriteFails`, `PingFails`, `WriteClose` are `writePump`.

The send channel is `queue[p]` (everything ever accepted) with `taken[p]`; its
content is the part not yet taken and `SendBuffer` its capacity. Frames carry
their type, the role the relay stamps on them, and two ghost fields (producing
connection, serial number). Payloads, and the frame types the relay does not
look at, are abstracted. Successful pings change nothing and are left out. A
client may vanish at any moment (`ReadError`, `WriteFails`, `PingFails` have no
other guard than that the goroutine runs), which covers deadlines as well.
Bound: `MaxSend` client frames per connection; every connection lives once,
because its id is fresh.

### SessionTokens

A process is a Mint or a Redeem request; each action is one round trip and the
local code up to the next. Redis keys carry their expiry time: a token is live
while `now < exp`; the attempts counter has no expiry until `EXPIRE` gives it
one and starts over when it expires. `MintFails` and `RedeemFails` stop a
request at any round trip, with or without that round trip's effect (a lost
answer, a cancelled context, a failing issuer, a dying server); errors the code
ignores (`DELETE`, `EXPIRE`, `DEL`) let the request go on. go-redis, with the
default retries `store.go` leaves it, sends a command again whose answer is lost:
`MintResend` is a `SET NX` executed before it is sent again, which then finds its
own token and takes it for a collision; `RedeemResend` is an `INCR` or `DEL`
executed one time more. `Failures` turns all of this off where a counterexample
should not depend on it. A session row is identified by the request and its try.
PIN hashing is represented by comparing PINs: SHA-256 is taken to be
injective. A room exists once a signaling token was issued for it, and
`MarkEnded` may then come at any time.

`compared`, `uses` and `resent` are history variables. `resent` holds the rows
whose token was stored by a `SET NX` that was sent again: Mint deletes such a row
and shows the agent another connect id, so the token under it is known to nobody,
and the properties do not speak of these rows. `SessionTokensHistory` adds
`delLost` (some Consume's `DEL` failed and left a live token) and `late[s]` (the
redeems that had read the token of `s` and not yet compared their PIN when it was
burned, consumed or expired). Bounds: `MaxNow` is the last instant; a `SET NX` is
sent again once per row, an `INCR` while the counter is below the limit.

Time is discrete. The code has no explicit bound on how long a request takes;
the models assume a Mint gets from its INSERT to its SET NX within
`MintLatency`, a Redeem from GET to UPDATE within `RedeemLatency`, and clocks
within `Skew`. `SlackAssumption`, `MintLatency + TTL + RedeemLatency + Skew <=
CutoffMultiplier * TTL`, is what "a multiple of the token TTL" in `main.go`
buys: with the defaults it asks that the three together stay below ten minutes.

### RedisSignaling

One room served by several instances. Each action is one critical section of a
hub or one round trip to Redis: `Register`, `PresenceJoin`, `ReadySelf` and
`Publish` are `Hub.Join`, `HubLeave`, `PresenceLeave`, `RoomEnded` and `Publish`
the clean-up, `Deliver` the subscriber goroutine. `stored` is the presence hash
with its time to live: `EXPIRE` runs on Join only, `HINCRBY` on an expired hash
creates one without a time to live, nothing clamps a count at zero. The faults
are transactions that fail with or without effect, failed or missed
publications, publications that are overdue, instances that stop without leaving
(and start again), and connections that outlive the hash. A `PUBLISH` is overdue
when go-redis gives up waiting for its answer: it sends it again, at most
`MaxRetries` times (3 in the code, 1 in the run, where two copies of a frame are
already too many), and Redis may execute the attempt it gave up at any later time
(`Overdue`, `ExecuteLate`). The presence transactions are not sent again once they
are written; that one of them takes effect only after `Join` or `Leave` reported
its failure is not modelled. `faults`, chosen in the initial state, says
which may happen, so that one run covers several fault profiles and a property
can name those it needs absent.

### Identity

A request is a process; an action is one statement on Postgres or one check of
a signed token. `Middleware` puts a request with an accepted access token into
`act`, from where it logs out, creates, disables or enables; `Login` and
`RegisterOrg` end in `issue`, as does `RefreshParse` followed by `Refresh`;
`respondWithTokens` then signs tokens at the version read *earlier*. A token
carries a ghost bit that says whether its user's version was bumped since the
login it goes back to. An organization is identified with its first user;
passwords either verify or the request aborts. `Latency`, an assumption, bounds
how long a request takes.

### RateLimit

`Middleware` chooses the key (`ClientIP` trusts `X-Forwarded-For` only from a
trusted proxy), `Incr` and `Expire` are the two commands of `Allow`, each of
which may fail with or without effect; an `INCR` whose answer is lost is sent
again and counts the request twice (`IncrResend`), and if it was the first of its
window nobody sends its `EXPIRE`. Time is relative: a counter knows its
remaining life. The ghost `admitted` keeps the ages of the last `2 * max`
requests of a connection address the counter let through, latest first, an age of
`window` standing for anything older: "fewer than `2 * max` in any window" is then
a statement about one of them. `orphaned` are the keys left without expiry. A
request counts as let through when `INCR` gave it its number (the first of a
window: when it sent `EXPIRE`); one that is allowed because Redis failed does not.

### Migrations

`Open`, `EnsureLook`, `EnsureCreate`, `Check`, `Apply`, `Record` and `Commit` are
the statements of `Migrate`; a replica that fails exits and starts over.
Postgres is modelled by what the code relies on: uncommitted work is invisible
and undone by a disconnect, a script waits for a transaction that ran the same
one, the primary key of `schema_migrations` refuses a second row. `Idempotent`
are the scripts a second execution of which succeeds. A commit's answer may be
lost.

### Recordings

`CreateUploadCheck` and `CreateUploadInsert` (or `CreateUploadError`) are
`CreateUpload`: check and presign, then insert. `Put` is the client's upload
through the URL, `Complete` the conditional update. `List` only reads.
`ServerStore` composes it with `Migrations`: `cmd/server` listens only after
`Migrate` returned, so requests come once a replica is ready.

### SessionSystem

The lifetime of one session from Mint on, as `cmd/server` wires the parts: who
may connect is decided by join tokens only, the room is `RoomPresence`, the last
to leave owes `MarkEnded`, the sweep expires old pending rows, `Stop` (shutdown
or crash) drops rooms, callbacks and redeems in flight. `endLost` is a ghost:
the end of the room's last visit was lost to a stop or a failed `UPDATE`.

### Handshake, Annotations, VideoCoords, ClientSession

`Handshake`: `AgentConnect`, `StartReceiveLoop`, `CreateSession` are the three
steps of `OnStartSessionClick` around which the other thread's `AgentReceive`
interleaves; `OfferStage` is one yield of the phone's `HandleOffer` coroutine;
`PhoneSend` is `SendAsync`, which nothing serialises. Every step that can fail
may: `ConnectAsync` (`AgentConnectFails`), the session's constructor
(`CreateSession`), `StartAsync` before its local description is set
(`AgentReceive`) or at `SendAsync` (`SendOffer`), `setRemoteDescription` on the
agent, whose result nobody looks at (`AgentReceive`), the agent's send of a
candidate, each operation of `HandleOffer`. A technician who clicks again after a
failure starts another session, with another code; the model is of one. The relay is what the hub
runs establish: `peer-ready` to both, then one ordered channel each way.

`Annotations`: `SendAnnotation` on the agent, `Apply` on the phone (by case: no
point, raycast missed, raycast hit with or without an anchor, delete or clear),
`AnchorDropped` by the AR platform, the echo to the agent. Ghosts: what the
technician placed and not removed, and what the platform refused or dropped.

`VideoCoords`: doubles become exact fractions over a common denominator; the
properties restate letterboxing independently of the code's arithmetic. The null
result is a value of its own, apart from the click that maps to (0,0).

`ClientSession` joins them: the data channel opens once the answer was applied,
clicks count once the session exists.

## 3. Runs

| Run | Instance | Shows |
|---|---|---|
| `hub_reconnect` | two agent connections, a phone, one room, buffer 2; nobody sends, or the phone sends two frames while one agent connection replaces the other | `RelayedOnceInOrder`, `PresenceCounts`, `OccupantValid`, `SuccessorKept`, `PairedPeersNotified`, `ByeMeansGone`, `DepartureAnnounced`, `ImplementsRoomPresence`, `TypeOK` |
| `hub_relay` | a pair in a room or opposite roles in two rooms, phones send, buffer 1, fairness | `RelayIsolation`, `NoSendAfterClose`, `BrokenConnectionReaped`, `AcceptedFramesFlushed` |
| `hub_end_signal` | as `hub_reconnect`, nobody sends | **violated**: `EndSignalOnlyWhenVacant` |
| `tokens_lifecycle` | two mints on one connect id with a redeem, or one mint with two; failures and resent commands; past the cutoff | `RedeemedSessionActive`, `LiveTokenUsable`, `StatusForward`, `OverrunBounded`, `ActiveSessionHasNoToken`, `TypeOK` |
| `tokens_single_use` | one mint, two redeems | **violated**: `SingleUse` |
| `tokens_attempts` | one mint, three redeems, limit 1, no failures | **violated**: `WrongPINsBounded` |
| `redis` | two instances, an agent that moves from one to the other, a phone; five fault profiles | `ImplementsRoomPresence` (no faults), `EmptyIsAuthoritative` and `PairedPeersNotified` (failed Leaves, crashes), `OnceInOrderUnlessOverdue` (all) |
| `identity` | two requests, two users, two emails, one version bump each | `RevokedStaysRevoked`, `DisabledHoldsNoCurrentClaim`, `DisabledAccessBounded`, `OrgIsolation` |
| `ratelimit` | two requests, a client and a proxy, limit 2 in a window of 2 | `SlidingBound`, `LockoutEnds` |
| `store` | three replicas, four scripts, three faults; then two requests, two organizations, three recordings | `SchemaIsPrefix`, `EveryReplicaServes`, `ObjectsAccounted`, `FinalizedOnce` |
| `system` | two connections per role, two stops | `PhoneOnlyAfterActivation`, `EmptiedRoomEnds`, `PendingResolved` |
| `clients` | three candidates per side, three annotations, five events, panels and frames up to 4 by 4 | `AnswerFollowsOffer`, `HandshakeCompletes`, `ScreenShowsCurrent`, `LetterboxExact` |

Bounds. Two connections of one role and one of the other are the smallest
system in which a reconnect overlaps and a counterpart watches; a third of a
role adds nothing new to a map of one peer per role. A buffer of one or two
fills up in the runs, 32 would not. Two rooms suffice for leaks between rooms.
With one connect id every two mints collide. `MaxNow` of the token run lies
beyond `CutoffMultiplier * TTL`, `MaxAge` of the system run beyond the cutoff and
every join token, so the sweep fires and tokens expire. One version bump per
user lets a request hold claims from before it; two organizations exist because
both users may found one. Three replicas give a race a bystander, three faults
let two of them fail in the middle of one migration and a third time later. Four
by four pixels hold every relation of two aspect ratios (wider, equal, taller),
even and odd centres included. Deadlock checking is off where finitely many
connections or requests do end; the limiter runs for ever.

Constraints keep six runs small without losing the case they are for.
`OnePhone` lets one of two phones connect (a pair, or two rooms). `SilentOrReplaced`
has nobody send, or the phone send both its frames, well-formed, before it may
leave, to slow writers, so that what is sent piles up; an agent connection that
was replaced is then reaped up to the closing of its channel. `Light` has one
mint with two redeems, or, with one redeem and up to the time the second can take
an id whose token has expired, two mints or one whose `SET NX` is sent again.
`Focus` of `redis` lets clients send only where frames may be lost or late, stops
time there, limits connections there and in the long-session profile to two, and
where Redis is slow has the phone alone send and be overdue. `Focus` of `store`
has requests come when every replica serves after a start without faults, and
draws the interchangeable ids in order. `Focus` of
`clients` lets panel sizes vary until the phone comes, and annotations beyond
the first be tried after the negotiation, because the parts only meet in three
variables.

Fairness. Goroutines that can run do run (weak fairness of the handler's and
writer's own steps); reading from, or pinging on, a connection this side closed
fails. A replica that exits is restarted (the deployment's restart policy). In
`system` time passes, the ticker fires, a stopped server is started again and
requests in flight run on; in `ratelimit` time passes and requests in flight are
served; in `clients` both programs run on. No client is obliged to connect,
send, leave, enter a code or draw.

What the violated runs show:

* `hub_end_signal`: `Leave` decides emptiness under the presence lock and calls
  back after it; somebody who joins in between is served in a session that is
  then marked ended.
* `tokens_single_use`: GET and DEL are separate round trips, and neither DEL's
  nor UPDATE's count is looked at; two redeems in flight both succeed. (A redeem
  that starts after the activation cannot, unless the DEL failed:
  `ActiveSessionHasNoToken`.)
* `tokens_attempts`: the redeem that exceeds the limit deletes the counter with
  the token, and redeems that had read the token before count from one again and
  compare more PINs, with no failure at all (`api.md:102`: "max 5 PIN attempts
  before the token is burned"). `OverrunBounded` says how far this goes: one
  comparison for each redeem that was waiting when the token went.

Other disagreements between code and text met while modelling. The passing
properties name them as their exceptions, which shows that there are no others,
or the models contain them without a property:

* The presence hash expires under a session longer than its TTL, after which
  `Leave` counts from zero and can report an occupied room as empty
  (`fanout.go:49`: "authoritative across instances"), and leaves a hash without a
  TTL behind (`redis.go:141`). `EmptyIsAuthoritative` excepts it and a failed Join.
* When `EXPIRE` fails after the first `INCR`, or that `INCR` got no answer, the
  counter never expires and its client stays locked out (`ratelimit.go:84`: "an
  outage cannot lock everyone out"). `LockoutEnds` excepts it.
* A server that stops with somebody in the room, or a failed `UPDATE`, leaves the
  session active for ever (`docs/deploy-proxmox.md:215`). `EmptiedRoomEnds`
  excepts both.
* A `PUBLISH` that is sent again reaches the other side twice, or after later
  frames of its sender. `OnceInOrderUnlessOverdue` excepts the frame itself.
* The token a resent `SET NX` leaves behind lives its TTL under a row Mint deleted.
* When the *newer* of two connections of a role leaves first, the map entry goes
  with it (`hub.go:97`); the older one is counted and served but gets no frames.
* A `peer-ready` that arrives between the start of the receive loop and the
  assignment of the session (`MainWindow.xaml.cs:89`, `:111`) is ignored and no
  offer is made. When `StartAsync` throws, the agent shows the error and nothing
  sends the offer again (`MainWindow.xaml.cs:117`); an answer the connection refuses is not noticed
  (`SessionConnection.cs:158`); an answer whose `SendAsync` overlaps a candidate's
  may be refused (`SignalingClient.cs:43`). `HandshakeCompletes` excepts these,
  the ignored `peer-ready` and the failures of `HandleOffer`, and shows there are
  no others.
* Candidates that arrive before the remote description are refused and not kept
  (`PhoneSession.cs:149`).
* `AttachAnchor` may return null after anchor and marker were removed
  (`AnnotationAnchorManager.cs:86`), so the annotation is shown nowhere, while
  `Annotation2DOverlay.cs:10` promises it is always visible.
  `ScreenShowsCurrent` excepts it.
* `architecture.md:24` has annotations fall back to signaling; `SendAnnotation`
  throws instead (`SessionConnection.cs:141`). The phone's anchor echo goes
  through signaling, where the agent does not look for it
  (`SessionConnection.cs:148`, `SessionController.cs:106`).

## 4. Proofs

All theorems hold for every set of connections, rooms, instances, requests,
users, ids, scripts and annotations, and for every value of the other constants
that satisfies the assumptions named in the module that declares them; TLC
evaluates those on every run. Sets that are counted (`Peer`, `Conn`, `Redeemer`)
are finite.
`None`, `NoSession` and the like are not among the values they stand beside. The
only assumptions with content are those on time: `SlackAssumption`
(`SessionTokens`) and its counterpart in `SessionSystem`.

Every safety invariant and action property of section 3 that TLC finds to hold is
proved. Of the liveness properties, which are out of the prover's reach, the
safety part is proved where there is one that takes an argument: that what the
property waits for is on its way, unless one of the exceptions it names occurred.

### `SignalingHubProofs`

* `TypeCorrect`, `OccupantsAreValid`, `PresenceIsExact`, `SuccessorIsKept`,
  `ClosedChannelsStayQuiet`: the invariant relates `rooms` and `count` to the
  program counters (registered, counted), and says that a connection's channel
  is closed only at the end of its clean-up. Exactness of the counters is a
  cardinality argument: every step adds one connection to one role's set,
  removes one, or leaves the sets alone.
* `PairedPeersAreNotified`: inductive only with the notifications still owed. A
  pair of occupants that presence counts is either already notified by one Join
  or one of the two is on its way through `ReadySelf`, `Lookup` and `Deliver`
  with the other as the occupant it will find.
* `HubImplementsRoomPresence`: under the mapping `present` = counted
  connections, `emptied` = callbacks run plus callbacks owed, `PresenceJoin` is
  `Join`, `PresenceLeave` is `Leave`, everything else stutters. The step that
  needs the exact counters is that two zero counts mean nobody else is in.
* `RelayIsIsolated`, `ByesAreTrue`, `RelayIsOnceInOrder`: about the contents of
  the send channels, which only change by appending (`QueueStep`). `FlowInv`
  describes what is on its way as well: the frame a handler holds between
  `Lookup` and `Deliver` is its own, with its own role and its latest number, and
  its target is of the opposite role of its room; every queued frame has a number
  its producer has already used. A frame that is appended is therefore new
  everywhere (`EmittedIsNew`), except a `peer-ready`, which goes to both sides.
* `DeparturesAreAnnounced`: between its last lookup and its last delivery a
  connection's bye is only under way. `DepartureInv` says of each occupant
  opposite to a connection past its last lookup that the two never exchanged a
  frame, or the bye is in its channel (or was dropped by a full buffer), or it is
  the target of the delivery under way. Occupants that came after the lookup are
  of the first kind, because the connection had left the map before.
* `GoroutinesEndTogether` (for `BrokenConnectionReaped`): a writer that returned
  has closed the connection, so the handler's read fails; a handler that returned
  had a writer, and closed its channel and connection before its farewell
  (`Partners`, over the handler's phases).

### `RedisSignalingProofs`

* `EmptyRoomsAreEmpty`: while no Join fails and no connection outlives the hash,
  the hash lives as long as somebody is present and each stored count is at least
  the number of present connections of its role (`CountsCover`); a Leave that
  failed or never ran only makes it larger. A zero then means nobody.
* `RedisImplementsRoomPresence`: without faults the counts are exact
  (`CountsExact`); the mapping is that of the hub, over all instances.
* `RedisPairedPeersAreNotified`: `PairInv` follows a `peer-ready` from the
  presence transaction through the publisher and the inbox of the other
  instance to its occupant; it holds although instances stop, because an
  occupant is on a running instance (`RoomInv`, `UpInv`).
* `FramesAreInOrder`: `Rank` orders what one connection publishes (its
  `peer-ready`, its data by number, its bye). Of the frames that were never
  overdue, every inbox is in order, and what a connection got is before what is
  still in its instance's inbox (`OrderInv`). An attempt that Redis executes late
  is one of an overdue frame, wherever it lands; a frame once overdue stays so.

### `SessionTokensProofs`

* `TokensTypeCorrect`.
* `RedeemedSessionsAreActive`, `LiveTokensAreUsable`: by themselves not
  inductive. The invariant adds that a Mint that holds a row finds it pending
  and is within its latency; that a token's session is *settled* (its Mint will
  not touch the row again) and expires at most `MintLatency + TTL` after the
  row's creation; that a Redeem in flight read such a token while it lived, at
  most `RedeemLatency` ago. `SlackAssumption` then puts the sweep's cutoff
  before the creation of all these rows. Only a row in `resent` is not settled
  while its token lives.
* `StatusesMoveForward`: the same invariant with one more conjunct, that a row
  its Mint has yet to insert does not exist; so an INSERT never revives a row,
  and a rollback only ever deletes a pending one.
* `LiveAttemptsAreCounted`: a row's token is stored at most once, under the connect
  id of its Mint (`HomeInv`), so only redeems of that id compare its PIN.
  `Counted` then says that the counter has no expiry or one not before the
  token's, that it is at least the number of comparisons, and that there is room
  for one more in both bounds while a Redeem stands between INCR and EXPIRE; at
  most one does, because the counter never returns to zero under a live token.
* `AttemptsAreBounded` (of `HistSpec`): once a row's token is gone, the comparisons
  made and the redeems that may still make one (`Waiting`) are together at most
  the limit and the redeems that were waiting when it went (`LateInv`): a
  comparison takes its redeem out of `Waiting`, and nobody joins, because nobody
  can read the token any more. That the sum is right when the token goes is
  `Counted`; how often the counter is started over afterwards plays no part.
* `ActivatedTokensAreGone` (of `HistSpec`): a Redeem past its `DEL` has removed
  the only token of its row or found it dead (`SpentInv`), and it does not come
  back.

### `SessionSystemProofs`

* `PhonesComeAfterActivation`: the phone's join token exists only in an activated
  session (`TokenAfterActivation`), and a redeem that consumed the token is never
  overtaken by the sweep (`RedeemInTime`, `ExpiredIsOld`, from the assumption on
  the cutoff). Stops, which drop the room and redeems in flight, disturb neither.
* `EndOfVisitIsOwed` (for `EmptiedRoomEnds`): inductive together with two facts,
  that the room holds the connections whose handlers are in it (`RoomInv`) and
  that nobody visited an active session before it was activated (`VisitedInv`).
* `SystemTypeCorrect`: only the number of end signals needs an argument, a count
  of the connections that have left (`EndsCounted`).

### `IdentityProofs`

One invariant for the four results: every claim, in a token or in a request, is
*backed*: it says of organization and role what the row says, its version is not
ahead of the row's, and it is behind it when it goes back before a bump. For a
disabled user all claims are behind, and the times of access tokens and requests
are bounded by the time of the disabling.

* `RevokedRefreshIsRefused`, `DisabledCannotRefresh`, `DisabledAccessIsBounded`
  and the action property `OrganizationsAreIsolated` follow from it.
* `ClaimsAreTruthful`: why the middleware may decide without a query.

### `RateLimitProofs`

The invariant: at most one request stands at `EXPIRE` for a key, and that key
exists and has no time to live (`OneExpire`); a direct client in flight is counted
by its own address (`OwnKey`); and `Windows`, per direct client, about its latest
admissions. With `m` the counter's value, at most `max`: from the `m`-th on they
are at least as old as the counter has already lived, and from the `m + max`-th on
(one earlier while a request stands at `EXPIRE`, whose place is taken but which is
not yet let through) a window old. When the counter dies, all from the `max`-th on
are therefore a window old, and the next counter starts where `Windows` wants it.

* `DirectClientsAreBounded`: `2 * max` is at least `m + max`. The bound is sharp
  (TLC reaches `2 * max - 1`).
* `LockoutsHaveAnEnd`, `WindowsAreNotExtended` (for `LockoutEnds`): a counter
  that does not expire is orphaned or about to get its `EXPIRE`, and nobody sends
  a second one.
* `TypeCorrect`.

### `StoreProofs`

`Migrations`:

* `MigrationsTypeCorrect`, `SchemaIsAlwaysPrefix`: a replica has moved only past
  recorded scripts (`LoopInv`); at most one has a transaction open for a script,
  and what it changed is not yet recorded unless it changed nothing (`TxInv`). So
  the script a commit adds is the first unrecorded one.
* `ExitsAreExcused`, `WaitsAreShort` (for `EveryReplicaServes`): from the same
  invariant. A script that fails because its effects are there is recorded
  (`Prefix`), and who holds its locks is past the step that waits for locks.

`Recordings`, whose specification is named `RecordingsSpec` so that one module can
extend both (`StoreIsConsistent` carries the results over to `ServerStore`, each of
whose steps is one of either part and leaves the other alone):

* `ObjectsAreAccounted`, `RecordingsAreFinalizedOnce`, `RecordingsTypeCorrect`: an
  id about to be inserted is drawn by one request and has no row (`PendingInv`),
  so an insert never replaces a row; URLs and objects come from rows (`RowInv`); a
  successful Complete leaves the row available (`OksInv`), so a second one finds
  nothing.

### `ClientSessionProofs`

Theorems of the composed session (`SessionSpec`), in which a step of one part
leaves the others' variables alone or is a joint one.

* `AnswersFollowOffers`: there is one `peer-ready` per side, so one offer, so one
  answer, counted along both channels (`ReadyOnce`, `OfferOnce`, `AnswerOnce`).
* `NegotiationIsNeverStuck` (for `HandshakeCompletes`): inductive as it stands;
  each frame taken from a channel leaves the others there (`InRest`) and is
  replaced by the next step's, or ends up among the named exceptions
  (`BrokenOff`): a step of either program failed, the `peer-ready` came before
  the session, or the answer's send was refused.
* `ScreensShowWhatIsPlaced`: `NoLeftovers` and `GuidanceVisible` relate anchors,
  markers and what is still in the data channel to what the technician placed.
* `ClicksAreMappedExactly`: nonlinear arithmetic over the naturals, split into
  the lemmas `Scaled`, `OutsideIsBar` and `FramedMapping`; it holds for panels and
  frames of any size, where the run has four by four.

### Only model-checked

* That the liveness properties (`BrokenConnectionReaped`, `AcceptedFramesFlushed`,
  `LockoutEnds`, `EveryReplicaServes`, `EmptiedRoomEnds`, `PendingResolved`,
  `HandshakeCompletes`) follow from fairness: fairness and ENABLED are out of the
  prover's reach. For five of them the safety part is proved, as said above;
  `AcceptedFramesFlushed` and `PendingResolved` have none beyond the guards.

## 5. Not modelled, and the plan

Left out for good: password hashing and SigV4 signing (pure functions of
strings), TURN credentials, metrics, configuration parsing, route tables, user
interfaces, media capture and rendering, the interop harness and the scene
bootstrap (device I/O and tooling). Endpoints that only read (`ListUsers`, `Me`,
`List`, readiness, the room gauge) change no state and have no action. Rounding
of doubles in `VideoCoords.cs` is not modelled.

Work left: properties for the hazards that have none yet (`PROJECT.json`), such as
a disabled admin who enables their own account while an access token lives, or
candidates that are refused because they come before the description.
