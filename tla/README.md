# OpenMVCore: specifications, model checks and proofs

OpenMVCore is a set of Go services for a small 4G/5G core: an AMF that registers
UEs, two generations of an SMF that set up sessions, a UPF that holds them, and the
supporting BSS, UDM, OCS and an IMSI switch receiver. The services talk over SCTP,
HTTP, PFCP on UDP, Redis and NATS. This directory holds TLA+ modules translated from
their source, TLC configurations that check them on small instances, and TLAPS proofs
of the most important results for all values of the constants.

Paths below are relative to the repository root.

## 1. Inventory

| component | state it keeps | operations | talks to |
|---|---|---|---|
| SMF with PFCP client, `smf/main.go`, `smf/publisher.go` (the deployed SMF) | one connected UDP socket with one read deadline, one HTTP server; no session table | `POST /gtpc/v1/create-session`, shutdown | UPF (PFCP), NATS (`pfcp.session.created`) |
| UPF control plane, `upf/pkg/upf/upf.go` | `sessions` (SEID to Session) under `sessionLock`, two UDP sockets | establishment, modification, deletion, heartbeat, association set-up, `Close` | any PFCP client |
| UPF process, `upf/main.go`, `pfcp.go`, `tunnel.go` | none | placeholder | - |
| Redis session manager, `pkg/smf/session.go` | Redis keys `session:<imsi>` with 24 h to live | create, delete, modify | Redis |
| GTP-C SMF, `cmd/smf/main.go` | `sessions` (IMSI to Session), address pool and index, one mutex | create, delete | GTP-C peers |
| IMSI switch receiver, `imsi-switch-receiver/main.go` | `pendingSwitches` (device to decision) under `mu` | stream callback, `GET /switches/{id}`, `POST .../respond` | JetStream stream `IMSI_SWITCHES`, HTTP clients |
| AMF, `amf/main.go`, `amf/publisher.go` | `ueStore` (UE id to context) under a mutex, constant credentials | NGAP registration per association; get, delete, list (never started) | gNBs (SCTP), NATS (`ue.registered`) |
| BSS, `bss/main.go` | `simDB` (IMSI to subscriber) under a read-write lock | register, top up, get, shutdown | HTTP clients, NATS (`ue.registered`) |
| Event bus use, `amf/publisher.go`, `smf/publisher.go` and the subscriptions in `smf/main.go`, `bss/main.go` | none in the programs | publish on core NATS, subscribe on JetStream | NATS |
| UDM, `udm/main.go` | constant table | `POST /auth` | HTTP clients |
| OCS, `ocs/main.go` | none | publishes one constant event every 5 s | NATS |
| gNB simulator, `gnb-sim/main.go` | one association | sends one registration | AMF |
| Redis helpers, integration tests, compose file | - | - | - |

What makes each of them hard, and what makes it correct:

* **SMF with PFCP client.** Every HTTP request has a goroutine of its own, and all of
  them write, arm a deadline and read on the *same* socket. Nothing matches an answer
  to a request: the sequence number is the constant 1, the SEID is the constant 1, and
  the first datagram that parses as an establishment response is taken for success.
  Datagrams are lost and never sent again. The deadline is the socket's, and the clock
  is read before it is set, so that calls move each other's deadline on, or back.
  Correct would mean: a call that reports success has a session in the UPF; no answer
  makes two calls succeed; no call is told of a time-out early; every call ends; and a
  call's success is about its own request. Of these the code gives the first two; the
  next two hold with the exceptions that `NoEarlyTimeout` and `EveryCallEnds` name, and
  the last one does not hold.
* **UPF control plane.** A goroutine per datagram, so requests overtake each other; the
  table is touched under the lock, the answer is sent after it is released; `Close`
  waits for nobody; a restart forgets everything. Correct would mean: every answered
  request took effect exactly once and atomically between its arrival and its answer,
  and entries are written by requests for their own SEID only.
* **Redis session manager.** A GET and then a SET or DEL, with nothing that ties them
  together; errors of the GET are taken for absence; go-redis repeats commands; keys
  expire. Correct would mean: requests that do not overlap behave as if atomic, a
  create returns only what was stored, subscribers are never mixed up, and a create
  keeps an existing session.
* **GTP-C SMF.** One mutex that `createSession` holds while it calls `allocateIP`,
  which locks it again. Correct would mean at least that every request ends.
* **IMSI switch receiver.** At-least-once delivery that can lose a push and repeat it
  30 s later, after newer messages; an ephemeral consumer that reads the whole stream
  after each restart and that the server removes while the receiver is away; answers
  that name a device and not a decision; and no record of answers. Correct would mean:
  a decision is answered at most once, the last one made is the pending one, and no
  message is passed over. That the newest *published* decision is the pending one is
  more than the code can give, as it looks at no timestamp or sequence number.
* **AMF.** Concurrent associations that share the UE store; the context is written
  before the response is sent and the event published after; the management API looks
  up and deletes in two critical sections. Correct would mean: an event only for a UE
  whose gNB was told of its success; a context that only a later message or a deletion
  can replace; a reported deletion that stays; and no message that blocks its
  association, which the Write of the response can do, as it has no deadline.
* **BSS.** Concurrent handlers, machine integers and calls without identifiers. Correct
  would mean: each request is atomic, no credit is lost, every answer agrees with one
  order of the requests, and a registration happens once per IMSI.
* **Event bus use.** Publishers get no acknowledgement, subscribers need a stream that
  no service creates. Correct would mean: events are never invented, repeated or
  reordered. What reaches the subscribers is up to JetStream, and they only log it.

`PROJECT.json` lists the hazards line by line, each with the properties that would
catch it, or with the reason why none does. Two parts have fewer than their code
suggests, since much of it cannot be reached: the AMF decodes no message (section 6)
and the GTP-C SMF hands out no address (`NothingIsEverStored`).

## 2. Plan

Done, in this order:

1. `PfcpLink`, `Upf`, `SessionTable`, `UpfService`: the UPF, and the abstract table it
   implements.
2. `SmfPfcp`, `PduSession`: the deployed SMF, composed with `Upf` over `PfcpLink`.
3. `RedisSessions`, `ImsiSwitch`, `GtpcSmf`.
4. The proof modules of `UpfService`, `PduSession` and `RedisSessions`.
5. `EventBus`, `Amf`, `Registration`: gNBs, AMF and event bus, composed.
6. `Bss` and the accounts it implements; `IpPool`, the byte-wise carry of `nextIP`.
7. The proof modules of `ImsiSwitch`, `Registration`, `Bss` and `IpPool`, and
   `SerialRegistry` in that of `RedisSessions`.
8. Proofs of `BalanceIsAccountedFor` and `AnswersFormALedger`; `PduSession` as an
   implementation of `SessionTable`, checked and proved; `SerialCreatesAgree`, checked
   and proved; the proof module of `GtpcSmf`.
9. The clock that is read before the deadline is set and the calls beyond those told
   apart in `SmfPfcp`; lost deliveries, the removed consumer and the identity of
   decisions in `ImsiSwitch`; responses that are not read in `Amf`; and the properties
   and proofs that rest on them.

To do: `GtpcSmf` beyond the first create, should the mutex be repaired: the pool's
index, and the state that is written through a pointer.

## 3. Modules

| module | models | state | actions |
|---|---|---|---|
| `PfcpLink` | the UDP path (external) | `toUpf`, `toSmf`, `sent` | `Send`, `LoseRequest`, `LoseAnswer` |
| `Upf` | `upf/pkg/upf/upf.go` | `sessions`, `spawned`, `replying`, `conn`, `restarts` | `ReadFromUDP`, the five handlers, `SendPFCP`, `Close`, `Restart` |
| `SessionTable` | abstract: what a session table promises | `table`, `waiting`, `settled`, `used` | `Submit`, `Apply`, `Vanish`, `Reset` |
| `UpfService` | the UPF under any client | `Upf` plus the client's `heard`, `view`, `overlap` | `Submit`, `Hear`, the UPF's, the link's |
| `SmfPfcp` | `smf/main.go`, `smf/publisher.go` | `pc` and `owed` per call, `deadline`, `server`, `grace`, `events`; history `overtaken`, `got` | one per step of the handler, `OtherCallArms`, `Shutdown`, `Exit`, `Tick` |
| `PduSession` | SMF, UPF and link together | all of the above | all of the above |
| `RedisSessions` | `pkg/smf/session.go` | `store`; `op`, `imsi`, `pc`, `session` per request | one per Redis command or failure of one, `Expire` |
| `ImsiSwitch` | `imsi-switch-receiver/main.go` | `stream`, `consumer`, `next`, `unacked` (JetStream); `handling`, `pending`, `made`, `born`; `looked`, `shown` per client; history `answered`, `answers` | `Publish`, `Deliver`, `LoseDelivery`, `Redeliver`, `RemoveConsumer`, `StoreDecision`, `Lookup`, `Encode`, `Respond`, `Restart` |
| `EventBus` | NATS as the services use it | `outbox`, `streamExists`, `stream` | `Publish`, `Flush`, `LoseEvent` |
| `Amf` | `amf/main.go`, `amf/publisher.go` | `conn`, `toAmf`, `unread`, `pc`, `msg` per association; `ueStore`; `deleting` per administrator; history `answered`, `deleted` | `Receive`, `Respond`, `RespondFails`, `PublishUERegistered`, `ReadError`, `DeleteUE`, `Delete` |
| `Registration` | gNBs (`gnb-sim/main.go`), AMF and event bus together | all of the above, and the history `sent` | `Send`, `ReadResponse`, `Close`, the AMF's, the bus's |
| `Accounts` | abstract: what a table of prepaid accounts promises | `balance`, `waiting`, `answers`, `used` | `Submit`, `CarryOut`, `Settle`, `Reset` |
| `Bss` | `bss/main.go` | `simDB`, the lock (`writer`, `readers`), `arrived`, `found`, `answers`; history `used`, `told` | `Arrive`, `BadRequest`, `Lock`, `Register`, `TopUp`, `GetSubscriber`, `ReadAnswer`, `LoseAnswer`, `Restart` |
| `IpPool` | `initIPPool`, `nextIP` in `cmd/smf/main.go` | `start`, `end`, `ip`, `ipPool` | `Add`, one turn of the loop |
| `GtpcSmf` | `cmd/smf/main.go` | `sessions`, `ip`, `nextIPIndex`, `mu`, `active`; `pc` per request | one per lock acquisition or unlocked step |

Correspondences worth knowing:

* **What a step is.** A critical section, a socket operation, a Redis command or a
  callback is one step; a handler is a sequence of such steps, recorded in `pc` or in
  the sets its request moves through (`toUpf`, `spawned`, `replying`, `toSmf`).
* **Identifiers.** A PFCP request carries a ghost identifier that stands for its
  payload (UE address, TEID) and tells two equal datagrams apart. No guard of a program
  reads it. An answer is represented by the request it answers, and the SMF looks only
  at its kind, as the type switch in the code does. `createdBy` and `updatedBy` of a
  UPF session stand for the times its handlers took.
* **Time.** `deadline` is the socket's read deadline in ticks, `grace` the shutdown
  context; both are 5 s in the code, so both run on the same clock. `owed` is what is
  left until the time a call computed, now + 5 s. `ReadClock` and `SetReadDeadline` are
  two steps, and a goroutine that is held up between them sets the deadline to a time of
  which less is left: back, if another call has set it meanwhile. `overtaken` is
  history: the reads whose deadline was moved before their own time.
* **Further calls.** `OtherCallArms` is a call beyond those told apart, which sets the
  deadline soon or late after it has read the clock, any number of times. What else such
  a call does to those told apart is to take an answer, which is `LoseAnswer`.
* **Shutdown.** `server.Shutdown` waits for active handlers or the grace period; then
  `main` returns and every handler still running is cut.
* **Sessions in Redis.** A session is reduced to the UUID it was created with and its
  state. `ideal` and `unsure` are history: what the key would hold if requests were
  atomic, and the IMSIs whose requests overlapped or failed.
* **JetStream.** `js.Subscribe` without options is an ephemeral push consumer that
  starts at the beginning of the stream, delivers to one callback at a time, and acks
  when the callback returns. A push may never reach the callback (`LoseDelivery`: the
  connection breaks, or the subscription is a slow consumer); what is not acknowledged
  in time is pushed again, whether or not the callback has seen it and whatever was
  pushed since (`Redeliver`); and the server removes the consumer of a subscriber that
  was away for seconds, at any time, after which nothing is pushed until the receiver
  is restarted (`RemoveConsumer`).
* **Decisions.** Each callback unmarshals into a `SwitchDecision` of its own and stores
  the pointer, also for a message delivered before. So decisions are numbered in the
  order they were made: `made[k]` is the message of the k-th, `born` the number made
  by earlier processes, and `pending`, `looked` and `shown` hold numbers.
* **NGAP messages.** A message carries a ghost identifier, its gNB, its UE and what its
  payload amounts to: `garbled` if asn1 does not decode it, `genuine` if IMSI and secret
  are in `udmDB`, else `wrong`. A context is the message it was built from, and so are
  the response and the event. `Register` is the one critical section of `ueStore`, and
  everything between reading a message and that section touches nothing shared.
  `RespondFails` covers both the encoding and the write, for any reason, at any time.
  `unread` counts the responses a gNB has not read; while there is no room for another
  (`ResponseRoom`), the Write waits. The simulator reads one response and then none.
* **Events.** `outbox` is the buffer of the publisher's NATS client, in order; `Flush`
  takes its oldest event to the server, `LoseEvent` is a connection that broke. Whether
  a stream exists is open in the initial state: an operator may have created one. The
  subscribers, SMF and BSS, only log what they are passed and are left out.
* **The BSS's lock.** `Lock` takes `simDBLock` and reads the map; the rest of a handler
  is the next step, up to the deferred unlock. The readers of a GET share the lock.
  `found` is the looked-up balance, which a top-up adds to: in the code it is read
  through the pointer under the same lock. Integers are `-Half .. Half - 1` and wrap,
  as Go's `int` does with `Half = 2^63`. An invalid body never gets to the lock.
* **Addresses** are four digits to the base `Base`, 256 in the code. The two ends of the
  pool are variables that never change, so that one run covers all pairs of them.
* **History variables** (`sent`, `overtaken`, `got`, `heard`, `view`, `overlap`,
  `wasStored`, `ideal`, `unsure`, `answered`, `deleted`, `told`, `used`, and the `answers`
  of `ImsiSwitch`) are read by no guard of a program
  step, with the exception of the client's own bookkeeping that an identifier is used
  once.

Operators marked "Mutant" in a comment are not part of the model. Each is a plausible
bug of the definition that follows it; substituted for that definition, it makes TLC
report one property violated, which shows that the property depends on the code.

## 4. Runs

`tlc -workers 2 -config <cfg> <module>`; `CHECK_DEADLOCK FALSE` everywhere, since each
request, call or decision is used once and the instance stops when all are used up.

| run | bounds | distinct states | shows |
|---|---|---|---|
| `upf_service` | 3 requests of any kind, 2 SEIDs, 1 restart | 87 438 | `SessionsAreTheirOwn`, `SerialView`, and that the UPF implements `SessionTable` |
| `pdu_session` | 2 calls, 1 SEID, 2 ticks per time-out, 1 restart | 382 402 | `AcceptedIsBacked`, `OneAnswerPerCall`, `NoEarlyTimeout`, and under fairness `EveryCallEnds`; SMF, link and UPF together implement `SessionTable` |
| `redis_sessions` | 4 requests, 2 IMSIs, 2 faults, 1 expiry | 197 871 | `SerialRegistry`, `SerialCreatesAgree`, `ReturnedWasStored`, `SessionsKeepTheirImsi` |
| `imsi_switch` | 3 messages for 2 devices, 1 client, 1 disruption (a lost delivery, a lost ack or a restart) | 591 502 | `OneAnswerPerDelivery`, `NewestIsPending`, `AnswerIsNeverOlder`, `PassedIsHeld`, and under fairness `PublishedIsStored` |
| `registration` | 3 of 4 messages, 2 gNBs, 1 UE, 1 administrator, room for 1 response | 230 490 | `ContextKeepsUp`, `DeletedStaysDeleted`, `EventsAreBacked`, `EventsInOrder`, and under fairness `MessagesAreHandled` |
| `bss` | 4 of 7 requests, 1 IMSI, integers -4 to 3, 1 restart | 151 191 | `BalanceIsAccountedFor`, `AnswersFormALedger`, `OneRegistrationWins`, that the BSS implements `Accounts`, and under fairness `EveryRequestEnds` |
| `ip_pool` | bytes of one bit, all pairs of ends | 2 176 | `PoolIsTheInterval`, and under fairness `PoolIsFilled` |
| `pdu_stale` | as `pdu_session` | violation | `OwnRequestServed` fails: an answer to another call is taken |
| `pdu_tracked` | as `pdu_session`, 2 SEIDs | violation | `EverySessionIsTracked` fails: every UE has SEID 1 |
| `redis_create` | 2 requests, 1 IMSI, no faults | violation | `CreateKeepsExisting` fails: check, then act |
| `gtpc_lock` | 2 requests | violation | `EveryRequestEnds` fails: the mutex is not reentrant |
| `imsi_removed` | as `imsi_switch`, one message malformed | violation | `AnsweredIsRemoved` fails: the stream is read again |

Why the bounds are enough for the cases in question. *upf_service*: an overtaking needs
two requests on one session; the third lets one be overtaken twice or touch another
session; the proofs cover the rest. *pdu_session*: a swapped answer, a re-armed
deadline and a call cut by the shutdown need two calls; two ticks let a deadline be
re-armed half-way, and a clock read one tick before another's; `OtherCallArms` is not
bounded, so that the deadline can be moved for ever; the SMF uses one SEID.
*redis_sessions*: a lost update needs two overlapping requests after a create; four
requests allow two independent pairs, and two faults let a repeated command meet a
failed one. *imsi_switch*: two messages for one device replace each other, and with one
delivery or ack lost the older one comes after the newer; the third shows that devices
do not interfere; a response needs no GET before it, so one client that answers twice
stands for two that race. Malformed messages are in `imsi_removed` and in the proofs.
The consumer may be removed at any time, without counting as a disruption.
*registration*: a context that goes back needs two messages of one gNB; the third, of
another gNB, fails or cannot be decoded; the UE is the only thing they share, and one
administrator who looks up, waits and deletes races with all of them (two that race are
covered by the proof); with room for one response a gNB that does not read blocks its
association at the second. *bss*: a lost credit needs a registration and two top-ups,
the fourth request is a retry, a GET or a second registration; with three-bit integers
a balance overflows within two top-ups. Several IMSIs add nothing but products, as the
handlers share only the lock. *ip_pool*: with binary bytes the carry passes each byte
in each way; `NextIPAddsOne` is the same for any byte.

The symmetry sets (requests and SEIDs in `upf_service`, requests and IMSIs in
`redis_sessions`) are of interchangeable model values, in runs that check no liveness.

### What the violations mean

* `OwnRequestServed` (`smf/main.go:100-115`). Call c1 is waiting, call c2 writes; the
  UPF answers c2 first and c1 reads that answer: c1 reports success while its own
  request is still unread, and may yet be lost. The same happens with the late answer
  to a call that has timed out.
* `EverySessionIsTracked` (`smf/main.go:234`, `upf/README.md:16`). Each establishment
  for SEID 1 replaces the one before.
* `CreateKeepsExisting` (`pkg/smf/session.go:154-160`). Two creates read, find nothing,
  and both write.
* `EveryRequestEnds` (`cmd/smf/main.go:105`, `126`). The first create for a new IMSI
  blocks itself; `AllocateIP`, the step it waits for, is never enabled, so that the SMF
  never stores a session (`NothingIsEverStored`, section 5). The file does
  not compile as it stands (a misspelt constant, an undeclared variable); the model is
  of the evident intent in these respects and faithful in all others.
* `AnsweredIsRemoved` (`imsi-switch-receiver/integration_test.go:98`). After a restart,
  or a late ack, the message of an answered decision is delivered and stored again.

### Fairness

* `PduFairness`: weak fairness of each handler's own next step (the Go scheduler runs
  runnable goroutines), of `Tick` (time passes) and of `Exit` (main goes on when
  `Shutdown` returns). None for the UPF, the network, new calls, the shutdown signal
  or socket errors: `EveryCallEnds` holds with a dead UPF and rests on the deadline.
  None against `OtherCallArms` either, so `EveryCallEnds` has to name it: if calls go
  on arriving less than 5 s apart and the UPF is silent, each moves the deadline on and
  those that wait may wait for ever. It speaks of a serving SMF; a call that the
  shutdown cuts is not answered, and does not count as ended.
* `SwitchFairness`: weak fairness of `Deliver` (JetStream pushes what is in the stream
  while it has the consumer), of `Redeliver` for each message (and pushes again what is
  not acknowledged, without a limit by default) and of `StoreDecision` (the callback has
  no blocking operation but a mutex that is held for a few assignments). None for
  `LoseDelivery`, `RemoveConsumer`, restarts or clients: `PublishedIsStored` excepts a
  consumer that was removed, since nothing obliges the server to keep it or the receiver
  to be restarted.
* `RegFairness`: weak fairness of each association's `LoopStep`: a message to read, a
  response with room for it, an event to publish, and a Write that fails because the
  association is down. A read that only an error would end is not forced, nor a Write
  that fails on an association that is up. None for `ReadResponse`, so that a Write can
  wait for ever and `MessagesAreHandled` names this as the one exception, and none for
  administrators, `Flush` or losses. `MessagesAreHandled` allows that the goroutine ends
  on a read error with messages unread, as the code does.
* `BssSpec`: weak fairness of each handler. That is enough since the lock is held
  for one step and the number of requests is bounded; with an unlimited number of
  requests Go's `RWMutex` would have to be fair, and it is: a waiting writer keeps
  new readers out.
* `PoolSpec`: weak fairness of the loop's turn; nothing else runs at the time.
* `GtpcSpec`: weak fairness of each handler, which is the most the scheduler gives; the
  counterexample stops although every enabled handler runs.

## 5. Proofs

`tlapm <module>_proofs.tla`. No theorem assumes a bound; the constants are restricted
by the named assumptions of the modules only: `UpfAssumption`, `SmfAssumption`,
`RedisAssumption`, `SwitchAssumption`, `AmfAssumption`, `BssAssumption` and
`BaseAssumption`, and for `GtpcSmf`, which declares none, by the first line of each
theorem. They say that an absent value is none of the present ones, that bounds
are numbers, that time-outs are positive, that messages and requests are well-formed
records, and that integers and bytes have at least two values.

**`UpfService_proofs`.** `ServiceTypeCorrect`; then `LifeInv`, the invariant that a
request is in at most one place between being sent and being heard, and was sent.
Without it a goroutine could be thought to serve a request twice, and the refinement
fails at `Apply`.

* `UpfImplementsTable`: `ServiceSpec => ImplementsTable`. `HandlerEffect` shows that
  each handler that answers has exactly the abstract effect; the read, the write to
  the socket and the client's read are stutters; losses and unanswered modifications
  are `Vanish`; a restart is `Reset`.
* `EntriesAreTheirOwn`: `[]SessionsAreTheirOwn`, inductive with "spawned requests were
  sent".
* `SerialClientsAreRight`: `[]SerialView`. The strengthening `SerialAt` says, for a
  SEID without overlap, which stage its one unanswered request is at, and whether the
  entry is the client's view or the view with that request applied. `OnlyOneInTransit`
  gives the case split.

**`PduSession_proofs`.** `PduTypeCorrect`, one lemma per part of the state.

* `EarlyIfOvertaken`: `PduSpec => NoEarlyTimeout`. The inductive `TimerInv` says that
  what a reading call is owed never exceeds the socket's deadline, unless it was
  overtaken: whoever sets the deadline below what a reading call is owed overtakes it,
  and a tick lowers both. That no call times out early would be wrong: a call can be
  overtaken (`smf/main.go:101`), and no document of the repository says otherwise.
* `AcceptedHasSession`: `[]AcceptedIsBacked`. `BackedInv` says that only establishments
  are ever on the link, that the existence of any answer implies a session while the
  UPF has not restarted, and that a call past its read has read an answer.
* `AnswersAreNotShared`: `[]OneAnswerPerCall`. `LifeInv` says that a request is in one
  of the wire, the UPF, the wire back, or one call's hands.
* `PduImplementsTable`: `PduSpec => ImplementsTable`, from the same two invariants. A
  call's write is `Submit`, the establishment in the UPF is `Apply`, a datagram that is
  lost or an answer that is read, by whichever call, is `Vanish`; what else a call does
  (a time-out, being cut by the shutdown) is a stutter. The mutant that sends a request
  again after a time-out breaks it.

**`RedisSessions_proofs`.** `RegistryInv`, with `Provenance`: a handler at its SET has a
session, a handler's session was created for its own IMSI, and Redis holds only what
was stored there. It gives `RedisTypeCorrect`, `ImsisAreNotMixedUp`
(`[]SessionsKeepTheirImsi`) and `CreatedMeansStored` (`[]ReturnedWasStored`). The type
alone is not inductive, as a SET must be known to have something to store.

* `SerialRequestsAreAtomic`: `[]SerialRegistry`. `SerialAt` says, for an IMSI that is not
  unsure, that at most one request runs, that a request at its GET will read the ideal
  value, and that one at its SET holds what an atomic request would have left. Then the
  SET or DEL, executed once or several times, leaves exactly that. `SerialFrame` and
  `SerialStep` reduce each action to the IMSI it is about.
* `OneSessionPerImsi`: `[]SerialCreatesAgree`. On top of `SerialAt`, `CreatesAt` says that
  what a finished create was handed is what the ideal registry holds, up to its state,
  as long as no delete has succeeded and no key has expired.

**`ImsiSwitch_proofs`.** `SwitchTypeCorrect`; then three invariants, none of which assumes
that deliveries arrive, arrive once or arrive in order.

* `NothingIsLost`: `[]PassedIsHeld`. It is inductive with `HandlingInv`, that the message
  in the callback is not acknowledged yet: it is only when a decision has been made of
  it. It is the safety half of `PublishedIsStored`.
* `AnswersAreBounded` (`[]OneAnswerPerDelivery`) and `TheNewestIsPending`
  (`[]NewestIsPending`): `AnswerInv` adds to the two that a pending decision is one of
  its device and has not been answered, which is why an answer is the first one.
* `AnswersAreNeverOlder`: `[]AnswerIsNeverOlder`. `OrderInv` says that what a client has
  looked up or been shown was made no later than what is pending for that device; a new
  decision is later than all, and a restart leaves nothing pending.

**`Registration_proofs`.** `RegTypeCorrect`. `LinkInv` says that an association's messages
are those taken, in order, followed by those still unread; with it a message has a place
among those sent, and a goroutine works on the last one taken.

* `DeletionsAreFinal`, `ContextsKeepUp`: from `HistoryInv`, which strengthens "answered"
  to "read" (the context is written before the answer) and says that contexts, pending
  deletions and answers are all of messages that were read; so a new context is newer
  than any of them from its gNB, and is not a deleted one.
* `EventsAreAllBacked`, `EventsStayInOrder`: from `EventInv`, on the stream followed by the
  buffer: each event is of an answered message, events are in order, and what a
  goroutine is about to publish is newer than all events of its gNB. Losing the oldest
  buffered event removes one from the middle of this sequence and keeps the rest.

**`Bss_proofs`.** `BssTypeCorrect` needs `LockInv`: a handler holds the lock alone unless it
reads, and what it has found is what the map holds.

* `BssImplementsAccounts`: `BssSpec => ImplementsAccounts`. Taking the lock is a stutter;
  the step that releases it is `CarryOut`, by `LockInv` with the balance of that moment;
  a restart is `Reset`.
* `RegistrationIsUnique`: `[]OneRegistrationWins`, with the invariant that an IMSI whose
  registration was answered 201 stays in the map until a restart.
* `EveryBalanceIsAccountedFor` (`[]BalanceIsAccountedFor`) and `AnswersAreALedger`
  (`[]AnswersFormALedger`), for any number of top-ups. Neither is inductive: neither says
  which credits a balance consists of. `BooksInv` does: an account has books, that is a
  registration `o` and a set `A` of top-ups that are over, such that the balance is the
  opening amount of `o` plus the amounts of `A`, nothing larger was told, and each
  balance a top-up was answered is ahead of all smaller ones by its whole amount. A
  registration opens the books, a top-up enters itself into `A`, and a GET changes
  nothing. Retries of a request are requests of their own, so `A` is a set. The sum of
  the amounts is stated as the number of units credited (`Units`, `Amounts`): a sum by
  folding over a set would need an induction over finite sets that the prover cannot
  instantiate, and a cardinality is covered by the library's theorems
  (`AmountsAdd`, `AmountsMonotone`). Both hold as long as the account cannot overflow
  (`CannotOverflow`), which is what a machine integer allows.

**`IpPool_proofs`.** `NextIPAddsOne`: the carry adds one modulo the number of addresses, by
cases on the byte it stops at. With it `PoolIsAnInterval` (`[]PoolIsTheInterval`) is
inductive: each turn moves the address one further from the first and one nearer to the
last. `PoolTypeCorrect` is the type.

**`GtpcSmf_proofs`.** The run `gtpc_lock` shows that a request may not end; the theorems
say what is left of the component, for any requests, subscribers and pool. Their one
invariant, `GtpcInv`, rests on `WaitsForItself`: whoever has the mutex waits for it.

* `NothingIsEverStored`: the table stays empty and the pool's index 0, and no handler
  gets to the point of answering with a session. So neither the state written through a
  pointer nor the addresses that are never returned do any harm in this code.
* `TheFirstCreateLocksTheSmf`, an action property: once the mutex is taken it is never
  free again, and no request that is at a lock takes another step.
* `GtpcTypeCorrect`: the type, which the other two rest on.

Every invariant and every refinement the passing runs check is proved. Only
model-checked are the liveness properties `EveryCallEnds`, `PublishedIsStored`,
`MessagesAreHandled`, `EveryRequestEnds` and `PoolIsFilled`, since
liveness under fairness is out of the prover's reach; the five violations are
counterexamples.

## 6. Not modelled, and why

* The UPF process is a placeholder that never starts the UPF package. `PduSession`
  composes the SMF with the package its README describes; with the placeholder in its
  place all datagrams are lost or answered by an ICMP error, which the model contains
  (`LoseRequest`, `SocketError`).
* Duplication of datagrams is left out of `PfcpLink`: both ends are containers on one
  bridge network (`docker-compose.yml`).
* A crash of the SMF: it keeps no session state, and the compose file restarts nothing.
  Its shutdown is modelled.
* After `Close` the UPF's read loop logs the same error for ever; the model shows the
  state this leaves (nothing is read, handlers finish), not the load.
* GTP-U: the handler only logs. Heartbeats and association set-up change no state and
  are modelled as such.
* The torn status text a GET may encode while a response is written
  (`imsi-switch-receiver/main.go:111`, `134`) and the fields of events.
* Two facts about the AMF as it stands. `main` never calls `startHTTP`, so the program
  is the instance with no administrators. And `NGAPMessage` holds a `uint64`, a type
  encoding/asn1 has no encoding for: the simulator's `Marshal` fails and the AMF
  decodes no message, so the program is the instance whose messages are all garbled.
  The module is of the handlers as written, for any administrators and messages, and
  its theorems cover these instances.
* Whether an operator creates a stream for `ue.registered`: nothing in the repository
  does, although `docker-compose.yml` starts NATS with JetStream. Both cases are
  initial states. The subscriptions of SMF and BSS are left out: their callbacks log,
  and what they are passed is a matter between NATS and its client library.
* A crash of the AMF: its contexts are in memory, and nothing refers to them after.
* `GET /ue` and `GET /ue/{id}` of the AMF, and JSON encoding outside the lock there: they
  change nothing. `/health` and the logging and recovery middleware likewise.
* UDM (a constant table behind a stateless handler that no service calls), OCS (a loop
  that publishes a constant event nobody subscribes to), the Redis helpers, tests and
  deployment files keep no state of their own or are not part of the platform.
