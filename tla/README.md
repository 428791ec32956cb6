# A TLA+ model of corba.cc

corba.cc is a CORBA ORB in C++23: stubs and skeletons generated from IDL, GIOP
messages, a TCP (and WebSocket) transport driven by one libev loop, coroutines
for callers and servants, bidirectional IIOP for clients that cannot be
connected to, and a small naming service. This directory holds TLA+ modules
that model its protocol core, the TLC configurations that check them, and
TLAPS proofs of nearly all their safety properties.

Everything in the ORB runs on the thread of the event loop. There are no data
races; what makes the code hard is the order of callbacks, callers that run
inside callbacks, state that outlives a socket, and errors that are noticed in
one place and acted on in another.

## 1. Inventory

Paths are relative to `src/src/corba/`.

| Component | State | Operations | What must hold |
|---|---|---|---|
| TCP connection, `net/tcp/connection.cc` | `state`, `fd`, `sendBuffer`, `bytesSend`, read/write watchers, timer and `timer_active`, `stream2packet`; from `Connection`: `interlock`, `requestId`, `didSendBiDirIIOP` | `send`, `up`, `accept`, callbacks `canRead`, `canWrite`, `timer` | requests leave whole, once, in order; every caller is resumed once; descriptor, state, watchers and timer agree |
| Stream to packet, `net/stream2packet.cc` | buffer, `size`, `reserved`, `offset`, `messageSize` | `buffer`, `received`, `message` | every packet is one message, nothing is read or written outside the buffer, nothing complete is withheld |
| ORB calls, `orb.cc` | `interlock` of each connection, suspended servants | `_twowayCall`, `onewayCall`, `socketRcvd` | a reply reaches the caller of its request; one reply per request; servants of both ends that wait for each other go on |
| Connection pool and bidirectional IIOP, `net/connection.cc`, `orb.cc`, `giop.cc` | `ORB::connections`, `remote` and `didSendBiDirIIOP` of each | `getConnection`, `findByRemote`, `writeServiceContext`, `readServiceContext` | a call-back reaches the client that passed the reference, over a live socket |
| TCP protocol and sockets, `net/tcp/protocol.cc`, `net/util/socket.cc` | listening sockets, `local` | `listen`, `connectIncoming`, `connect_to` | seen through the two components above |
| WebSocket connection, `net/ws/` | as TCP, and the state of the HTTP upgrade and the wslay context | as TCP, and both roles of the upgrade | as TCP; no frame before the upgrade, nothing lost at the change of mode |
| Servants, activation, shutdown, `orb.cc`, `skeleton.cc`, `stub.cc` | `servants`, `servantIdCounter`, stubs' connections | `activate_object(_with_id)`, `bind`, `shutdown` | a reference leads to its servant or nowhere |
| Naming service, `naming.cc` | `name2Object` | `bind`, `resolve`, `resolve_str` | a bound name resolves to what was bound |
| References and URLs, `ior.cc`, `url.cc` | none | `decodeURI`, `str`, `stringToObject`, IOR codec | a URL is read as its grammar says; what a name leads to is what was bound |
| GIOP and CDR, `giop.cc`, `cdr.cc` | `offset`, buffer and `sizeStack` of the encoder, `m_offset` and `_endian` of the decoder | encoders and decoders of headers, references, service contexts, values | decode after encode; the size in the header; nothing is read outside the message or an encapsulation |
| Exceptions, coroutines, logger, `exception.hh`, `coroutine.hh`, `util/` | none | | seen as outcomes of calls |

**How they interact.** A stub calls `_twowayCall`, which takes a request id from
its connection, encodes the request (with the client's name, the first time),
`send()`s it and suspends in `interlock`. `send()` queues and, when the
connection is IDLE, connects. libev calls `canWrite()`, which sends, and
`canRead()`, which puts the bytes into `stream2packet` and hands every packet
to `ORB::socketRcvd()`. A REPLY resumes the caller right there; a REQUEST runs
the servant right there, until it ends or suspends. So an application callback
can call `send()` on the connection from inside `canRead()` or `timer()`.
`canRead()` and `timer()` fail all callers of a lost socket. The pool finds the
connection for a reference by the peer's name, which the peer itself announces.

**What is hard.** The hazards, each at its line and with the properties, if any, that
watch it, are listed in `PROJECT.json`. In short: a call made while an attempt
is in progress; the order of `canRead()` and `canWrite()` in one iteration of
the loop; events fetched for a socket that is gone; watchers and queues that
survive their socket; callers that call again from inside the loop that fails
them; replies that come after their caller has been failed; servants that
suspend and end in another order, or throw after suspension; stale connections
in the pool; the framing of a byte stream in arbitrary portions; and skeletons that
are activated twice, named in another ORB or used after a shutdown.

## 2. Modules

| Module | Models | Instance |
|---|---|---|
| `CallContract` | abstract: what one connection promises to its callers | refined by `TcpConnection`, `WsConnection` and, per direction, by `OrbCalls` |
| `TcpConnection` | one `TcpConnection`, its callers, libev, the kernel socket, the peer | `MCTcpConnection` |
| `Stream2Packet` | `IIOPStream2Packet` and the loop of `canRead()` | `MCStream2Packet` |
| `OrbCalls` | two ORBs, their servants and the messages between them | `MCOrbCalls` |
| `BiDirPool` | a server's pool and its clients | `MCBiDirPool` |
| `WsConnection` | both ends of a WebSocket connection, with wslay, libev and the socket | `MCWsConnection` |
| `GiopMessage` | one GIOP message from encoder to decoder | `MCGiopMessage` |
| `ObjectAdapter` | the servants, keys, names and lives of several ORBs, and references to them | through `References` |
| `Url` | `decodeURI()` and `str()`, as operators | through `References` |
| `References` | clients that look objects up by URL; composes the two above | `MCReferences` |
| `TcpConnectionProofs`, `Stream2PacketProofs`, `OrbCallsProofs`, `BiDirPoolProofs`, `WsConnectionProofs`, `GiopMessageProofs`, `ObjectAdapterProofs` | theorems about the module each is named after; the last also about `References` | |
| `WsContractProofs` | theorems about the calls over a `WsConnection`, on top of `WsConnectionProofs` | |

The layers are composed by contract: `OrbCalls` assumes whole messages in order,
which `Stream2Packet` and `TcpConnection` are about; `Stream2Packet` assumes that
the size in a header is the length of the message, which is
`FrameMatchesHeader` of `GiopMessage`; and `TcpConnection`, `WsConnection` and
`OrbCalls` implement the same `CallContract`.

### TcpConnection

`state`, `fd`, `sendBuffer` (a sequence of request ids), `bytesSend` (in chunks
of a message), `requestId`, `timerActive` are the members of the class. `call`
maps each request id to what became of it; the ids that are `"waiting"` are the
keys of `interlock`. `draining` is the exception with which a
`while (!interlock.empty())` loop is failing callers, which is the only code that
is split into several steps, because each resumed caller may call again before
the next is resumed (`Drain` has both outcomes). The replies an ORB sends for the
peer's requests take the same path as oneway requests.

libev is modelled as `src/` relies on it (external in the map):

- One iteration fetches the events of a descriptor (`Poll`, variable `fired`)
  and runs one callback for each, in the order in which the watchers were
  started (`writeFirst`). Timers run before the I/O callbacks of the same
  iteration, so an event fetched for an old socket may be delivered when `fd` is
  already a new one.
- No application code runs between `canWrite()` and `canRead()` of the same
  descriptor (`midway`).
- A read event may come for nothing (`spurious`), as libev's documentation warns;
  `canRead()` then meets EAGAIN.
- A watcher whose descriptor was closed stays active and gets no events
  (`"stale"`). Starting one on a closed descriptor makes libev stop all watchers
  of that descriptor and deliver an error event to each (`"bad"`).
- `ev_io_init()` on an active watcher corrupts the list of its descriptor.
  When the new socket has the same descriptor number the loop asserts or spins;
  both outcomes are explored (`loopDead`).

The kernel socket is `link`, with `inbox` for replies that can be read,
`answerable` for requests the peer has yet to answer and `aligned` for whether
the stream began at a message boundary: `bytesSend` is kept when a socket is
lost, so the next socket may start in the middle of a message, and what follows
is garbage for the peer (`garbled`). SIGPIPE is ignored (`socket.cc:21`), so
`send()` can fail with EPIPE. `COMM_FAILURE` is never thrown in `src/`, so the
handlers for it in `_twowayCall` and `onewayCall` never run.

`errno` is read in `up()` after two libev calls and a `connect()` that may have
succeeded at once; then both branches are possible.

### Stream2Packet

A byte is its position in the stream, a packet the pair of positions at which
it began and ended. `Start` gives the position of each message, so `Probed`, the
look at the header, knows the length only when a message really begins at
`offset`: were the code to look anywhere else, nothing would be found and
`PacketIsMessage` or `NothingDeliverableLeft` would fail. `buffer()` and
`length()` are arguments of one call of `recv()`; both orders of evaluation are
allowed.

### OrbCalls

One step is one run of `socketRcvd()` with every coroutine it resumes. A
servant may return, throw one of five kinds of exception (a user exception, a
system exception the caller knows or does not know, another `std::exception`,
anything else), suspend, or call the other end. `"other"`, which is logged and
not answered, is also what leaves `_dispatch()` or the `send()` of the reply. A
servant that throws before it has suspended is answered from inside
`socketRcvd()`. One that throws later runs the error lambda with captured
references to locals that are gone (`ThrowsLate`): the process crashes, or
nothing is sent, or an error reply with any id is sent. `call` and `did` record
what the caller got and what the servant did; `wire` is a queue in each
direction.

The properties hold through all of this as far as they can: the contract is
kept until a servant has thrown late, and afterwards no call is settled twice
(`SettledStays`); every caller is answered unless some servant was not
answered for.

### BiDirPool

`pool` is the server's set of connections in the order of creation; nothing
removes one. `didSend` is the client's flag, `stub` the connection the server's
stub for a client's object uses, `passed` the socket over which the reference
came last, `reached` who read the last call-back. All clients have one address,
as behind a NAT. A client that listens under the address the server sees is
never renamed (`Renamed` needs host and port to differ); it is connected to
instead. `Reset` is the loss both ends notice: of the requests in `outbox` the first
few, which the kernel had taken, are gone with the socket, the others are still in
`sendBuffer`. An end of file alone is not noticed by either (see
`ClosedEndsCalls`). The clients' own pools are left out:
each has one connection to the server.

### WsConnection

The client's connection and the one the server makes in `accept()`, because the
upgrade is a conversation of two state machines: `wsstate` says which protocol
each end speaks, `headers` how much of the HTTP header it has read. `sendBuffer`
holds what is issued before the upgrade, `queued` is wslay's own queue after it,
`wire` what is between the ends. A header travels in two parts, so that it may
be read in portions. `serving` and `executed` are requests the server has
received and not yet answered, and has received at all.

wslay is external: `wslay_event_send()` gives the kernel some or all of its
queue, and is modelled at the places the code calls it. The code's own
peculiarities are kept: `canWrite()` becomes ESTABLISHED when it has sent the
GET, before it knows that the attempt succeeded; the timer is never stopped;
end of file and failed reads change nothing; an exception in `canWrite()` leaves
the event loop. Three things end a behaviour (`ended`): such an exception
(`"thrown"`), `ev_io_init()` on a write watcher that is still active on an older
descriptor (`"corrupt"`), and a message for a wslay context that is not
initialised yet (`"undefined"`). What the program does afterwards is not modelled.

### GiopMessage

The encoder's work is a list of fields, `todo`, that `encodeRequest`,
`writeReference` and their like lay down; a step writes the first one into
`data` as `CDREncoder` does, with alignment, `reserve()`, `sizeStack` and the
header patched in at the end. An object is a field like others, which
`writeObject` turns into the fields of a reference or of a null pointer.
`readObject` has both of its outcomes, but the one for the tag 0 never happens: this
encoder writes null as a reference with an empty type id.
`Deliver` hands the buffer over; then `todo` is what the decoder will read, which
grows as it learns the version, the type and the number of contexts and profiles
from what it has read; `Loop` is one turn of the code's loops over them. `got`
collects the values.

A number is `width` octets `<<value, place>>`; reading puts them together in the
byte order of the message and gives `Garbage` for any other mix. So a field read
at a wrong place, or in the wrong order, cannot pass by chance, and a float
swapped after its conversion (`cdr.cc:231`) is garbage. Strings and blobs are
their lengths. `msg` is chosen once and every behaviour is then determined. The
ports 2809 and 2810 and the length 9 of a class name are arbitrary.

### ObjectAdapter, Url, References

`servants`, `servantIdCounter`, `namingService` and `name2Object` are the tables
of each ORB; `orb` and `objectKey` the members of each skeleton, which
`activate_object_with_id()` overwrites even when `emplace()` leaves the table as
it is. `ref` is one reference of the many that clients may have: it is written
by `writeReference()` for a skeleton that a servant returns or that is resolved,
and again, with another address, when a client passes its stub on
(`PassStub`). `by`, `meant`, `life` and `proper` are history: where and for
whom it was written, when, and whether it led there. `use` is the history of a
skeleton; it separates what applications may rely on from what they do to
themselves by activating one skeleton twice or choosing a key that is taken.

A URL is a sequence of tokens; the parser walks over positions and backtracks as
`UrlParser` does. `References` holds what it is compared with: URLs in parts
(`Forms`), how they are written (`Written`) and what they say (`Meant...`). The
traps of the grammar are in `Forms`: hosts that begin like a version
(`127.0.0.1`, `2.com`), labels that may be empty, and keys and names with dots. So are
`Malformed` addresses, with a port that goes on with letters (`9003a`) or a `[`
that is not closed, of which only is claimed that the addresses before them are read
(`Recognised`), and numbers too large for their field (a port of 70000, a major
version of 300), which are cut to it; a number of more than 32 bits, for which
`number()` returns an uninitialised value, is not in `Forms`. The count that
`uri()` hands to `substr()` is too large by `start`. It is harmless behind `#`,
where the URL ends, and even makes names with dots work; behind `/` it takes the
name into the key. `Understood` says exactly that where a name follows a key, so
`DecodeIsMeaning` does not call this count wrong: it says that it does no other
damage, and `LookupFindsNamed` is about lookups that succeed, which those URLs do not.

`stringToObject()` meets `ObjectAdapter` in `Resolve`: the ORB at the first
address looks for the name service under the URL's key. Every lookup in the
model is one remote call, which `OrbCalls` is about.

## 3. Runs

| Run | Properties | Bounds | States |
|---|---|---|---|
| `TcpSafety` | `TypeOK DescriptorIsServed RunningTimerIsKnown FifoLossless ImplementsContract` | the whole environment, 4 requests, 2 callers, 2 sockets, 2 chunks | 549,000 |
| `TcpProgress` | `IdleWaiterIsDrained TimedAttemptEnds QueueIsFlushed LoneCallCompletes` | oneway, accept, slow, refuse, spurious; 3 requests, 2 callers, 3 sockets, 2 chunks | 24,000 |
| `StreamPackets` | `TypeOK InBounds PacketIsMessage NothingDeliverableLeft WasteOnlyBeforeShortTail AllDelivered` | messages of 16, 12, 17, 40, 16 bytes; buffer step 13 | 1,600 |
| `OrbNested` | `TypeOK WaitingIsUnderway OutcomeIsServants NestedIsOpen ImplementsContract EveryCallAnswered` | 2 requests per end; oneway, missing objects, suspended and nested servants, user exceptions, anything else, one late throw | 300,000 |
| `WsUpgrade` | `TypeOK UpgradeBeforeFrames NothingLost ImplementsContract LoneCallCompletes` | the whole environment, 4 requests, 2 callers, 2 sockets | 182,000 |
| `GiopRoundTrip` | `TypeOK FrameMatchesHeader RoundTrip ReadsInside EncapsulationHolds` | 3 versions, 2 byte orders, keys of 0, 1, 4, operations of 1 to 4, hosts of 1, 2 octets, 8 lists of arguments | 239,000 |
| `BiDirClients` | `TypeOK CallBackReachesOwner NameIsUnique FirstSocketIsBidirectional` | 4 clients (two anonymous, one listening by name, one by address), 3 connections, 2 requests under way each | 2,900,000 |
| `ReferenceUse` | `TypeOK ReferenceStaysRight ProperUseIsReachable DecodeIsMeaning LookupFindsNamed` | 2 ORBs: one makes 2 keys and is shut down once, the other makes 1; 2 skeletons; `OID:2` as the key of applications; 1 name; 8 lookups; 1,380 URLs | 167,000 |

Why these bounds are enough. Two sockets are what an event, a watcher or a queue
needs to outlive one and meet the next; a third covers a loss during the
retry. Two waiting callers and a third request let one caller be failed, call
again and be met by the same loop while another waits. Two chunks give a
message its middle. The messages of `StreamPackets` lie around 12 and 16, the
two sizes `message()` decides by, and 13 is smaller than a probe and larger than
a header. Two requests per end allow a nested call in both directions with
equal ids at once. The operations of `GiopRoundTrip` end at every
residue modulo 4, keys and hosts both aligned and not, and the lists of arguments put types of every width behind each other. Two keys of an ORB and one shutdown of
`ReferenceUse` let a key be asked for in the life after the one it was made
in, and a skeleton be activated again under either kind of key; the second ORB is
there for skeletons and stubs that go astray, and `OID:2` for a name an
application takes before `activate_object()` reaches it. `ref` changes at most
once before it is passed on, which is enough for a property of single
references. `decodeURI()` alone is tried only in the initial state, for it
depends on nothing else. Bounds end behaviours, hence `CHECK_DEADLOCK FALSE`.

Each of these properties has a mutant of the code (`<Operator>_<Slip>`, beside
the operator it replaces) that it rejects.

Runs that show a disagreement between the code and a comment or test:

| Run | Violated | What happens |
|---|---|---|
| `TcpSecondCaller` | `EveryCallCompletes` | a call made in INPROGRESS after `canWrite()` has emptied the queue is queued and never sent: `send()` starts the write handler only in ESTABLISHED |
| `TcpEof` | `ClosedEndsCalls` | `recv()` returning 0 is ignored; callers wait for ever |
| `WsEarlyCall` | `EveryCallCompletes` | a second call between the GET and its response is given to wslay through a context that is initialised only by the response |
| `BiDirReconnect` | `PassedReferenceIsReachable` | the client's name is sent once per connection, not per socket, so after a reconnect the server calls a connection that has no socket |

Seen while modelling, without a run of their own: after a failed `connect_to()`
the connection is PENDING, in which `send()` neither connects nor throws; after
a timeout the write watcher is still in libev's list when `up()` initialises it
again, in both transports (`loopDead`, `ended = "corrupt"`); a servant that
throws after suspension runs a lambda with dead references and may not be
answered; `WsConnection::canWrite()` throws out of the event loop when an
attempt was refused; a socket that is reset between a write event and its `canWrite()` is
closed without anybody resuming its callers (`IdleWaiterIsDrained` without its
hypothesis); floats and sequences from a peer of the other byte
order are garbled (`cdr.cc:227-307`); a null reference is written as an empty
type id, which `readObject()` does not read as null; requests stay queued in IDLE
(`connection.hh:30` says there is no need for a connection then); the draining
loop fails callers that called again on a new attempt; `timer()` leaves
`timer_active` set, so attempts after the first timeout are not timed; TIMEOUT
and TRANSIENT carry completion status NO although the peer may have executed
the request (`lifecycle.spec.cc:473` expects YES); `NO_RESOURCES` is not among
the ids `_twowayCall` maps and arrives as `runtime_error`; a servant that throws
something that is not a `std::exception` is never answered; a 12-byte message
waits in the buffer until four more bytes arrive; a `corbaname` with both a key
and a name is read with a key that contains the name, so it never finds the name
service, and `CorbaName::str()` writes just such URLs; a stub is written with the
address of the connection it is sent on (`giop.cc:79`), so passed to a third ORB
it leads to whatever has its key there; `bind()` takes a skeleton that belongs
to another ORB, or to the life before a shutdown, as activated, and
`resolve()` then returns a reference that leads nowhere or elsewhere.

## 4. Fairness

- `TcpConnection`: weak fairness of `Poll`, `CanWrite`, `CanRead` and
  `DrainStep`, because the loop runs and runs what it has fetched, and of
  `Timer`, because the one-second timer expires. Strong fairness of a read that
  takes all of `inbox`: every read takes a positive number of bytes of a
  finite message, so a message cannot be read in parts for ever. Weak fairness
  of `ConnectEnds` and `Peer`: the kernel decides every attempt and the peer
  answers what it received. The events of `Environment` (refusals, resets, end
  of file, accepts, spurious events) and the application's calls are never forced; `slow` only
  decides whether the timer can beat the network.
- `Stream2Packet`: the loop of `canRead()` is a plain loop, hence weakly fair;
  the peer goes on sending.
- `WsConnection`: weak fairness of the callbacks and of fetching events, for the
  loop runs; of the timer, of accepting and of the kernel's decision on an
  attempt; and of the server's answers as a whole. Nothing is assumed of a send
  buffer that is full: it may stay full, and `LoneCallCompletes` excepts it.
- `OrbCalls`: what is sent is received. A servant suspended for something other
  than a reply ends eventually (strong fairness of `Ends` per request), which is
  an assumption about applications: without it no ORB answers. Nothing is assumed
  of nested calls.
- `BiDirPool`, `GiopMessage` and `References` have no liveness property and no
  fairness.

## 5. Proofs

The bounds of the models (requests, callers, sockets, chunks, clients, ORBs,
skeletons, keys) are constants, so the theorems hold for any number of each, and,
where a module has an `Environment` or `Behaviours`, for any choice of what the
network and the servants may do. The assumptions are the named `ASSUME`s of the
modules: bounds are natural numbers (`ConstantsAssumption`), messages have at
least 12 bytes (`StreamAssumption`), ORBs have different addresses, there are
finitely many numerals and all differ, `activate_object()` makes no key that is the
name service's, and "none" and the name service are no skeletons, ORBs or keys
of the model (`AdapterAssumption`); applications may pass any key, that of the name
service included. URLs are written in labels of which those made of digits have
different values, and only other labels begin with digits and go on
(`UrlAssumption`); those that are looked up are among those that are decoded
(`LookupsAssumption`). For `GiopMessage` the assumption says that
versions are 1.0 to 1.2, lengths are natural numbers and arguments are lists of
fields that a stub can write (`ConstantsAssumption`). One theorem, `IdleWaitersAreDrained`, has a
hypothesis of its own.

Nearly none of the properties is inductive. Each proof module has an invariant
that is, a lemma for each action that says that it is preserved, and the theorems
that follow from it.

`TcpConnectionProofs`

| Theorem | Statement |
|---|---|
| `TypeCorrect` | `Spec => []TypeOK` |
| `RequestsLeaveInOrder` | `Spec => []FifoLossless`: the requests taken by the kernel followed by `sendBuffer` are all requests ever made, in order |
| `DescriptorIsConsistent` | `Spec => []DescriptorIsServed`, which is `FdMatchesState /\ OpenSocketIsRead` |
| `TimerFlagIsSound` | `Spec => []RunningTimerIsKnown` |
| `ConnectionImplementsContract` | `Spec => ImplementsContract` |
| `IdleWaitersAreDrained` | `"reset" \notin Environment => (Spec => []IdleWaiterIsDrained)` |

`IInv` is the conjunction of the first four with `BadWatchIsClosed`: when libev
holds a write watcher that was started on a closed descriptor, there is still no
descriptor. Without it the error events of such a watcher could stop the read
watcher of an open socket and break `OpenSocketIsRead`. `FdMatchesState` is what
makes `up()` start from no descriptor in IDLE. `FifoLossless` needs `TypeOK` and
arithmetic on the numbering of the ids: `TakePrefix` and its sister lemmas about
numbered sequences stand first and know nothing of the state.

For the contract `RInv` adds that only requests the peer received whole are
answered (`AnswersAreDelivered`) and that exactly the ids below `requestId` are in
use. Every step is then one of `Settles` (calls make legal moves, replies only of
delivered requests) or `Executes` (the peer receives requests later than all
before), which are the two actions of `CallContract`.

`IdleWaitersAreDrained` is about a division of labour that is written nowhere:
`canWrite()` closes the socket of a failed attempt without resuming anybody,
because libev reports the failure for reading, too, and `canRead()` comes next
(`AttemptIsRead`). That canRead() does come next, and not first, is due to `up()`
having started the write watcher first (`AttemptWritesFirst`). Write events left from an older
socket would close the new attempt with no read event due; that only the timer
leaves such events (`LateWriteIsTimed`) is the reason for the exception of a timer
that has fired. The hypothesis is needed: a socket that is reset after
a write event was fetched for it is closed by `canWrite()`, no `canRead()` is due,
and its callers wait for ever. TLC finds that in six steps.

`Stream2PacketProofs`

| Theorem | Statement |
|---|---|
| `BufferIsSafe` | `Spec => [](TypeOK /\ InBounds)`: no access outside the allocation, no unsigned wrap |
| `FramingIsExact` | `Spec => []PacketIsMessage` |
| `NothingIsWithheld` | `Spec => []NothingDeliverableLeft` |
| `FrontIsUsed` | `Spec => []WasteOnlyBeforeShortTail` |

The strengthening says that `offset` always stands at the beginning of the next
message (`AtMessage`), that a known `messageSize` is the length of that message
(`SizeIsLength`) and that `offset` and `size` meet only at 0 (`EmptyIsReset`).

`OrbCallsProofs`

| Theorem | Statement |
|---|---|
| `TypeCorrect` | `Spec => []TypeOK` |
| `WaitingCallsAreUnderway` | `Spec => []WaitingIsUnderway`: the request, the servant or the reply of each waiting caller exists, exactly once |
| `OutcomesAreServants` | `Spec => []OutcomeIsServants` |
| `NestedCallsAreOpen` | `Spec => []NestedIsOpen` |
| `OrbsImplementContract` | `Spec => ImplementsContract`, including `SettledStays` after a late throw |

The invariant describes one direction at a time, the calls of `s`. `Always(s)`
holds whatever servants do: ids below `requestId` are in use, requests on the
wire are in the order of their ids and later than all that were received, and no
two servants run for one id. `WhileIntact(s)` ends with a late throw: calls under
way are open, every reply on the wire is what the servant of that id did and the
only one, and `did` says in which of the three places a request is. A step
moves one side, and is seen from both directions: as `CallerMoves` (that side may
have made a call and have got a reply) and as `ServantMoves` (it may
have run one servant). Lemmas named `...Moves` show that the actions are such
steps, and `CallerKeeps...` and `ServantKeeps...` that such steps preserve the
two parts of the invariant.

`BiDirPoolProofs`

| Theorem | Statement |
|---|---|
| `TypeCorrect` | `Spec => []TypeOK` |
| `CallBackIsPrivate` | `Spec => []CallBackReachesOwner` |
| `FindIsDetermined` | `Spec => []NameIsUnique` |
| `FirstSocketIsUsed` | `Spec => []FirstSocketIsBidirectional` |

Renaming a connection is safe because it happens once per client: the context is
in the first request a client ever makes (`ContextComesFirst`), until that is
handled nothing has the client's name (`FirstRequestIsFirst`), and afterwards only
connections to that client do (`NameIsOwners`). The same fact is
behind the violation of `BiDirReconnect`: the name does not follow the client to
its next socket.

`WsConnectionProofs` and `WsContractProofs`

| Theorem | Statement |
|---|---|
| `TypeCorrect` | `Spec => []TypeOK` |
| `UpgradeComesFirst` | `Spec => []UpgradeBeforeFrames` |
| `ConnectionImplementsContract` | `Spec => ImplementsContract` |
| `NothingIsLost` | `Spec => []NothingLost` |

`Handshake` (in `HInv`) says in which combinations the two ends and the two wires
can be: the GET is sent once per socket (`GetIsSentOnce`), which depends on when
the write watcher can fire at all, the response follows the GET
(`ResponseFollowsGet`), and before the response there are no frames
(`NoFramesYet`). The second module joins `sendBuffer`, wslay's queue and
the wire of a direction to one sequence (`Chain`), which moving messages along
leaves as it is. `FInv` says that the chain to the server holds the requests
issued and not yet executed, in order (`OutgoingInOrder`), and the one to the
client each reply once (`IncomingOnce`), as long as no upgraded socket fails; what
the contract needs after that, `FramesInOrder` and `AnswersAreExecuted`, always
holds.

`GiopMessageProofs`

| Theorem | Statement |
|---|---|
| `TypeCorrect` | `Spec => []TypeOK`: encapsulations nest two deep, and every one that is entered is left |
| `FrameIsExact` | `Spec => []FrameMatchesHeader`: the size in the header is the length of the message |
| `AlignIsLeast` | `Align(at, width)` is the least multiple of `width` that is not below `at` |

A message is a list of fields of any length, so the invariant speaks of the
work ahead. `Goes` says which field may take encoder or decoder from one place to
another, a place being a depth of encapsulations and the last marker passed, and
`Leads` says that a list of fields does: `todo` always leads from where they are
to the end of the message. Each piece of a message that
`writeReference()`, `writeServiceContext()` and the three headers lay down
leads from where it begins to where the next piece begins (the `...Part` lemmas),
arguments of any number from one marker back to the same (`ArgumentsPart`), and a step
that writes a field and drops it from the list leads on. `Where` says what holds at each
marker. Nothing is counted and no induction over the message is needed.

The frame is exact for two reasons. Until `setGIOPHeader()` the memory is not
longer than `offset`, and `setGIOPHeader()` reserves up to `offset`, so
the length in the header is that of the vector even when the last octets were
only skipped (`align8` in `encodeRequest()`, a reply without results). Afterwards a reply gets its second
header, which must not make the vector longer: it ends within the 24 octets
that `socketRcvd()` skipped before the results, in every version (`Frame`). Nothing is
written below octet 12 but the GIOP header itself.

`ObjectAdapterProofs`

| Theorem | Statement |
|---|---|
| `TypeCorrect` | `Spec => []TypeOK` |
| `ReferencesStayRight` | `Spec => []ReferenceStaysRight` |
| `ProperUseStays` | `Spec => []ProperUseIsReachable` |
| `LookupsAreSafe` | `ReferencesSpec => [](TypeOK /\ ReferenceStaysRight /\ ProperUseIsReachable)` |
| `TakenStaysTaken` | `ReferencesSpec => [][EntriesStay]_referenceVars`: only a shutdown takes a key or a name from its servant, and no counter goes back |

A key that no application passes is in a table only if `activate_object()` has
made it (`KeysAreKnown`), the counter goes on through a shutdown, and so no key is
made twice; tables only grow within one life of an ORB (`Grown`). `LookupsAreSafe`
carries this over to `References`, where clients look objects up by URL:
`stringToObject()` only does what `resolve()` does, whatever `decodeURI()` returns.

Not proved, and only model-checked:

- all liveness (`TimedAttemptEnds`, `QueueIsFlushed`, `LoneCallCompletes`,
  `AllDelivered`, `EveryCallAnswered`): it rests on fairness, hence on ENABLED,
  which the prover does not handle;
- `RoundTrip`, `ReadsInside` and `EncapsulationHolds` of `GiopMessage`. They relate
  what the decoder finds at each octet to what the encoder wrote there many
  steps earlier, for a message of any number of fields; `Meaning` is itself
  put together by recursion. That takes induction over the message;
- `DecodeIsMeaning` and `LookupFindsNamed`: what the parser of `Url` returns for
  a URL of any length is recursion over data. TLC compares all of `Forms`.

## 6. Not modelled

- Contents, outside `GiopMessage`: a message is its id, kind and outcome, or its
  length. Characters of strings, everywhere.
- Malformed GIOP messages and what the decoder throws for them, the tags of value
  types included, which this ORB does not write either, and
  `LOCATE_REQUEST`s, which this ORB does not write.
- WebSocket: the keys of the upgrade, a request that is rejected (the peer is
  this code and sends what is asked for), requests of the server, the peer's
  close frames, and what follows undefined behaviour.
- What is left in `stream2packet` when a socket is lost in the middle of a
  message, which the next socket's bytes then follow.
- Other connections that are given the descriptor number of a closed one.
- `LOCATE_REQUEST` and `MESSAGE_ERROR`, which keep no state, and
  `installSystemExceptionHandler`, whose handlers run on COMM_FAILURE only.
- The destructor of a connection.
- What stubs do after `shutdown()` has deleted the protocols their connections
  point to, which is undefined, and the C++ lifetimes of servants.
- Escapes in URLs (`%xx`), `IOR:` strings with their hexadecimal digits, for which
  `stringToObject()` returns the reference itself, numbers of more than 32 bits, and
  URLs whose last part is longer than everything before it, for which the
  count of `uri()` would end inside that part.
- The wrap of `requestId` after 2^31 calls: what `interlock` does with a key that
  is already there is up to the coroutine library.
- The logger, which only writes.
- Generated stubs and skeletons and the coroutine library are outside `src/`.

## 7. Plan

Done: `CallContract`, `TcpConnection`, `Stream2Packet`, `OrbCalls`, `BiDirPool`,
`WsConnection`, `GiopMessage`, in this order, the order of what an application
notices first, then `ObjectAdapter`, `Url` and `References`; the proofs of all
their safety properties but what a message of `GiopMessage` and a URL are read as; and that
`TcpConnection`, `WsConnection` and `OrbCalls` implement `CallContract`.

Left to model, should the code come to handle it: a socket lost in the middle of
a message, upgrades that are rejected, and the shutdown of an ORB with stubs.
