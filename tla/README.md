# mgsacs in TLA+

mgsacs is a small game server in the form of a chat system: a talk server and
a talk client that call each other over Apache Thrift on top of boost::asio.
This directory holds TLA+ models of both programs and of the code generated for
their interface, the TLC runs that check them, and proofs about the server, alone
and with the clients, about the client, and about the generated concurrent clients.

Paths below are relative to `src/source/`.

## The system

| part | source | state | operations |
|---|---|---|---|
| transport | `include/thrift_asio_transport.hpp` | socket, `incomming_bytes_`, `outbound_messages_` | `open`, `close`, `write`, `read`, the handlers of receive and write |
| client transport | `include/thrift_asio_client_transport.hpp` | host, resolver | `open` (resolve, connect), `connect_to` |
| client | `include/thrift_asio_client.hpp` | transport, protocols, `reconnect_timer` | `update`, `reconnect_in` |
| client program | `talkClient/talkClient.cpp` | `stdin_`, `input_buffer_` | `read_username`, `read_message`, one handler for each call of the server |
| server | `include/thrift_asio_server.hpp` | none of its own: what is outstanding lives in the handlers | `serve`, `start_accept`, `on_accept`, `read_frame_size`, `read_frame_data` |
| connection management | `include/thrift_asio_connection_management_mixin.hpp` | `clients_`, `current_client_` | `on_client_connected`, `on_client_disconnected`, `before_process`, `after_process` |
| server program | `talkServer/talkServer.cpp` | `user_name` of each session | `getVersion`, `setUserName`, `subscribe`, `unsubscribe`, `postShip` |
| interface | `thrift/talker.thrift`, `thrift/gen-cpp/` | none | dispatch by method name, serialization |

Each program is one thread that polls an `io_service`.  Handlers never run at
the same time, and what makes the programs hard is not threads but the order of
handlers: a read and a write of the same connection fail in either order, a
completion is queued before and handled after a `close()`, other connections
have their turn between two reads of one frame, and the client's `read()` runs
handlers of its own in the middle of a frame.

What makes each part correct:

- transport: nothing is lost, repeated or overtaken in the list; one write at a time;
- server: each accepted connection has one chain of reads, which ends once;
  accepting goes on; dead peers are noticed;
- connection management: the map holds the connections whose chain runs, and
  `current_client_` is the caller;
- server program: names are unique, posts reach everybody else once, under the
  author's name and in one common order; callers are answered;
- interface: handlers are called with what the caller meant, whatever version of
  the interface it has; what is forwarded is what came in;
- client: exactly one attempt to connect, and it comes back after a crash; the
  dialogue with the user goes on; every frame is processed;
- both programs together: what is called on a connection is processed and
  answered on that connection, and no other, however often connections are lost
  and made again.

### The code as committed

The repository does not build at this commit, and the models read what is
evidently meant:

- `main` of the server names `chat_server_handler` and `example::chat`
  (talkServer.cpp:103-109), which are not declared; the model takes
  `talkServer_handler` and the processor of service talkServer;
- `KIWI_VERSION` (talkServer.cpp:34) is not in scope; `on_setUserName_succeeded`
  is called without its argument (:47);
- `session` has no `on_subscribe_succeeded` or `on_unsubscribe_succeeded`
  (:53, :60); the model sends one answer under the name the code uses;
- the client connects to port 1528, the server listens on 19999; the model
  connects them.

## Modules

| module | what it is |
|---|---|
| `WriteQueue` | the list `outbound_messages_` as operators: `PushBack`, `Consolidate`, `PopFront`. Used by server and client |
| `TalkServer` | the server program with everything below it, and its peers |
| `TalkServerProps` | what is claimed of `TalkServer`, and the mapping to `ChatRoom` |
| `ChatRoom` | the abstract specification: what the server promises |
| `MCTalkServer` | instances for TLC: the sets of calls |
| `ClientProcess` | the process of the client as a record, and every handler as an operator on it. Extends `WriteQueue`; has no variables |
| `TalkClient` | one client process, its reactor, its terminal and a server that may crash |
| `TalkClientProps` | what is claimed of `TalkClient` |
| `TalkSystem`, `MCTalkSystem` | client processes as the peers of `TalkServer`: extends `TalkServer` and `ClientProcess`; and what is claimed of both |
| `ThriftCall` | one call of the generated code: dispatch, `read()`, `skip()`, `write()`; and what is claimed of it |
| `ConcurrentClient` | threads that share a generated client, and the program at the other end, which is `ThriftCall`; and what is claimed of it |
| `MCThriftCall` | what a message means, as a tree, and the messages of an instance |
| `WriteQueueProofs`, `TalkServerProofs`, `ChatRoomProofs`, `ConversationProofs`, `ClientProcessProofs`, `TalkClientProofs`, `TalkSystemProofs`, `ConcurrentClientProofs` | lemmas and theorems; `ClientProcessProofs` has what one client process does by itself, for both modules that have clients |

Operators whose comment begins with "Seeded fault" are not part of the models.
Each is a definition of the model with a plausible bug, and shows that a
property can fail: with it in place of the definition, TLC reports the property
violated.  `PROJECT.json` lists which fault goes with which property.

### TalkServer

A connection is in one of five phases: `idle`, `backlog` (in the listen queue),
`size` and `data` (its chain of reads waits in `read_frame_size` or
`read_frame_data`) and `gone`.  The outcome of its outstanding read and of its
outstanding write is `pending` until the reactor knows it; then the handler is
queued, and may run at any later point.  Each `On...` action is one whole
handler:

| action | code |
|---|---|
| `Accept`, `AcceptError` | the handler in `start_accept`, with `on_accept`, `on_client_connected` and the next `start_accept` |
| `OnFrameSize` | the handler in `read_frame_size` |
| `OnFrameData` | the handler in `read_frame_data`: `before_process`, the call, `after_process`, the next read |
| `OnReadError` | either handler with an error: `on_client_disconnected` |
| `OnWriteOk`, `OnWriteError` | the handler in `async_write_one` |

`Connect`, `PeerDown`, `PeerVanishes`, `FrameSizeArrives`, `FrameDataArrives`,
`ReadFails`, `WriteSucceeds`, `WriteFails` and `TimesOut` are the peers, TCP and
the reactor of boost::asio.
A frame is one message, and what a peer calls is chosen when its handler runs.
A ship is told apart by its author and the number of the call.  `requests`,
`sent` and `delivered` are history variables; no guard of the code's handlers
reads them except that the number of a call names its ship.

The order in which `setUserName` walks through the map is that of addresses:
any session that has the name may be found first.  `FdsInUse` says which
sockets something still owns (the chain of reads and the map, a write, or
`current_client_`); an accept fails when there are `MaxFds` of them.  Some
kernels report that only when a peer waits, some at once, so `AcceptError`
does not require one.

A peer goes by closing or resetting its connection (`PeerDown`), which the
outstanding read notices, or its host or the network goes down (`PeerVanishes`):
then nothing is noticed until TCP gives up sending something again (`TimesOut`),
for the server has no timeout of its own and asks for no keep-alive.  A
half-closed connection is not modelled.

### ChatRoom

Clients enter once and leave once; a name is granted only if no member has it;
a post is said, at one instant, to every other member under the name its author
has then; every client hears a prefix of what was said to it.  `TalkServerProps`
maps the map of sessions to membership, `user_name` to names, `sent` to what is
said and `delivered` to what is heard.

### ClientProcess and TalkClient

The state of the process is one record (`client`), and a handler is a function
from record to record, so that nested calls (`on_error` from `close` from
`on_receive`) compose as they do in the code.  `ready` is the queue of handlers
that are ready, in order; `RunHandler` runs the first.  After each handler of
the outer loop comes `update()`: if there are bytes, `read()` takes a frame.  A
frame is two pieces, so it may be cut anywhere in the sense that matters: `read()`
with one piece runs other handlers (`loop = "read"`) until there is another.
Two behaviours the language leaves undefined, or that leave the protocol, stop
the model and are recorded in `failure`: `pop_front()` on an empty list, and a
frame put together from two.

The environment resolves, connects, delivers some of the pieces, fails, types
lines, crashes the server and starts it.  A read of the terminal that was
started while another one was outstanding shares its buffer, and may find any line.

The server this client talks to leaves open which names other clients have, and
does with the rest what `setUserName` and `postShip` do: it grants a name
(`NameGranted`); refuses the client the name it has itself (`NameIsOwn`); answers it
nothing when somebody else has the name (`NameIsTaken`); and sends it a refusal
it did not ask for, at any time, when somebody else asks for its name (`NameIsWanted`).
`refusals` and `unanswered` count the last two, for the properties.

`ConnectTo` is a call of `connect_to` by the program, between handlers; neither
program has one, but it is an operation of the class.  `update_one`, errors of
`cancel()` and the end of standard input are left out.

### TalkSystem

`TalkSystem` puts `TalkServer` and several processes of `ClientProcess` together.
The variables of `TalkServer` are those of the server and of the connections; a
client's handler that closes its socket is a `PeerDown` of the connection, its
`ConnectSucceeds` a `Connect`, and `ReceiveSucceeds` takes from `delivered` what
TCP brought.  The server processes what is written on a connection and nothing
else (`ProcessFrame`), where `TalkServer` by itself has peers that call anything.
Hence every behaviour of the system is one of `TalkServer` (theorem
`ClientsArePeers`).  Frames arrive whole here and names resolve; the server does not
crash, but connections are reset, by the network or because a client closes its
socket, and the client comes back on another.

`asked` and `heard` record, for each connection, what a client called while
that was its connection, and what it dispatched.  `stray` records that a call was
made while there was no connection, and `blank` whose user has entered an empty line.

### ThriftCall and ConcurrentClient

The generated `read()` of every structure is the same loop with other fields, so
the module has the fields as data (`ServerArgs`, `ClientArgs`, `Ship`,
`Location`) and the loop once.  A frame is a sequence of tokens, one for each
field and one for the end of each structure:

| action | code |
|---|---|
| `DispatchKnown`, `DispatchUnknown`, `UnknownSkipped` | `dispatchCall` |
| `ReadField` | the case of a field of a base type |
| `ReadStruct` | the case of `ship` and of `loc`: a nested `read()` begins |
| `SkipField`, `Skip` | `skip()`, which goes through structures nobody knows |
| `StructEnds` | the stop field: the outer `read()` goes on, or the handler is called |
| `StructThrows` | a required field was not read: `TProtocolException` |
| `Forward` | `postShip` of the server writes what it read to another client |

The peer may have another version of `talker.thrift`; in the runs its frames are well
formed and have no field twice.  `MCThriftCall` has the messages as trees and says by
recursion over the tree, with no loop and no flags, what a structure must hold
to be accepted and what it means.

The generated `send_` functions are alike for every call.  In `ConcurrentClient`
threads run them, one token at a time, into the buffer of one framed transport;
`SendStarts` has the sentry's lock and `Commit` its destructor.  Without threads
(a script for one of them) this is the plain client, `talkServerClient` or
`talkClientClient`.  What is flushed is processed by `ThriftCall`.

## Runs

| run | bounds | shows |
|---|---|---|
| `chat` | 3 connections, 2 frames, symmetric; post, one name, unsubscribe | `TypeOK`, `ChainIffRegistered`, `UniqueNames`, `OneConversation`, `NoEcho`, `Attribution`; `ImplementsRoom`: the server implements `ChatRoom` |
| `pair` | 2 connections, 3 frames, symmetric; every call but unsubscribe, and the empty name | `WriteMatchesQueue`, `StreamIntegrity`, `AnswersInOrder`, `GoneIsFinal` |
| `live` | 3 connections, 2 frames, 2 descriptors, 1 silent peer; posts | `DeadClientsReaped`, `EverythingDelivered`, `EveryoneAccepted` |
| `client` | 3 events, each a crash, a line (empty or not) or (once) a `connect_to`; 1 ship, 1 refusal not asked for, 4 outstanding reads of the terminal | `TypeOK`, `SingleAttempt`, `AlwaysEngaged`, `DialogueNotLost`, `OrderlyWithoutCrash`, `ReconnectsUndisturbed`, `EverythingProcessed` |
| `system` | 2 clients, 2 connections, 1 name, 3 lines (the name, or empty), 3 frames, 1 reset | `SysTypeOK`, `NothingStale`, `DialoguesConserved`, `Served` |
| `codec` | one thread: every ship with all optional fields or one, changed twice; every location in it changed twice; arguments and calls with other names changed once. Two threads: two calls each, on either client | `TypeOK`, `CalledWithWhatWasMeant`, `FrameConsumed`, `ForwardedUnchanged`, `NothingUnread`, `FramesWhole`, `CallsInOrder` |
| `stale`, `refusal`, `acceptor`, `livelock`, `poplist`, `moves` | small | disagreements, see below |

Deadlock is not checked: the peers need not do anything, the bounds on frames,
crashes and lines are reached, and a program that crashed takes no further call.

Why the bounds are enough.  Three connections are an author and two listeners,
or two that compete and a third that joins; two frames are two posts of one or
two authors, or a name and a post under it.  Three frames with two connections
put a message in the list behind a string of two, while a write is under way.
Two descriptors for three connections let a third wait for, and be accepted
after, one that leaves.  Two crashes already bring the client back into states
it has been in; one more is checked, and so is every mix of three crashes,
lines and a `connect_to` (`MaxEvents`).  Every connection leaves a read of the
terminal behind; four of them (`MaxReads`) are more than three losses need.  In
`system` the two connections are one for each client, or two of one client:
the one it lost and the next, while the other client waits.  Three lines and three frames are
a name that is granted, one that is refused, and the answer to the prompt which
the refusal causes.  A change of a structure leaves out a field,
adds one (of a base type, or a structure two levels deep whose fields have the
numbers of known ones), changes the type of one, or swaps two; two changes let one
hide what the other did, and an arguments structure, `Ship` and `Location` are all
the depth there is.  The theorems hold for all constants.

What the properties of the dialogue leave out, they name: `OrderlyWithoutCrash` and
`DialogueNotLost` speak of a connection that was not lost, and count a call that
the server does not answer, which is the end of its dialogue; `DialogueNotLost` speaks
of a client that got no refusal it had not asked for and whose user typed no empty
line; and the second half of `DialoguesConserved`, of a system in which no name was
refused, less the clients whose dialogue an empty line has ended.  `EveryoneAccepted` speaks of a peer that does not find all descriptors in use.

Every connection identifier is used once: a peer that comes back is a new
connection, as it is a new socket in the code.

### Fairness

The loops of both mains poll until no handler is ready, for ever, so a handler
that is ready runs, and the reactor completes what can complete: weak fairness
of each.

- `TalkServer`: that the data of a frame whose size came arrives or its read fails,
  and that a string given to the kernel is written or its write fails, assumes peers
  that do not stall for ever in the middle of a frame and read what they are sent.
  A peer that vanished (`silent`) is excepted: its reads and writes stay
  outstanding, and only what TCP has not had acknowledged is timed out
  (`TimesOut`), which TCP does by itself.  No peer is obliged to connect, to call
  or to leave.  Of `AcceptError`, fairness is assumed only when a peer waits.
- `TalkClient`: a second passes if the timer is left alone (`TimeElapses`), as a
  loop with nothing to do only waits.  No user is obliged to type, no server to crash or to be
  started again; the reconnect properties are stated for a server that is up
  for good.
- `TalkSystem`: what is on a connection arrives while it is up, and the handlers of
  both programs run.  `Served` needs no fairness of resolving, connecting, the timer or
  the user, and has none.

### What the code does not do

| run | what a comment says | what TLC finds |
|---|---|---|
| `stale` | `current_client_` is "Only valid while a request is processed." (mixin :94) | it is set by `on_client_connected` (:47) and stays, even after that client is gone |
| `refusal` | `current_client_` is "to respond to the current client" (mixin :22) | `setUserName` sends the refusal to the session that has the name (talkServer.cpp:40); who asked hears nothing |
| `acceptor` | "this will accept new connections without any bounds" (server :124) | after one failed accept (:115) nobody is accepted again |
| `livelock` | "reconnect in seconds seconds" (client :86) | a second error replaces the pending timer, whose abort is an error that replaces the next (:93), and so on |
| `moves` | "close the connection and connect to host_name:service_name" (client :76) | what `connect_to` aborts is an error that sets the timer beside the new attempt; one more error, of that attempt, before the timer expires replaces it, and the timers replace each other as in `livelock` |
| `poplist` | "we've sent it, remove from queue" (transport :160) | a completion handled after `close()` pops from an empty list |

`ThriftCall` shows two ways for a call to end a program.  A frame without a
required field makes `read()` throw, and nothing between it and `main` catches
(server :214): `CalledWithWhatWasMeant` says which frames those are.  A method the
client does not know makes `dispatchCall` use the output protocol, which is null
there (client :63); that is the outcome `crashed`.

Other behaviours the models show, which nothing in the repository contradicts:

- After a crash in the middle of a frame, the client's `read()` goes on with bytes
  of the next connection; after a reconnect two reads of the terminal share
  one buffer, and the dialogue may be lost.  The properties of the client say
  `NeverLost` where that matters, and claim nothing of what the two reads find.  Every
  loss leaves one more read of the terminal behind.
- An empty name is neither taken out of the buffer nor asked for again
  (talkClient.cpp:116).  After an empty message the comment says "start over" (:147),
  but the statement under the test of the empty line (:144) is commented out, so that
  the test governs the next prompt.  Either ends the dialogue; `DialoguesConserved`
  says that, as long as no name is refused, nothing else does.
- A name entered while there is no connection is written to a socket that is
  closed; its error starts a second attempt to connect beside the one under way,
  which cuts off the connection the first has made.  An answer that was received
  on that one and is handled later is dispatched on the next: the `stray` in
  `NothingStale`, which then still says that the server reads from a connection
  what is on it.
- `isOpen()` of the client is true from the start of the connect on.  A call made
  then is written when the connection is there, before the handler of the
  connect has run.
- A refusal reaches the client that holds the name, which is asked for another
  while it is asked for a message: two reads of the terminal at once, without
  any loss.  `DialoguesConserved` counts the dialogue there, and
  `OrderlyWithoutCrash` says that there is one more for each such refusal at most.
- `subscribe` and `unsubscribe` answer and record nothing; ships go to everybody
  ("when a subscribe ship posted by another", talker.thrift:163).

## Proofs

All theorems hold for any sets of connections, clients, names, calls, lines, threads and
scripts, and for any bounds.  The assumptions are those named where the constants
are declared: in `TalkServer`, `Conns` is finite and does not contain `NoClient`,
`NoName` is not a name, and `Calls` are calls of the service; in `ClientProcess`,
`NoText` is not a text; in `ConcurrentClient`, `NoThread` is not a thread, and the
scripts are sequences of calls to one of the two programs whose arguments are
well-formed frames; in `TalkSystem`, there are finitely many clients; and bounds are
natural numbers.  A frame is well formed (`WellFormed`) if each structure in it ends
and the outermost one ends the frame, which is what every `write()` that Thrift
generates does, whatever the version of the interface; fields may be unknown, missing,
repeated or of any type.

| theorem | property |
|---|---|
| `TypeCorrect`, `ChainCorrect`, `NamesCorrect`, `WritesCorrect`, `StreamsCorrect`, `GoneCorrect` | `TypeOK`, `ChainIffRegistered`, `UniqueNames`, `WriteMatchesQueue`, `StreamIntegrity`, `GoneIsFinal` of the server |
| `RoomImplemented` | `ImplementsRoom`: the server implements `ChatRoom` |
| `AttributionCorrect`, `NoEchoCorrect`, `OneConversationCorrect`, `AnswersCorrect` | `Attribution`, `NoEcho`, `OneConversation`, `AnswersInOrder` |
| `ClientTypeCorrect`, `AlwaysEngagedCorrect`, `SingleAttemptCorrect` | `TypeOK`, `AlwaysEngaged`, `SingleAttempt` of the client |
| `OrderlyWithoutCrashCorrect`, `DialogueNotLostCorrect` | `OrderlyWithoutCrash`, `DialogueNotLost` of the client |
| `ClientsArePeers`, `ServerCorrectInSystem` | every behaviour of `TalkSystem` is one of `TalkServer`, so the server's invariants hold there |
| `SystemTypeCorrect`, `NothingStaleCorrect`, `DialoguesConservedCorrect` | `SysTypeOK`, `NothingStale`, `DialoguesConserved` of both programs together |
| `FramesCorrect`, `CallsInOrderCorrect` | `FramesWhole`, `CallsInOrder` of a client that threads share |
| `NothingUnreadCorrect` | `NothingUnread` of the generated `read()`: a handler has only what was sent |
| `FrameConsumedCorrect`, `ForwardedUnchangedCorrect`, `TypeCorrect` | `FrameConsumed`, `ForwardedUnchanged`, `TypeOK` of the generated code |

Server (`TalkServerProofs`).  No invariant but the type invariant is inductive
by itself, so one induction covers them: `IInv` is `TypeOK`, `ChainIffRegistered`,
`UniqueNames`, `WriteMatchesQueue` and `NothingBeforeAccept` (a connection that
was not accepted has a closed socket, no write and no name).  `ChainIffRegistered`
makes `before_process` find the caller, and `NothingBeforeAccept` keeps names
unique when a session is created, since its name is empty.  `NextIInv` has one lemma
for each group of actions (`ReadStep`, `WriteStep`, `AcceptStep`, `ProcessStep`), and
what a call may do to lists and names is `ProcessEffect`, for all five calls.
`StreamIntegrity` is proved on top of `IInv`; what it needs of the list is in
`WriteQueueProofs`: pushing, concatenating and popping change `msgs` and `Rest`
in the way a queue of messages does.

Room (`ChatRoomProofs`).  `RInv` says that a connection has made no more calls than
frames were sent on it (`FramesCounted`), so that the number of a post is within the
room's bound; that nothing was read before the accept; and that a ship bears the
number of a call its author has made (`ShipsNumbered`), so that a post is new to the
room.  Then a call is `Answer`, `Rename`, `Refuse` or `Post` (`CallStep`), an accept and
the end of a chain are its doors (`DoorStep`), and a write that completes is what
is heard (`HearStep`).

Conversation (`ConversationProofs`).  `CInv` is about what is sent: a session's
name is one it asked for (`NamedAsAsked`), a ship names its author so and bears the
number of its post (`ShipsAttributed`), and the numbers of one author's ships go
up in every list, none of them the author's own (`ShipsInOrder`).  `StreamIntegrity`
carries it over to what is received.

`OneConversation` lines up what two clients have by `Rank`, the number of ships
up to a position, so that it can be stated, and proved, without computing the
subsequence of ships.  Its invariant `VInv` is about every pair of lists: ships both
have stand equally far from one another (`SameShips`); since a ship both have, a
registered client was sent all that the other was (`UpToDate`); and two that are both
registered have last been sent the same (`SameEnd`).  A post keeps this since it
appends to the lists of all who are registered but the author, whose ships the pair
leaves out; a client that leaves keeps what it had, which is then the shorter.
`AInv` has the same form: as many answers as calls that are always answered, and the
answer of each rank is that of the call of this rank.

Client (`TalkClientProofs`).  `Engaged` is `AlwaysEngaged` without counting.  Each
operator of `ClientProcess` has a lemma, in the order of their definition: it keeps the
type, and what is under way stays so or leaves an aborted handler (`CloseEffect`).
`HandleEffect` puts them together: the handler of an attempt, once taken from the
queue, starts the next one or sets the timer, and no other handler takes anything
away.  `SingleAttempt` needs to know that a client whose user is silent has nothing
written and no line in its buffer, so that no handler but that of the one
attempt is ever ready (`Sole`); `HandleSole` says that each of these handlers, run when
nothing else is under way, leaves one thing under way.

The dialogue (the second half of `TalkClientProofs`).  `OrderlyWithoutCrash` and
`DialogueNotLost` are about one sum (`Dialogues`): reads of the terminal that are
outstanding or have a line, calls that are not sent or not read, answers that are not
dispatched.  While nothing was lost the client either makes its first attempt, of which
`Attempting` lists the stages, or it is `Conversing`.  Then

- what `read()` holds of a frame (`half`), the bytes, what a receive that is ready has
  got and the wire are, one after the other, whole frames (`Carries`): `update()` always
  begins with a first piece, and `read()` finds the piece that belongs to it;
- the connection is up, one receive is outstanding or ready and has not failed, and
  one write is, if there is a call in the list (`Sound`);
- the sum, with the calls that were dropped (`Account`), is at most one dialogue, which
  the handler of the connect begins (`Begun`), and one for each refusal (`Balanced`);
- without such a refusal it is exactly that, unless the user typed an empty line; and
  the terminal has nothing, one read alone, or one line that is not empty (`Attended`).

Each part is needed for the others: an answer starts the next read of the terminal
only if it is dispatched whole, and frames are only put together right as long as no
other attempt to connect clears the bytes; that a line is the one which was typed,
and not empty, needs a buffer that no second read shares.  `TalkRuns`, `TalkBegins`,
`TalkEnds`, `TalkConnects`, `TalkReceives`, `TalkWrites`, `TalkReads`, `TalkDropped` and
`TalkHears` have one step each.  In `Account` the answers are counted by the calls the
frames carry, in `Dialogues` by their second pieces in the bytes, in the receive that is
ready and on the wire; `StreamAnswers` and `DialoguesCount` say that both count the same.

System (`TalkSystemProofs`).  `SysTypeOK` and what the server reads (`OnWire`: a call
that is being read is on the connection) hold in any case (`Held`).  `Fresh` is about a
system without a stray call: each client is in one of three situations, trying to
connect, online or aware of an error (`Placed`), and by `ClientProcessProofs`
its handlers lead from one to another and none starts a second attempt (`TryingStep`,
`OnlineStep`, `LostStep`); the calls made on a connection are those that are on it and
those still in the list, until it is down (`CallsFit`);
what was fetched and is not dispatched waits in the one receive that is ready
(`AnswersFit`); and what was dispatched are the first of what was fetched (`HeardFit`).
A client that connects again has an empty list and no receive, which is why nothing
is carried over.  `SInv` is `Held` and, unless there was a stray call, `Fresh`; with
the server's `IInv`, `RInv` and `StreamIntegrity` it is inductive.

Dialogues (the second half of `TalkSystemProofs`).  `DialoguesConserved` adds up what
clients have at their terminals and what is on the way on connections.  The sum is
written as the size of a set (`Total`), so that its change is that of two finite sets
and no recursion over the clients is needed (`TotalChange`).  `DInv` says that while no
connection was reset (`DCore`):

- no call is stray, the server sends only answers (`OnlyAnswers`), and none of its
  operations fails (`ServerUp`);
- a client resolves or connects and has no connection, or talks on its only one
  (`Stage`), so that a connection is one client's and a dialogue that moves between
  them moves between two summands (`MoveStep`);
- there are at most as many dialogues as clients that have brought one;
- and until a name is refused exactly as many as clients that have brought one and whose
  user has not ended it (`Kept`), each client's own in one place (`Tidy`): with the
  terminal silent (`Silent`) one call or answer is on the way, while a line is
  asked for or has come (`Asked`, `Typed`) none is, and after an empty line
  (`Blanked`, `Finished`) none ever is.

A handler of a client keeps its prompts together with what is on the way on its
connection (`RunMoves`), as does a call that the server answers to the caller; a refusal
takes one from the caller's connection to that of the client that has the name
(`FrameSum`), which is why `Tidy` ends there and the sum does not grow.  `DInv` is
inductive together with `IInv`, `StreamIntegrity` and `SInv`: that an answer is
dispatched by the client that is asked about needs `HeardFit`, and that the client a
refusal goes to is connected needs `UniqueNames` and the map.

Concurrent clients (`ConcurrentClientProofs`).  The buffer and what the thread that
holds the mutex has yet to write are together one call (`BufferOfWriter`), and nobody
else is in a call (`Exclusive`).  `CallsInOrder` says that the calls which were flushed
can be put down to threads, so that each is the next one of its thread and none is
missing: a statement about positions, which does not compute the calls of one thread
and holds for calls that look alike.  `OInv` adds to the invariant above that the
calls a thread has yet to make are the last of all it makes, and that the call in the
buffer is the one before them (`Scripted`); then a flush appends the next call of its
thread (`OneMoreCall`).

Reading (the rest of `ConcurrentClientProofs`).  `NothingUnread` does not use that
frames are well formed, nor any version of the interface.  `UInv` says that the structures under way are the
arguments, a ship and a location, in this order (`Nested`); that what a local flag of
`read()` stands for has been read, a structure with the required fields inside it
(`SeenRead`); and the same of the flags in the object (`FlagRead`).  The end of a
structure is reached only with all required flags, which is what the flag around it
then stands for (`StructRead`).

`FrameConsumed` is about frames that hold structures of any depth, which only `skip()`
goes through.  A sequence of tokens leads from one number of open structures to
another if there is a function that gives the number after each token (`Leads`), and
what is left of a frame always leads from the structures that are open to none
(`FInv`); no step needs to know which tokens these are.  `LeadsOn` puts two such
sequences together, which is what shows that the frame the server itself writes
(`ForwardFrame`) is well formed.

`TypeCorrect` adds to `UInv` and `FInv` where a value can go (`TInv`): the paths that
`Paths` lists, and no other.

`ForwardedUnchanged` is about the one frame that the server writes.  `Takes` says what
one token makes of a `read()` that understands it, and `Runs` that a sequence of
tokens takes it from one state to another, again by the function of the states
in between.  First, when a handler is called the ship in the object is exactly the
fields that `write()` would write, each once (`ShipFits`, from `GInv`): a field
that came twice has been overwritten, and one whose flag is not set is not there.
Then the frame that is written from it runs from the beginning of the other
client's `read()` to its end, and the ship there is the one that was posted; this is put
together field by field, with the two fields of a location inside the ninth.  Last,
`RInv` says that while the other client reads, what is left of its frame runs from
the state it is in to that end: a step takes one token, and a run is what is left of a
longer one.  That the read throws, or calls the handler with something else, is then
no step it can make.

The invariants were checked by TLC on the instances of the runs before they were
proved.

Only model-checked:

- `CalledWithWhatWasMeant`, which compares what a handler gets with the meaning of a
  message, defined by recursion over it.  The prover cannot use the library's
  induction theorems, which take an operator; induction over a set of numbers
  (`SetInduction`, from `WFMin` of `WellFoundedInduction`) needs a statement about
  one function, such as the heights above, which messages that are trees do not have;
- liveness (`DeadClientsReaped`, `EverythingDelivered`, `EveryoneAccepted`,
  `ReconnectsUndisturbed`, `EverythingProcessed`, `Served`), as the prover has no
  `ENABLED`.

So every other property of a passing run, and all of the safety properties but one, are
theorems.

## Plan

Done: the server with its room, the client, both together, the generated code,
and the theorems above.  What is left:

1. A larger instance of the system: three clients, with two connections each.
2. `CalledWithWhatWasMeant` as a run of states, as for `ForwardedUnchanged`: its meaning
   stated by positions in the frame instead of by recursion over a tree.

## Not modelled

- `use_compression`, which both programs leave off;
- the generated `ServiceInfo`, factories and multifaces, which neither program uses,
  event handlers, which neither installs, and the comparison, `swap` and printing of
  structures;
- frames that are not well formed, which no `write()` produces (the instance has none
  with a field twice, which the theorems allow), and memory: the size of a frame and the length of the list of a peer that does not read;
- connections that are closed in one direction only;
- `update_one` and the blocking loops, which nobody calls, the end of standard input,
  and the build files.
