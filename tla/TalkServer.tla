----------------------------- MODULE TalkServer -----------------------------
(***************************************************************************)
(* The talk server: thrift_asio_server, the server side of                 *)
(* thrift_asio_transport, thrift_asio_connection_management_mixin and the  *)
(* talkServer_handler of talkServer.cpp.                                   *)
(*                                                                         *)
(* One thread runs the io_service, so a completion handler is atomic: each *)
(* On... action below is one whole handler.  What the reactor does between *)
(* handlers (a read or a write completes, a connection is accepted) and    *)
(* what the peers do are actions of their own, and interleave with the     *)
(* handlers in every order.                                                *)
(***************************************************************************)
EXTENDS WriteQueue, FiniteSets

CONSTANTS
  Conns,      \* the connections peers may make; each one is made at most once
  NoClient,   \* current_client_ == nullptr
  Names,      \* user names that are not empty
  NoName,     \* the empty string, the user_name of a new session
  Topics,     \* topics and channels
  Calls,      \* the calls peers make
  MaxFrames,  \* bound: frames all peers send
  MaxSilent,  \* bound: peers that vanish and are not noticed
  MaxFds      \* descriptors the process has for accepted sockets

(* The one-way calls of service talkServer (talker.thrift).                *)
TalkServerCalls ==
       [call : {"getVersion"}]
  \cup [call : {"setUserName"}, name : Names \cup {NoName}]
  \cup [call : {"subscribe", "unsubscribe"}, topic : Topics]
  \cup [call : {"postShip"}, channel : Topics]

ASSUME ConnsAssumption == IsFiniteSet(Conns) /\ NoClient \notin Conns
ASSUME NamesAssumption == NoName \notin Names
ASSUME CallsAssumption == Calls \subseteq TalkServerCalls
ASSUME BoundsAssumption == {MaxFrames, MaxSilent, MaxFds} \subseteq Nat

(* A ship is told apart from every other by who posted it and with which   *)
(* of its calls.                                                           *)
Ships == [from : Conns, no : Nat]

Replies == {"on_getVersion", "on_setUserName_failed",
            "on_setUserName_succeeded", "on_subscribe_succeeded",
            "on_unsubscribe_succeeded"}

(* What the server calls on its clients: one frame, one write() each.      *)
Messages ==
       [reply : Replies]
  \cup [reply : {"on_subscribeShip"}, name : Names \cup {NoName},
        ship : Ships]

VARIABLES
  acceptor,            \* "listening", or "closed" once its last owner is gone
  phase,               \* phase[c]: where the chain of reads of c stands
  reading,             \* reading[c]: the outcome of c's outstanding read
  socket_open,         \* socket_open[c]: socket_->is_open()
  outbound_messages_,  \* outbound_messages_[c], a WriteQueue
  writing,             \* writing[c]: the outcome of c's outstanding async_write
  clients_,            \* the keys of the mixin's map
  user_name,           \* user_name[c]: session::user_name
  current_client_,     \* the mixin's current_client_
  link,                \* link[c]: the peer is there
  silent,              \* peers that are gone, of which TCP has not heard
  frames,              \* how many frames peers have sent
  requests,            \* requests[c]: history, the calls of c processed
  sent,                \* sent[c]: history, the messages write() was given
  delivered            \* delivered[c]: the messages the peer received

vars == <<acceptor, phase, reading, socket_open, outbound_messages_, writing,
          clients_, user_name, current_client_, link, silent, frames,
          requests, sent, delivered>>

readVars  == <<phase, reading>>
writeVars == <<outbound_messages_, writing>>
mixinVars == <<clients_, current_client_>>
logVars   == <<requests, sent, delivered>>

(* idle: not connected; backlog: in the listen queue; size and data: the   *)
(* chain waits in read_frame_size or read_frame_data; gone: it has ended.  *)
Phases   == {"idle", "backlog", "size", "data", "gone"}
Outcomes == {"pending", "ok", "err"}

TypeOK ==
  /\ acceptor \in {"listening", "closed"}
  /\ phase \in [Conns -> Phases]
  /\ reading \in [Conns -> Outcomes]
  /\ socket_open \in [Conns -> BOOLEAN]
  /\ outbound_messages_ \in [Conns -> Queues(Messages)]
  /\ writing \in [Conns -> {"idle"} \cup Outcomes]
  /\ clients_ \in SUBSET Conns
  /\ user_name \in [Conns -> Names \cup {NoName}]
  /\ current_client_ \in Conns \cup {NoClient}
  /\ link \in [Conns -> BOOLEAN]
  /\ silent \in SUBSET Conns
  /\ frames \in 0 .. MaxFrames
  /\ requests \in [Conns -> Seq(Calls)]
  /\ sent \in [Conns -> Seq(Messages)]
  /\ delivered \in [Conns -> Seq(Messages)]

Init ==
  /\ acceptor = "listening"
  /\ phase = [c \in Conns |-> "idle"]
  /\ reading = [c \in Conns |-> "pending"]
  /\ socket_open = [c \in Conns |-> FALSE]
  /\ outbound_messages_ = [c \in Conns |-> EmptyQueue]
  /\ writing = [c \in Conns |-> "idle"]
  /\ clients_ = {}
  /\ user_name = [c \in Conns |-> NoName]
  /\ current_client_ = NoClient
  /\ link = [c \in Conns |-> FALSE]
  /\ silent = {}
  /\ frames = 0
  /\ requests = [c \in Conns |-> <<>>]
  /\ sent = [c \in Conns |-> <<>>]
  /\ delivered = [c \in Conns |-> <<>>]

-----------------------------------------------------------------------------
(* Peers.                                                                  *)

Connect(c) ==
  /\ acceptor = "listening"
  /\ phase[c] = "idle"
  /\ phase' = [phase EXCEPT ![c] = "backlog"]
  /\ link' = [link EXCEPT ![c] = TRUE]
  /\ UNCHANGED <<acceptor, reading, socket_open, writeVars, mixinVars,
                 user_name, silent, frames, logVars>>

(* The peer goes.  Of a write that is under way it has received some       *)
(* messages, maybe none, maybe all.                                        *)
PeerLost(c) ==
  /\ link[c]
  /\ link' = [link EXCEPT ![c] = FALSE]
  /\ \E k \in 0 .. Len(FrontString(outbound_messages_[c])) :
       /\ k > 0 => writing[c] = "pending"
       /\ delivered' = [delivered EXCEPT ![c] =
            @ \o SubSeq(FrontString(outbound_messages_[c]), 1, k)]
  /\ UNCHANGED <<acceptor, readVars, socket_open, writeVars, mixinVars,
                 user_name, frames, requests, sent>>

(* It closes or resets the connection, ...                                 *)
PeerDown(c) == PeerLost(c) /\ UNCHANGED silent

(* ... or is not heard of any more: its host or the network is down.       *)
PeerVanishes(c) ==
  /\ PeerLost(c)
  /\ Cardinality(silent) < MaxSilent
  /\ silent' = silent \cup {c}

-----------------------------------------------------------------------------
(* The reactor: the outcome of an outstanding operation becomes known and  *)
(* its handler is queued.                                                  *)

(* The size of a frame is in.  It may have been on its way when the peer   *)
(* went down.                                                              *)
FrameSizeArrives(c) ==
  /\ phase[c] = "size" /\ reading[c] = "pending"
  /\ frames < MaxFrames
  /\ frames' = frames + 1
  /\ reading' = [reading EXCEPT ![c] = "ok"]
  /\ UNCHANGED <<acceptor, phase, socket_open, writeVars, mixinVars,
                 user_name, link, silent, logVars>>

FrameDataArrives(c) ==
  /\ phase[c] = "data" /\ reading[c] = "pending"
  /\ reading' = [reading EXCEPT ![c] = "ok"]
  /\ UNCHANGED <<acceptor, phase, socket_open, writeVars, mixinVars,
                 user_name, link, silent, frames, logVars>>

(* End of file or a reset, possibly in the middle of a frame.              *)
ReadFails(c) ==
  /\ phase[c] \in {"size", "data"} /\ reading[c] = "pending"
  /\ ~link[c] /\ c \notin silent
  /\ reading' = [reading EXCEPT ![c] = "err"]
  /\ UNCHANGED <<acceptor, phase, socket_open, writeVars, mixinVars,
                 user_name, link, silent, frames, logVars>>

(* The whole string is written.  What the kernel takes for a peer that is  *)
(* down is lost.                                                           *)
WriteSucceeds(c) ==
  /\ writing[c] = "pending"
  /\ writing' = [writing EXCEPT ![c] = "ok"]
  /\ delivered' = IF link[c]
                    THEN [delivered EXCEPT ![c] =
                            @ \o FrontString(outbound_messages_[c])]
                    ELSE delivered
  /\ UNCHANGED <<acceptor, readVars, socket_open, outbound_messages_,
                 mixinVars, user_name, link, silent, frames, requests, sent>>

WriteFails(c) ==
  /\ writing[c] = "pending"
  /\ ~link[c] /\ c \notin silent
  /\ writing' = [writing EXCEPT ![c] = "err"]
  /\ UNCHANGED <<acceptor, readVars, socket_open, outbound_messages_,
                 mixinVars, user_name, link, silent, frames, logVars>>

(* Some of what the kernel was given for the peer has not reached it.      *)
Unacked(c) ==
  Len(delivered[c]) + Len(Rest(outbound_messages_[c])) < Len(sent[c])

(* TCP gives up to send it again.  The server itself has no timeout and    *)
(* asks for no keep-alive: without anything to send it does not notice.    *)
TimesOut(c) ==
  /\ c \in silent /\ Unacked(c)
  /\ silent' = silent \ {c}
  /\ UNCHANGED <<acceptor, readVars, socket_open, writeVars, mixinVars,
                 user_name, link, frames, logVars>>

-----------------------------------------------------------------------------
(* thrift_asio_transport.                                                  *)

(* An operation started on a closed socket fails at once: its handler runs *)
(* later, with an error.                                                   *)
Started(c) == IF socket_open[c] THEN "pending" ELSE "err"

(* async_write_one(): one async_write for everything in the list.          *)
AsyncWriteOne(c, q) == [queue |-> Consolidate(q), writing |-> Started(c)]

(* write(): start writing unless a write is under way.                     *)
Write(c, m) ==
  LET q == PushBack(outbound_messages_[c], m)
  IN  IF ListSize(q) = 1
        THEN AsyncWriteOne(c, q)
        ELSE [queue |-> q, writing |-> writing[c]]

(* One call on the clients R: each serializes to one frame, one write().   *)
Send(R, m) ==
  /\ outbound_messages_' = [c \in Conns |->
       IF c \in R THEN Write(c, m).queue ELSE outbound_messages_[c]]
  /\ writing' = [c \in Conns |->
       IF c \in R THEN Write(c, m).writing ELSE writing[c]]
  /\ sent' = [c \in Conns |-> IF c \in R THEN Append(sent[c], m) ELSE sent[c]]

(* Seeded fault for OnWriteOk: what was written meanwhile is not started.  *)
OnWriteOkNoRestart(c) ==
  /\ writing[c] = "ok"
  /\ outbound_messages_' = [outbound_messages_ EXCEPT ![c] = PopFront(@)]
  /\ writing' = [writing EXCEPT ![c] = "idle"]
  /\ UNCHANGED <<acceptor, readVars, socket_open, mixinVars, user_name, link,
                 silent, frames, logVars>>

(* The completion handler of async_write_one, without an error.            *)
OnWriteOk(c) ==
  /\ writing[c] = "ok"
  /\ LET q == PopFront(outbound_messages_[c])
         w == IF ListSize(q) > 0
                THEN AsyncWriteOne(c, q)
                ELSE [queue |-> q, writing |-> "idle"]
     IN  /\ outbound_messages_' = [outbound_messages_ EXCEPT ![c] = w.queue]
         /\ writing' = [writing EXCEPT ![c] = w.writing]
  /\ UNCHANGED <<acceptor, readVars, socket_open, mixinVars, user_name, link,
                 silent, frames, logVars>>

(* Seeded fault for OnWriteError: a close() that keeps the list.           *)
OnWriteErrorKeepsList(c) ==
  /\ writing[c] = "err"
  /\ socket_open' = [socket_open EXCEPT ![c] = FALSE]
  /\ reading' = [reading EXCEPT ![c] = IF @ = "pending" THEN "err" ELSE @]
  /\ writing' = [writing EXCEPT ![c] = "idle"]
  /\ link' = [link EXCEPT ![c] = FALSE]
  /\ UNCHANGED <<acceptor, phase, outbound_messages_, mixinVars, user_name,
                 silent, frames, logVars>>

(* The completion handler with an error: close().  The outstanding read is *)
(* aborted; one whose outcome is already queued keeps it.                  *)
OnWriteError(c) ==
  /\ writing[c] = "err"
  /\ socket_open' = [socket_open EXCEPT ![c] = FALSE]
  /\ reading' = [reading EXCEPT ![c] =
                   IF @ = "pending" THEN "err" ELSE @]
  /\ outbound_messages_' = [outbound_messages_ EXCEPT ![c] = EmptyQueue]
  /\ writing' = [writing EXCEPT ![c] = "idle"]
  /\ link' = [link EXCEPT ![c] = FALSE]
  /\ UNCHANGED <<acceptor, phase, mixinVars, user_name, silent, frames,
                 logVars>>

-----------------------------------------------------------------------------
(* thrift_asio_server: accepting.                                          *)

(* The sockets that have a descriptor: those something still owns, be it   *)
(* the chain of reads and the map, current_client_, or a write.            *)
FdsInUse == {c \in Conns : /\ socket_open[c]
                           /\ \/ c \in clients_
                              \/ current_client_ = c
                              \/ writing[c] # "idle"}

(* Seeded fault for Accept: start_accept is not called again.  The acceptor*)
(* dies with the handler, and who else waits in the listen queue is reset. *)
AcceptOnce(c) ==
  /\ acceptor = "listening"
  /\ phase[c] = "backlog"
  /\ Cardinality(FdsInUse) < MaxFds
  /\ acceptor' = "closed"
  /\ socket_open' = [socket_open EXCEPT ![c] = TRUE]
  /\ clients_' = clients_ \cup {c}
  /\ current_client_' = c
  /\ phase' = [d \in Conns |-> IF d = c THEN "size"
                               ELSE IF phase[d] = "backlog" THEN "gone"
                               ELSE phase[d]]
  /\ link' = [d \in Conns |-> link[d] /\ (d = c \/ phase[d] # "backlog")]
  /\ UNCHANGED <<reading, writeVars, user_name, silent, frames, logVars>>

(* The handler of async_accept without an error: on_accept, with           *)
(* on_client_connected and the first read_frame_size; start_accept.        *)
Accept(c) ==
  /\ acceptor = "listening"
  /\ phase[c] = "backlog"
  /\ Cardinality(FdsInUse) < MaxFds
  /\ socket_open' = [socket_open EXCEPT ![c] = TRUE]
  /\ clients_' = clients_ \cup {c}
  /\ current_client_' = c
  /\ phase' = [phase EXCEPT ![c] = "size"]
  /\ UNCHANGED <<acceptor, reading, writeVars, user_name, link, silent, frames,
                 logVars>>

(* The same handler with an error, here that no descriptor is left, which  *)
(* some kernels report before anybody connects: it does not call           *)
(* start_accept, the acceptor dies with it (main dropped what serve()      *)
(* returned), and who waits in the listen queue is reset.                  *)
AcceptError ==
  /\ acceptor = "listening"
  /\ Cardinality(FdsInUse) >= MaxFds
  /\ acceptor' = "closed"
  /\ phase' = [c \in Conns |->
                 IF phase[c] = "backlog" THEN "gone" ELSE phase[c]]
  /\ link' = [c \in Conns |-> link[c] /\ phase[c] # "backlog"]
  /\ UNCHANGED <<reading, socket_open, writeVars, mixinVars, user_name,
                 silent, frames, logVars>>

-----------------------------------------------------------------------------
(* talkServer_handler.  Each operator is the part of OnFrameData that      *)
(* the call is responsible for, `cur' being current_client_ during it.     *)

getVersion(cur) ==
  Send({cur}, [reply |-> "on_getVersion"]) /\ UNCHANGED user_name

(* Seeded fault for setUserName: only the caller's own name is compared.   *)
setUserNameUnchecked(cur, name) ==
  IF user_name[cur] = name
    THEN /\ Send({cur}, [reply |-> "on_setUserName_failed"])
         /\ UNCHANGED user_name
    ELSE /\ user_name' = [user_name EXCEPT ![cur] = name]
         /\ Send({cur}, [reply |-> "on_setUserName_succeeded"])

(* The first session, in the order of the map's keys (addresses), that has *)
(* the name is the one that is sent the failure.                           *)
setUserName(cur, name) ==
  LET holders == {p \in clients_ : user_name[p] = name}
  IN  \/ /\ \E p \in holders :
              Send({p}, [reply |-> "on_setUserName_failed"])
         /\ UNCHANGED user_name
      \/ /\ holders = {}
         /\ user_name' = [user_name EXCEPT ![cur] = name]
         /\ Send({cur}, [reply |-> "on_setUserName_succeeded"])

subscribe(cur) ==
  Send({cur}, [reply |-> "on_subscribe_succeeded"]) /\ UNCHANGED user_name

unsubscribe(cur) ==
  Send({cur}, [reply |-> "on_unsubscribe_succeeded"]) /\ UNCHANGED user_name

(* Seeded fault for postShip: the author is not left out.                  *)
postShipToAll(cur, ship) ==
  /\ Send(clients_, [reply |-> "on_subscribeShip",
                     name |-> user_name[cur], ship |-> ship])
  /\ UNCHANGED user_name

postShip(cur, ship) ==
  /\ Send(clients_ \ {cur}, [reply |-> "on_subscribeShip",
                             name |-> user_name[cur], ship |-> ship])
  /\ UNCHANGED user_name

(* processor.process(): dispatch on the method name.                       *)
Process(cur, r, ship) ==
  \/ r.call = "getVersion"  /\ getVersion(cur)
  \/ r.call = "setUserName" /\ setUserName(cur, r.name)
  \/ r.call = "subscribe"   /\ subscribe(cur)
  \/ r.call = "unsubscribe" /\ unsubscribe(cur)
  \/ r.call = "postShip"    /\ postShip(cur, ship)

-----------------------------------------------------------------------------
(* thrift_asio_server: the chain of reads of one connection.               *)

OnFrameSize(c) ==
  /\ phase[c] = "size" /\ reading[c] = "ok"
  /\ phase' = [phase EXCEPT ![c] = "data"]
  /\ reading' = [reading EXCEPT ![c] = Started(c)]
  /\ UNCHANGED <<acceptor, socket_open, writeVars, mixinVars, user_name, link,
                 silent, frames, logVars>>

(* Seeded fault for BeforeProcess: a client that is already set is kept.   *)
BeforeProcessIfUnset(c) ==
  IF current_client_ = NoClient THEN c ELSE current_client_

(* The current_client_ that before_process(c) leaves.                      *)
BeforeProcess(c) == c

(* before_process, process, after_process, and the next read_frame_size.   *)
OnFrameData(c) ==
  /\ phase[c] = "data" /\ reading[c] = "ok"
  /\ \E r \in Calls :
       /\ Process(BeforeProcess(c), r,
                  [from |-> c, no |-> Len(requests[c]) + 1])
       /\ requests' = [requests EXCEPT ![c] = Append(@, r)]
  /\ current_client_' = NoClient
  /\ phase' = [phase EXCEPT ![c] = "size"]
  /\ reading' = [reading EXCEPT ![c] = Started(c)]
  /\ UNCHANGED <<acceptor, socket_open, clients_, link, silent, frames,
                 delivered>>

(* Seeded faults for OnReadError: the client is not erased, and the error  *)
(* in the middle of a frame is not handled.                                *)
OnReadErrorKeepsClient(c) ==
  /\ phase[c] \in {"size", "data"} /\ reading[c] = "err"
  /\ phase' = [phase EXCEPT ![c] = "gone"]
  /\ UNCHANGED <<acceptor, reading, socket_open, writeVars, user_name,
                 mixinVars, link, silent, frames, logVars>>

OnReadErrorBetweenFrames(c) ==
  /\ phase[c] = "size" /\ reading[c] = "err"
  /\ clients_' = clients_ \ {c}
  /\ phase' = [phase EXCEPT ![c] = "gone"]
  /\ UNCHANGED <<acceptor, reading, socket_open, writeVars, user_name,
                 current_client_, link, silent, frames, logVars>>

(* Either handler with an error: on_client_disconnected, and the chain     *)
(* ends.                                                                   *)
OnReadError(c) ==
  /\ phase[c] \in {"size", "data"} /\ reading[c] = "err"
  /\ clients_' = clients_ \ {c}
  /\ phase' = [phase EXCEPT ![c] = "gone"]
  /\ UNCHANGED <<acceptor, reading, socket_open, writeVars, user_name,
                 current_client_, link, silent, frames, logVars>>

-----------------------------------------------------------------------------
(* What the io_service does by itself, as long as main's loop runs it.     *)
Reactor(c) == \/ FrameDataArrives(c) \/ ReadFails(c)
              \/ WriteSucceeds(c)    \/ WriteFails(c)
              \/ TimesOut(c)

Handler(c) == \/ Accept(c)
              \/ OnFrameSize(c) \/ OnFrameData(c) \/ OnReadError(c)
              \/ OnWriteOk(c)   \/ OnWriteError(c)

Next ==
  \/ \E c \in Conns : \/ Connect(c) \/ PeerDown(c) \/ PeerVanishes(c)
                      \/ FrameSizeArrives(c)
                      \/ Reactor(c) \/ Handler(c)
  \/ AcceptError

Spec == Init /\ [][Next]_vars

(* The loop of main polls until no handler is ready: every handler that is *)
(* ready, and every operation that can complete, gets its turn.  Nothing   *)
(* obliges a peer to connect, to send a frame or to stay.  Unless the peer *)
(* has vanished, the rest of a frame whose size came, and a string it has  *)
(* to read, do arrive; TCP sends again for a finite time only.  An accept  *)
(* that somebody waits for has an outcome.                                 *)
Fairness ==
  /\ \A c \in Conns :
       /\ WF_vars((c \notin silent /\ FrameDataArrives(c)) \/ ReadFails(c))
       /\ WF_vars((c \notin silent /\ WriteSucceeds(c)) \/ WriteFails(c))
       /\ WF_vars(TimesOut(c))
       /\ WF_vars(Accept(c))
       /\ WF_vars(OnFrameSize(c) \/ OnFrameData(c) \/ OnReadError(c))
       /\ WF_vars(OnWriteOk(c) \/ OnWriteError(c))
  /\ WF_vars((\E c \in Conns : phase[c] = "backlog") /\ AcceptError)

FairSpec == Spec /\ Fairness
=============================================================================
