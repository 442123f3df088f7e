----------------------------- MODULE TalkClient -----------------------------
(***************************************************************************)
(* The talk client: its process, the io_service it runs on, the terminal   *)
(* and a server that may crash.                                            *)
(*                                                                         *)
(* The io_service runs ready handlers in the order in which they became    *)
(* ready, one at a time.                                                   *)
(***************************************************************************)
EXTENDS ClientProcess

CONSTANTS
  MaxCrashes,  \* bound: how often the server crashes
  MaxLines,    \* bound: lines the user types
  MaxShips,    \* bound: ships the server sends of its own accord
  MaxRefusals, \* bound: how often others ask for the client's name
  MaxMoves,    \* bound: how often the program calls connect_to
  MaxEvents,   \* bound: crashes, lines and moves together
  MaxReads     \* bound: the reads of the terminal that pile up

ASSUME BoundsAssumption ==
  {MaxCrashes, MaxLines, MaxShips, MaxRefusals, MaxMoves, MaxEvents, MaxReads}
    \subseteq Nat

VARIABLES
  client,      \* the state of the client process
  server_up,   \* the server listens
  peer,        \* of the connected socket: "alive" or "reset"
  wire,        \* pieces on their way to the client
  asked,       \* setUserName calls the server has not read
  named,       \* the session of the client has a name
  typed,       \* lines in the terminal that have not been read
  crashes,     \* how often the server has crashed
  lines,       \* history: the lines the user has typed
  ships,       \* how many ships the server has sent
  moves,       \* how often connect_to was called
  refusals,    \* history: how many refusals the client had not asked for
  unanswered   \* history: how many of its calls were not answered

counters == <<crashes, lines, ships, moves>>
session == <<asked, named, refusals, unanswered>>
vars == <<client, server_up, peer, wire, session, typed, counters>>
envVars == <<server_up, peer, wire, session, typed, counters>>

TypeOK ==
  /\ client \in ProcessStates
  /\ server_up \in BOOLEAN /\ peer \in {"alive", "reset"}
  /\ wire \in Seq(Pieces)
  /\ asked \in Nat /\ named \in BOOLEAN /\ typed \in Seq(Lines)
  /\ refusals \in 0 .. MaxRefusals /\ unanswered \in Nat
  /\ crashes \in 0 .. MaxCrashes /\ lines \in Seq(Lines)
  /\ ships \in 0 .. MaxShips /\ moves \in 0 .. MaxMoves

Init ==
  /\ client = Constructed
  /\ server_up \in BOOLEAN /\ peer = "reset" /\ wire = <<>>
  /\ asked = 0 /\ named = FALSE /\ refusals = 0 /\ unanswered = 0
  /\ typed = <<>> /\ crashes = 0 /\ lines = <<>> /\ ships = 0 /\ moves = 0

Running == client.failure = "none"

Events == crashes + Len(lines) + moves

(* The program calls connect_to, between handlers.                         *)
ConnectTo ==
  /\ Running /\ client.loop = "poll"
  /\ moves < MaxMoves /\ Events < MaxEvents
  /\ moves' = moves + 1
  /\ client' = connect_to(client)
  /\ UNCHANGED <<server_up, peer, wire, session, typed, crashes, lines, ships>>

(* poll_one, or run_one within read(): the next handler runs.              *)
RunHandler(op) ==
  /\ Running /\ client.loop \in {"poll", "read"}
  /\ client.ready # <<>> /\ Head(client.ready).op = op
  /\ LET s == Handle([client EXCEPT !.ready = Tail(@)], Head(client.ready))
     IN  client' = IF s.loop = "poll" THEN [s EXCEPT !.loop = "update"] ELSE s
  /\ UNCHANGED envVars

(* update(): while the transport is open and has bytes, process a frame.   *)
Update ==
  /\ Running /\ client.loop = "update"
  /\ client' =
       IF isOpen(client) /\ client.incomming_bytes_ # <<>>
         THEN [client EXCEPT !.loop = "read",
                             !.half = Head(client.incomming_bytes_).frame,
                             !.incomming_bytes_ = Tail(@)]
         ELSE [client EXCEPT !.loop = "poll"]
  /\ UNCHANGED envVars

(* Seeded fault: one frame is processed for each handler, as update_one()  *)
(* would.                                                                  *)
FinishFrameOnce ==
  /\ Running /\ client.loop = "read" /\ client.incomming_bytes_ # <<>>
  /\ LET piece == Head(client.incomming_bytes_)
         s == [client EXCEPT !.incomming_bytes_ = Tail(@),
                             !.loop = "poll", !.half = "none"]
     IN  client' = IF piece = [frame |-> client.half, part |-> 2]
                     THEN Dispatch(s, client.half)
                     ELSE [s EXCEPT !.failure = "mixed frame"]
  /\ UNCHANGED envVars

(* read() has the rest of the frame, or what it takes for it, and the      *)
(* frame is dispatched.  Until then read() runs handlers.                  *)
FinishFrame ==
  /\ Running /\ client.loop = "read" /\ client.incomming_bytes_ # <<>>
  /\ LET piece == Head(client.incomming_bytes_)
         s == [client EXCEPT !.incomming_bytes_ = Tail(@),
                             !.loop = "update", !.half = "none"]
     IN  client' = IF piece = [frame |-> client.half, part |-> 2]
                     THEN Dispatch(s, client.half)
                     ELSE [s EXCEPT !.failure = "mixed frame"]
  /\ UNCHANGED envVars

-----------------------------------------------------------------------------
(* The reactor: outstanding operations complete.                           *)

ResolveCompletes ==
  /\ Running /\ client.resolving
  /\ \E h \in {Done("resolve")} \cup
              (IF server_up THEN {} ELSE {Failed("resolve")}) :
       client' = [Post(client, h) EXCEPT !.resolving = FALSE]
  /\ UNCHANGED envVars

(* Each connection starts a read of the terminal, which outlives it.       *)
ConnectSucceeds ==
  /\ Running /\ client.connecting /\ server_up
  /\ Len(client.stdin) < MaxReads
  /\ client' = [Post(client, Done("connect")) EXCEPT !.connecting = FALSE,
                                                     !.socket = "connected"]
  /\ peer' = "alive" /\ wire' = <<>> /\ asked' = 0 /\ named' = FALSE
  /\ UNCHANGED <<server_up, refusals, unanswered, typed, counters>>

ConnectFails ==
  /\ Running /\ client.connecting /\ ~server_up
  /\ client' = [Post(client, Failed("connect")) EXCEPT !.connecting = FALSE]
  /\ UNCHANGED envVars

(* Some of the pieces on their way, but at least one.                      *)
ReceiveSucceeds ==
  /\ Running /\ client.receiving > 0 /\ client.socket = "connected"
  /\ \E k \in 1 .. Len(wire) :
       /\ client' = [Post(client, Received(SubSeq(wire, 1, k)))
                       EXCEPT !.receiving = @ - 1]
       /\ wire' = SubSeq(wire, k + 1, Len(wire))
  /\ UNCHANGED <<server_up, peer, session, typed, counters>>

ReceiveFails ==
  /\ Running /\ client.receiving > 0
  /\ client.socket = "open" \/ peer = "reset"
  /\ client' = [Post(client, Failed("receive")) EXCEPT !.receiving = @ - 1]
  /\ UNCHANGED envVars

(* What is written for a peer that is gone is lost.                        *)
WriteSucceeds ==
  /\ Running /\ client.writing /\ client.socket = "connected"
  /\ client' = [Post(client, Done("write")) EXCEPT !.writing = FALSE]
  /\ asked' = IF peer = "alive" THEN asked + client.outbound_messages_.front
                                ELSE asked
  /\ UNCHANGED <<server_up, peer, wire, named, refusals, unanswered, typed, counters>>

WriteFails ==
  /\ Running /\ client.writing
  /\ client.socket = "open" \/ peer = "reset"
  /\ client' = [Post(client, Failed("write")) EXCEPT !.writing = FALSE]
  /\ UNCHANGED envVars

(* A second passes only while the loop has nothing to do: a timer that was *)
(* just set does not expire before the handlers that are ready have run.   *)
TimeElapses ==
  /\ Running /\ client.timer = "set" /\ client.ready = <<>>
  /\ client' = [client EXCEPT !.timer = "elapsing"]
  /\ UNCHANGED envVars

TimerExpires ==
  /\ Running /\ client.timer = "elapsing"
  /\ client' = [Post(client, Done("timer")) EXCEPT !.timer = "off"]
  /\ UNCHANGED envVars

(* The first outstanding read gets the line.  One that was started while   *)
(* another was outstanding has the same part of input_buffer_ to read      *)
(* into: what it finds there is not the line.                              *)
LineArrives ==
  /\ Running /\ client.stdin # <<>> /\ typed # <<>>
  /\ \E line \in IF Head(client.stdin).alone THEN {Head(typed)} ELSE Lines :
       client' = [Post(client, LineRead(Head(client.stdin).prompt, line))
                    EXCEPT !.stdin = Tail(@),
                           !.input_buffer_ = Append(@, line)]
  /\ typed' = Tail(typed)
  /\ UNCHANGED <<server_up, peer, wire, session, counters>>

-----------------------------------------------------------------------------
(* The user and the server.                                                *)

UserTypes(line) ==
  /\ Running /\ Len(lines) < MaxLines /\ Events < MaxEvents
  /\ lines' = Append(lines, line)
  /\ typed' = Append(typed, line)
  /\ UNCHANGED <<client, server_up, peer, wire, session, crashes, ships, moves>>

ServerHears == Running /\ server_up /\ client.socket = "connected" /\ peer = "alive"

(* Somebody else posts a ship.                                             *)
ServerShips ==
  /\ ServerHears /\ ships < MaxShips
  /\ ships' = ships + 1
  /\ wire' = wire \o Frame("on_subscribeShip")
  /\ UNCHANGED <<client, server_up, peer, session, typed, crashes, lines, moves>>

(* The next four are setUserName of the server.  Which names there are is  *)
(* left open: nobody has the name the client asks for; or the client has   *)
(* it itself, and is refused; or somebody else has it, who is told of the  *)
(* refusal, and the client hears nothing.                                  *)
NameGranted ==
  /\ ServerHears /\ asked > 0
  /\ asked' = asked - 1 /\ named' = TRUE
  /\ wire' = wire \o Frame("on_setUserName_succeeded")
  /\ UNCHANGED <<client, server_up, peer, refusals, unanswered, typed, counters>>

NameIsOwn ==
  /\ ServerHears /\ asked > 0 /\ named
  /\ asked' = asked - 1
  /\ wire' = wire \o Frame("on_setUserName_failed")
  /\ UNCHANGED <<client, server_up, peer, named, refusals, unanswered, typed, counters>>

NameIsTaken ==
  /\ ServerHears /\ asked > 0
  /\ asked' = asked - 1 /\ unanswered' = unanswered + 1
  /\ UNCHANGED <<client, server_up, peer, wire, named, refusals, typed, counters>>

(* Somebody else asks for the name of the client, which is told that it is *)
(* refused.                                                                *)
NameIsWanted ==
  /\ ServerHears /\ named /\ refusals < MaxRefusals
  /\ refusals' = refusals + 1
  /\ wire' = wire \o Frame("on_setUserName_failed")
  /\ UNCHANGED <<client, server_up, peer, asked, named, unanswered, typed, counters>>

(* A crash loses pieces that have not arrived.                             *)
ServerCrashes ==
  /\ Running /\ server_up
  /\ crashes < MaxCrashes /\ Events < MaxEvents
  /\ crashes' = crashes + 1
  /\ server_up' = FALSE /\ peer' = "reset" /\ asked' = 0 /\ named' = FALSE
  /\ \E k \in 0 .. Len(wire) : wire' = SubSeq(wire, 1, k)
  /\ UNCHANGED <<client, refusals, unanswered, typed, lines, ships, moves>>

ServerStarts ==
  /\ Running /\ ~server_up
  /\ server_up' = TRUE
  /\ UNCHANGED <<client, peer, wire, session, typed, counters>>

-----------------------------------------------------------------------------
Thread == (\E op \in Ops \cup Prompts : RunHandler(op)) \/ Update \/ FinishFrame

Reactor == \/ ResolveCompletes \/ ConnectSucceeds \/ ConnectFails
           \/ ReceiveSucceeds \/ ReceiveFails
           \/ WriteSucceeds \/ WriteFails
           \/ TimeElapses \/ TimerExpires \/ LineArrives

Environment == \/ ConnectTo
               \/ \E line \in Lines : UserTypes(line)
               \/ ServerShips
               \/ NameGranted \/ NameIsOwn \/ NameIsTaken \/ NameIsWanted
               \/ ServerCrashes \/ ServerStarts

Next == Thread \/ Reactor \/ Environment

Spec == Init /\ [][Next]_vars

(* main's loop never ends, so the handlers that are ready run and what can *)
(* complete completes.  A second passes if a timer is left alone.  The     *)
(* user need not type, and a server that crashed need not be started.      *)
Fairness ==
  /\ WF_vars(Thread)
  /\ WF_vars(ResolveCompletes)
  /\ WF_vars(ConnectSucceeds \/ ConnectFails)
  /\ WF_vars(ReceiveSucceeds \/ ReceiveFails)
  /\ WF_vars(WriteSucceeds \/ WriteFails)
  /\ WF_vars(TimeElapses)
  /\ WF_vars(TimerExpires)
  /\ WF_vars(LineArrives)

FairSpec == Spec /\ Fairness
=============================================================================
