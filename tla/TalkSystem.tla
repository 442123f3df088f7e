----------------------------- MODULE TalkSystem -----------------------------
(***************************************************************************)
(* Talk clients and the talk server together: the peers of TalkServer are  *)
(* processes of ClientProcess, which connect, call, lose connections and   *)
(* connect again.                                                          *)
(*                                                                         *)
(* A talk client calls nothing but setUserName.  Frames arrive whole here, *)
(* so that update() never has to wait for the rest of one (TalkClient has  *)
(* frames in pieces), and names resolve.                                   *)
(***************************************************************************)
EXTENDS TalkServer, ClientProcess, SequencesExt

CONSTANTS
  Clients,   \* the client processes
  MaxLines,  \* bound: lines that all users enter
  MaxResets  \* bound: connections the network resets

ASSUME ClientsAssumption == IsFiniteSet(Clients)
ASSUME SystemBoundsAssumption == {MaxLines, MaxResets} \subseteq Nat

(* What a user enters is the name.                                         *)
ASSUME LinesAreNames == Texts = Names /\ NoText = NoName

VARIABLES
  proc,     \* proc[p]: the state of client process p
  conn,     \* conn[p]: the connection p made last
  written,  \* written[c]: the calls that are on c, or were read from it
  fetched,  \* fetched[c]: how many of delivered[c] were read from the socket
  asked,    \* history: asked[c], the calls made for c
  heard,    \* history: heard[c], the calls of the server dispatched then
  stray,    \* history: a call was made while there was no connection
  lines,    \* how many lines have been entered
  blank,    \* history: the clients whose user entered an empty line
  resets    \* how many connections have been reset

clientVars ==
  <<proc, conn, written, fetched, asked, heard, stray, lines, blank, resets>>
sysVars == <<vars, clientVars>>

SysTypeOK ==
  /\ TypeOK
  /\ proc \in [Clients -> ProcessStates]
  /\ conn \in [Clients -> Conns \cup {NoClient}]
  /\ written \in [Conns -> Seq(Requests)]
  /\ asked \in [Conns -> Seq(Requests)]
  /\ \A c \in Conns : fetched[c] \in 0 .. Len(delivered[c])
  /\ heard \in [Conns -> Seq(ServerCalls)]
  /\ stray \in BOOLEAN
  /\ lines \in 0 .. MaxLines /\ blank \in SUBSET Clients /\ resets \in 0 .. MaxResets

SysInit ==
  /\ Init
  /\ proc = [p \in Clients |-> Constructed]
  /\ conn = [p \in Clients |-> NoClient]
  /\ written = [c \in Conns |-> <<>>] /\ fetched = [c \in Conns |-> 0]
  /\ asked = [c \in Conns |-> <<>>] /\ heard = [c \in Conns |-> <<>>]
  /\ stray = FALSE /\ lines = 0 /\ blank = {} /\ resets = 0

Running(p) == proc[p].failure = "none"
Connected(p) == proc[p].socket = "connected" /\ conn[p] \in Conns

(* What is outstanding on p's socket fails.                                *)
Failing(p) == proc[p].socket = "open" \/ (Connected(p) /\ ~link[conn[p]])

Becomes(p, s) == proc' = [proc EXCEPT ![p] = s]

-----------------------------------------------------------------------------
(* A client's handlers.                                                    *)

(* update(), after each handler: what has arrived is dispatched.           *)
Arrived(s) ==
  [i \in 1 .. Len(s.incomming_bytes_) \div 2 |-> s.incomming_bytes_[2 * i].frame]

update(s) ==
  LET done[i \in 0 .. Len(Arrived(s))] ==
        IF i = 0 THEN [s EXCEPT !.incomming_bytes_ = <<>>]
                 ELSE Dispatch(done[i - 1], Arrived(s)[i])
  IN  IF isOpen(s) THEN done[Len(Arrived(s))] ELSE s

(* A handler that closes the socket takes the connection down; calls that  *)
(* are made, or dispatched, belong to the connection there is.             *)
RunHandler(p) ==
  /\ Running(p) /\ proc[p].ready # <<>>
  /\ LET s == Handle([proc[p] EXCEPT !.ready = Tail(@)], Head(proc[p].ready))
         calls == s.outbound_messages_.msgs
         called == Len(calls) > Len(proc[p].outbound_messages_.msgs)
         c == conn[p]
     IN  /\ Becomes(p, update(s))
         /\ asked' = IF called /\ Connected(p)
                       THEN [asked EXCEPT ![c] = Append(@, Last(calls))]
                       ELSE asked
         /\ stray' = (stray \/ (called /\ ~Connected(p)))
         /\ heard' = IF isOpen(s) /\ Arrived(s) # <<>>
                       THEN [heard EXCEPT ![c] = @ \o Arrived(s)]
                       ELSE heard
         /\ IF Connected(p) /\ s.socket # "connected" /\ link[c]
              THEN PeerDown(c) /\ UNCHANGED delivered
              ELSE UNCHANGED vars
  /\ UNCHANGED <<conn, written, fetched, lines, blank, resets>>

-----------------------------------------------------------------------------
(* A client's reactor.                                                     *)

(* The pieces in which k of the messages ms come.                          *)
PiecesOf(ms, k) ==
  [j \in 1 .. 2 * k |-> Frame(ms[(j + 1) \div 2].reply)[2 - (j % 2)]]

ResolveCompletes(p) ==
  /\ Running(p) /\ proc[p].resolving
  /\ Becomes(p, [Post(proc[p], Done("resolve")) EXCEPT !.resolving = FALSE])
  /\ UNCHANGED <<vars, conn, written, fetched, asked, heard, stray, lines, blank, resets>>

(* A write that was started while the socket was connecting goes out on    *)
(* the connection.                                                         *)
ConnectSucceeds(p) ==
  /\ Running(p) /\ proc[p].connecting
  /\ \E c \in Conns :
       /\ \A d \in Conns : phase[d] = "idle" => c <= d
       /\ Connect(c)
       /\ conn' = [conn EXCEPT ![p] = c]
       /\ asked' = IF proc[p].writing
                     THEN [asked EXCEPT ![c] = proc[p].outbound_messages_.msgs]
                     ELSE asked
  /\ Becomes(p, [Post(proc[p], Done("connect"))
                   EXCEPT !.connecting = FALSE, !.socket = "connected"])
  /\ UNCHANGED <<written, fetched, heard, stray, lines, blank, resets>>

ReceiveSucceeds(p) ==
  /\ Running(p) /\ proc[p].receiving > 0 /\ Connected(p)
  /\ LET c == conn[p]
         new == SubSeq(delivered[c], fetched[c] + 1, Len(delivered[c]))
     IN  \E k \in 1 .. Len(new) :
           /\ fetched' = [fetched EXCEPT ![c] = @ + k]
           /\ Becomes(p, [Post(proc[p], Received(PiecesOf(new, k)))
                            EXCEPT !.receiving = @ - 1])
  /\ UNCHANGED <<vars, conn, written, asked, heard, stray, lines, blank, resets>>

ReceiveFails(p) ==
  /\ Running(p) /\ proc[p].receiving > 0 /\ Failing(p)
  /\ Becomes(p, [Post(proc[p], Failed("receive")) EXCEPT !.receiving = @ - 1])
  /\ UNCHANGED <<vars, conn, written, fetched, asked, heard, stray, lines, blank, resets>>

(* What is written on a connection that is down is lost.                   *)
CallSucceeds(p) ==
  /\ Running(p) /\ proc[p].writing /\ Connected(p)
  /\ Becomes(p, [Post(proc[p], Done("write")) EXCEPT !.writing = FALSE])
  /\ written' = IF link[conn[p]]
                  THEN [written EXCEPT ![conn[p]] =
                          @ \o FrontString(proc[p].outbound_messages_)]
                  ELSE written
  /\ UNCHANGED <<vars, conn, fetched, asked, heard, stray, lines, blank, resets>>

CallFails(p) ==
  /\ Running(p) /\ proc[p].writing /\ Failing(p)
  /\ Becomes(p, [Post(proc[p], Failed("write")) EXCEPT !.writing = FALSE])
  /\ UNCHANGED <<vars, conn, written, fetched, asked, heard, stray, lines, blank, resets>>

TimeElapses(p) ==
  /\ Running(p) /\ proc[p].timer = "set" /\ proc[p].ready = <<>>
  /\ Becomes(p, [proc[p] EXCEPT !.timer = "elapsing"])
  /\ UNCHANGED <<vars, conn, written, fetched, asked, heard, stray, lines, blank, resets>>

TimerExpires(p) ==
  /\ Running(p) /\ proc[p].timer = "elapsing"
  /\ Becomes(p, [Post(proc[p], Done("timer")) EXCEPT !.timer = "off"])
  /\ UNCHANGED <<vars, conn, written, fetched, asked, heard, stray, lines, blank, resets>>

(* The user enters a name or an empty line.  Reads that share the buffer   *)
(* find anything.                                                          *)
LineArrives(p) ==
  /\ Running(p) /\ proc[p].stdin # <<>> /\ lines < MaxLines
  /\ lines' = lines + 1
  /\ \E line \in Lines :
       /\ Becomes(p, [Post(proc[p], LineRead(Head(proc[p].stdin).prompt, line))
                        EXCEPT !.stdin = Tail(@),
                               !.input_buffer_ = Append(@, line)])
       /\ blank' = IF line = NoText THEN blank \cup {p} ELSE blank
  /\ UNCHANGED <<vars, conn, written, fetched, asked, heard, stray, resets>>

-----------------------------------------------------------------------------
(* The network and the server.                                             *)

(* A connection is reset; calls and answers on it may still be read.       *)
Reset(p) ==
  /\ Connected(p) /\ resets < MaxResets
  /\ PeerDown(conn[p])
  /\ resets' = resets + 1
  /\ UNCHANGED <<proc, conn, written, fetched, asked, heard, stray, lines, blank>>

FrameArrives(c) ==
  /\ Len(requests[c]) < Len(written[c])
  /\ FrameSizeArrives(c)
  /\ UNCHANGED clientVars

ProcessFrame(c) ==
  /\ OnFrameData(c)
  /\ requests'[c] = Append(requests[c], written[c][Len(requests[c]) + 1])
  /\ UNCHANGED clientVars

ServerReads(c) ==
  /\ FrameDataArrives(c) \/ ReadFails(c)
  /\ UNCHANGED clientVars

ServerWrites(c) ==
  /\ WriteSucceeds(c) \/ WriteFails(c) \/ OnWriteOk(c) \/ OnWriteError(c)
  /\ UNCHANGED clientVars

ServerHandles(c) ==
  /\ Accept(c) \/ OnFrameSize(c) \/ OnReadError(c)
  /\ UNCHANGED clientVars

-----------------------------------------------------------------------------
SysNext ==
  \/ \E p \in Clients :
       \/ RunHandler(p) \/ ResolveCompletes(p) \/ ConnectSucceeds(p)
       \/ ReceiveSucceeds(p) \/ ReceiveFails(p)
       \/ CallSucceeds(p) \/ CallFails(p)
       \/ TimeElapses(p) \/ TimerExpires(p)
       \/ LineArrives(p) \/ Reset(p)
  \/ \E c \in Conns :
       \/ FrameArrives(c) \/ ProcessFrame(c)
       \/ ServerReads(c) \/ ServerWrites(c) \/ ServerHandles(c)

(* The loops of both programs; what is on a connection arrives, while it   *)
(* is up.  The user need not enter anything.                               *)
SysFairness ==
  /\ \A p \in Clients :
       /\ WF_sysVars(RunHandler(p))
       /\ WF_sysVars(ReceiveSucceeds(p) \/ ReceiveFails(p))
       /\ WF_sysVars(CallSucceeds(p) \/ CallFails(p))
  /\ \A c \in Conns :
       /\ WF_sysVars(FrameArrives(c) \/ ProcessFrame(c))
       /\ WF_sysVars(ServerReads(c))
       /\ WF_sysVars(ServerWrites(c))
       /\ WF_sysVars(ServerHandles(c))

SysSpec == SysInit /\ [][SysNext]_sysVars /\ SysFairness

-----------------------------------------------------------------------------
(* Whatever connections are lost and made again, the server reads from a   *)
(* connection only calls that are on it, in order and once.  And as long   *)
(* as no client called anything while it had no connection, what is on a   *)
(* connection are calls made on it, and calls of the server are dispatched *)
(* but on the connection they came from, in order and once: the lists,     *)
(* writes, receives and handlers of an earlier connection put nothing into *)
(* a later one.  (If one did, the error of that call starts a second       *)
(* attempt to connect, which cuts the first one's connection off: a call   *)
(* that was made on the one may go out on the other, and an answer read    *)
(* from the one be dispatched on the other.)                               *)
NothingStale ==
  \A c \in Conns :
    /\ IsPrefix(requests[c], written[c])
    /\ \/ stray
       \/ /\ IsPrefix(written[c], asked[c])
          /\ IsPrefix(heard[c], [i \in DOMAIN sent[c] |-> sent[c][i].reply])

Prompting(p) ==
  Len(proc[p].stdin)
    + Cardinality({i \in DOMAIN proc[p].ready :
                     proc[p].ready[i].op \in Prompts})

OnTheWay(c) == (Len(asked[c]) - Len(requests[c])) + (Len(sent[c]) - Len(heard[c]))

(* The sum of the numbers f has, as the size of a set.                     *)
Total(f) == Cardinality(UNION {{x} \X (1 .. f[x]) : x \in DOMAIN f})

Opened == {p \in Clients : /\ conn[p] # NoClient
                           /\ \A i \in DOMAIN proc[p].ready :
                                proc[p].ready[i].op # "connect"}

Refused == \E c \in Conns : \E i \in DOMAIN sent[c] :
             sent[c][i].reply = "on_setUserName_failed"

(* The user entered an empty line, and is asked for no other.              *)
Ended == {p \in blank : Prompting(p) = 0}

(* While no connection is lost, each client has brought one dialogue into  *)
(* the system, which is a prompt, a call on its way to the server or an    *)
(* answer on its way back: they do not multiply, and as long as no name is *)
(* refused the only ones that are lost are those an empty line has ended.  *)
(* (A refusal takes the dialogue of the client that asked to the one that  *)
(* holds the name, where it is a second prompt.)                           *)
DialoguesConserved ==
  resets = 0 =>
    LET dialogues == Total([p \in Clients |-> Prompting(p)])
                       + Total([c \in Conns |-> OnTheWay(c)])
    IN  /\ dialogues <= Cardinality(Opened)
        /\ ~Refused => dialogues = Cardinality(Opened \ Ended)

(* On a connection that stays up, every call gets processed and every      *)
(* answer dispatched, across the lists, the writes and the reads of both   *)
(* programs, unless the client has popped from an empty list.              *)
Served ==
  \A c \in Conns :
    []<>(\/ ~link[c]
         \/ \E p \in Clients : conn[p] = c /\ ~Running(p)
         \/ requests[c] = asked[c] /\ Len(heard[c]) >= Len(sent[c]))
=============================================================================
