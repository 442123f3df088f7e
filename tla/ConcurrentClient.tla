-------------------------- MODULE ConcurrentClient --------------------------
(***************************************************************************)
(* The generated clients, talkServerConcurrentClient and                   *)
(* talkClientConcurrentClient among them: threads share one of them, and   *)
(* with it one framed transport, and the program at the other end          *)
(* processes what they send.                                               *)
(*                                                                         *)
(* A call is sent token by token into the buffer of the transport, and     *)
(* flush() makes a frame of what the buffer holds.                         *)
(***************************************************************************)
EXTENDS ThriftCall

CONSTANTS
  Threads,   \* threads that share the client
  NoThread,  \* nobody holds the mutex
  Scripts    \* what the threads call: functions from Threads to messages

ASSUME ThreadsAssumption == NoThread \notin Threads

(* The calls of the scripts, and what they are written as.                 *)
Calls == UNION {Range(s[t]) : s \in Scripts, t \in Threads}
ArgTokens == UNION {Range(m.frame) : m \in Calls}

ASSUME ScriptsAssumption ==
  /\ Scripts \subseteq [Threads -> Seq(Calls)]
  /\ \A m \in Calls : /\ m.at \in DOMAIN ProcessMap
                       /\ m.frame \in Seq(ArgTokens) /\ WellFormed(m.frame)

VARIABLES
  sync_,   \* the thread that holds the write mutex
  script,  \* script[t]: the calls t has yet to make
  todo,    \* todo[t]: the tokens of its call that t has yet to write
  phase,   \* phase[t]: where t is in the call
  wBuf_,   \* the buffer of the framed transport
  wire,    \* frames on their way
  calls,   \* history: calls[t], all that t calls
  taken    \* history: the messages taken up at the other end

senderVars == <<sync_, script, todo, phase, wBuf_>>

(* The start of a call in the buffer; nothing else names its method.       *)
Begin(m) == [kind |-> "begin", message |-> m]

CInit ==
  /\ Init
  /\ sync_ = NoThread
  /\ script \in Scripts
  /\ todo = [t \in Threads |-> <<>>]
  /\ phase = [t \in Threads |-> "idle"]
  /\ wBuf_ = <<>> /\ wire = <<>>
  /\ calls = script /\ taken = <<>>

(* send_...: the sentry locks, and writeMessageBegin.                      *)
Starts(t) ==
  /\ phase[t] = "idle" /\ script[t] # <<>>
  /\ phase' = [phase EXCEPT ![t] = "args"]
  /\ todo' = [todo EXCEPT ![t] = Head(script[t]).frame]
  /\ script' = [script EXCEPT ![t] = Tail(@)]
  /\ wBuf_' = Append(wBuf_, Begin(Head(script[t])))
  /\ UNCHANGED <<wire, calls, taken, vars>>

(* Seeded fault for SendStarts: the plain client, which has no sentry.     *)
SendStartsUnguarded(t) == Starts(t) /\ UNCHANGED sync_

SendStarts(t) == Starts(t) /\ sync_ = NoThread /\ sync_' = t

(* args.write(): one token after the other.                                *)
WriteArgs(t) ==
  /\ phase[t] = "args" /\ todo[t] # <<>>
  /\ wBuf_' = Append(wBuf_, Head(todo[t]))
  /\ todo' = [todo EXCEPT ![t] = Tail(@)]
  /\ UNCHANGED <<sync_, script, phase, wire, calls, taken, vars>>

(* Seeded fault for Flush: the buffer is not emptied.                      *)
FlushKeepsBuffer(t) ==
  /\ phase[t] = "args" /\ todo[t] = <<>>
  /\ wire' = Append(wire, wBuf_)
  /\ phase' = [phase EXCEPT ![t] = "flushed"]
  /\ UNCHANGED <<sync_, script, todo, wBuf_, calls, taken, vars>>

(* writeMessageEnd, writeEnd and flush.                                    *)
Flush(t) ==
  /\ phase[t] = "args" /\ todo[t] = <<>>
  /\ wire' = Append(wire, wBuf_)
  /\ wBuf_' = <<>>
  /\ phase' = [phase EXCEPT ![t] = "flushed"]
  /\ UNCHANGED <<sync_, script, todo, calls, taken, vars>>

(* commit(), and the destructor of the sentry, which unlocks.              *)
Commit(t) ==
  /\ phase[t] = "flushed"
  /\ phase' = [phase EXCEPT ![t] = "idle"]
  /\ sync_' = NoThread
  /\ UNCHANGED <<script, todo, wBuf_, wire, calls, taken, vars>>

(* The other end takes the next frame when it is done with the last.       *)
Deliver ==
  /\ outcome \in {"waiting", "called", "replied"}
  /\ wire # <<>>
  /\ LET m == Head(Head(wire)).message
     IN  Receive(m, Tail(Head(wire))) /\ taken' = Append(taken, m)
  /\ wire' = Tail(wire)
  /\ UNCHANGED <<senderVars, calls>>

Next ==
  \/ \E t \in Threads : SendStarts(t) \/ WriteArgs(t) \/ Flush(t) \/ Commit(t)
  \/ Deliver
  \/ Process /\ UNCHANGED <<senderVars, wire, calls, taken>>

Spec == CInit /\ [][Next]_<<vars, senderVars, wire, calls, taken>>

-----------------------------------------------------------------------------
BaseIds(s) == {id \in DOMAIN Fields(s) : Fields(s)[id].type # "struct"}

(* Where values are in the arguments of a method.                          *)
Paths(m) ==
  {<<i>> : i \in BaseIds(m)} \cup
  (IF m \in {"postShip", "on_subscribeShip"}
     THEN {<<2, i>> : i \in BaseIds("Ship")} \cup
          {<<2, 9, i>> : i \in BaseIds("Location")}
     ELSE {})

TypeOK ==
  /\ at \in DOMAIN ProcessMap
  /\ \A i \in DOMAIN frame : frame[i].kind \in {"field", "stop"}
  /\ Len(readers) <= 3 /\ depth \in Nat
  /\ \A i \in DOMAIN readers :
       readers[i].seen \subseteq DOMAIN Fields(readers[i].struct)
  /\ method \in ProcessMap[at] => \A o \in object : o.path \in Paths(method)
  /\ outcome \in Outcomes
  /\ sync_ \in Threads \cup {NoThread}
  /\ phase \in [Threads -> {"idle", "args", "flushed"}]

(* "The 'concurrent' client is a thread safe client" (talkClient.h:757):   *)
(* the tokens of two calls, which threads write one at a time into one     *)
(* buffer, never meet in a frame, and no call is cut.                      *)
FramesWhole ==
  \A i \in DOMAIN wire :
    wire[i] = <<Begin(Head(wire[i]).message)>> \o Head(wire[i]).message.frame

(* The calls that were flushed, first those the other end has taken up.    *)
FlushedCalls == taken \o [i \in DOMAIN wire |-> Head(wire[i]).message]

(* How many calls t has flushed.                                           *)
Flushed(t) ==
  Len(calls[t]) - Len(script[t]) - (IF phase[t] = "args" THEN 1 ELSE 0)

(* How many of the first i calls are made by t, if who[k] makes the k-th.  *)
Nth(who, t, i) == Cardinality({k \in 1 .. i : who[k] = t})

(* The calls of a thread arrive each once, and in the order in which it    *)
(* made them, however the calls of other threads come in between: each     *)
(* call that was flushed can be put down to a thread, so that it is the    *)
(* next one of that thread and nothing that was flushed is missing.        *)
CallsInOrder ==
  \E who \in [DOMAIN FlushedCalls -> Threads] :
    /\ \A t \in Threads : Nth(who, t, Len(FlushedCalls)) = Flushed(t)
    /\ \A i \in DOMAIN FlushedCalls :
         FlushedCalls[i] = calls[who[i]][Nth(who, who[i], i)]
=============================================================================
