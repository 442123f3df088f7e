----------------------------- MODULE ThriftCall -----------------------------
(***************************************************************************)
(* One call of the generated code (thrift/gen-cpp): the processor reads a  *)
(* frame and calls the handler; and a ship that was posted is written      *)
(* again for, and read by, another client.                                 *)
(*                                                                         *)
(* The peer that wrote the frame may have been generated from another      *)
(* version of talker.thrift: it may leave fields out, have fields of its   *)
(* own, give a field another type, or write fields in another order.  Its  *)
(* frames are well formed.                                                 *)
(*                                                                         *)
(* A frame is a sequence of tokens, one for each field and one for the end *)
(* of each structure, the arguments of the call being the outermost one.   *)
(* What is read into the arguments is kept by path: <<2, 9, 1>> is field 1 *)
(* of field 9 of the second argument.                                      *)
(***************************************************************************)
EXTENDS Integers, FiniteSets, SequencesExt

Field(id, type, val) == [kind |-> "field", id |-> id, type |-> type, val |-> val]
Stop == [kind |-> "stop", id |-> 0, type |-> "stop", val |-> 0]

(* How many structures are open when i tokens of f have been read.         *)
OpenAfter(f, i) == 1 + Cardinality({k \in 1 .. i : f[k].type = "struct"})
                     - Cardinality({k \in 1 .. i : f[k].kind = "stop"})

(* Every structure ends, and the frame with the outermost one.             *)
WellFormed(f) ==
  /\ \A i \in DOMAIN f : /\ f[i].kind \in {"field", "stop"}
                         /\ f[i].kind = "stop" => f[i].type # "struct"
  /\ \A i \in 0 .. Len(f) : /\ OpenAfter(f, i) \in Nat
                            /\ OpenAfter(f, i) = 0 <=> i = Len(f)

(* The structures as talker.thrift declares them.                          *)
Required(type)  == [type |-> type, need |-> "required", of |-> "none"]
Optional(type)  == [type |-> type, need |-> "optional", of |-> "none"]
Struct(need, s) == [type |-> "struct", need |-> need, of |-> s]

String == <<Required("string")>>
Id     == <<Required("i64")>>

ServerArgs ==
  [getVersion  |-> <<>>,
   setUserName |-> String,
   subscribe   |-> String,
   unsubscribe |-> String,
   postShip    |-> <<Required("string"), Struct("required", "Ship")>>]

ClientArgs ==
  [on_getVersion             |-> String,
   on_getVersion_failed      |-> String,
   on_setUserName_succeeded  |-> Id,
   on_setUserName_failed     |-> String,
   on_subscribe              |-> Id,
   on_subscribe_failed       |-> String,
   on_unsubscribe_succeeded  |-> <<>>,
   on_unsubscribe_failed     |-> String,
   on_subscribeShip          |-> <<Required("string"), Struct("required", "Ship")>>,
   on_subscribeShip_failed   |-> String]

Ship ==
  <<Required("string"), Required("string"), Required("i32"), Required("i32"),
    Optional("i32"), Optional("string"), Optional("string"), Optional("string"),
    Struct("optional", "Location"), Optional("string"), Optional("string")>>

Location == <<Required("double"), Required("double")>>

Fields(s) == CASE s = "Ship"               -> Ship
               [] s = "Location"           -> Location
               [] s \in DOMAIN ServerArgs -> ServerArgs[s]
               [] OTHER                    -> ClientArgs[s]

(* The methods in processMap_ of the two processors.                       *)
ProcessMap == [server |-> DOMAIN ServerArgs, client |-> DOMAIN ClientArgs]

VARIABLES
  message,  \* history: the message [at, method, fields, frame] that was sent
  at,       \* the program that processes the frame
  method,   \* its method name
  frame,    \* what is left of the frame
  readers,  \* the read()s under way, the innermost last
  depth,    \* how many structures skip() is in
  object,   \* the fields of the arguments that were read: [path, val]
  isset,    \* the paths whose __isset flag is set
  posted,   \* history: the fields of the ship that was posted
  outcome

vars == <<message, at, method, frame, readers, depth, object, isset, posted,
          outcome>>

Outcomes ==
  {"waiting",  \* for a frame
   "arrived", "reading", "skipping",
   "called",   \* the handler was called
   "thrown",   \* read() threw a TProtocolException
   "replied",  \* the method is unknown; an exception was sent back
   "crashed"}  \* the method is unknown, and there is no oprot to send on

NoMessage == [at |-> "server", method |-> "", fields |-> <<>>, frame |-> <<>>]

Init ==
  /\ message = NoMessage /\ at = "server" /\ method = "" /\ frame = <<>>
  /\ readers = <<>> /\ depth = 0
  /\ object = {} /\ isset = {} /\ posted = {}
  /\ outcome = "waiting"

(* process(): a frame is taken up that was sent as message m.              *)
Receive(m, tokens) ==
  /\ message' = m /\ at' = m.at /\ method' = m.method /\ frame' = tokens
  /\ readers' = <<>> /\ depth' = 0
  /\ object' = {} /\ isset' = {} /\ posted' = {}
  /\ outcome' = "arrived"

-----------------------------------------------------------------------------
(* dispatchCall and the process_ function of the method.                   *)

(* read() of a structure has local flags for its required fields.          *)
Reader(s, path) == [struct |-> s, path |-> path, seen |-> {}]

DispatchKnown ==
  /\ outcome = "arrived" /\ method \in ProcessMap[at]
  /\ readers' = <<Reader(method, <<>>)>>
  /\ outcome' = "reading"
  /\ UNCHANGED <<message, at, method, frame, depth, object, isset, posted>>

DispatchUnknown ==
  /\ outcome = "arrived" /\ method \notin ProcessMap[at]
  /\ depth' = 1
  /\ outcome' = "skipping"
  /\ UNCHANGED <<message, at, method, frame, readers, object, isset, posted>>

(* The exception is written to oprot, which is null in the client.         *)
UnknownSkipped ==
  /\ outcome = "skipping" /\ depth = 0
  /\ outcome' = IF at = "server" THEN "replied" ELSE "crashed"
  /\ UNCHANGED <<message, at, method, frame, readers, depth, object, isset,
                 posted>>

-----------------------------------------------------------------------------
(* read(): one turn of the loop for each field.                            *)

Inner == Last(readers)

(* Seeded fault for Path: what is read in a structure is put outside.      *)
PathInArguments(id) == <<id>>

Path(id) == Append(Inner.path, id)

Turn(kind) ==
  /\ outcome = "reading" /\ depth = 0
  /\ frame # <<>> /\ Head(frame).kind = kind
  /\ frame' = Tail(frame)

(* The case for the field's id, and the type it must have.                 *)
IsKnown(f) ==
  /\ f.id \in DOMAIN Fields(Inner.struct)
  /\ f.type = Fields(Inner.struct)[f.id].type

(* rs with the flag of field id set in the innermost read(); an optional   *)
(* field's flag is in the object.                                          *)
Seen(rs, id) == [rs EXCEPT ![Len(rs)].seen = @ \cup {id}]

IsSet(reader, id) ==
  IF Fields(reader.struct)[id].need = "optional"
    THEN isset \cup {Append(reader.path, id)} ELSE isset

ReadField ==
  /\ Turn("field")
  /\ LET f == Head(frame)
     IN  /\ IsKnown(f) /\ f.type # "struct"
         /\ object' = {o \in object : o.path # Path(f.id)}
                        \cup {[path |-> Path(f.id), val |-> f.val]}
         /\ readers' = Seen(readers, f.id)
         /\ isset' = IsSet(Inner, f.id)
  /\ UNCHANGED <<message, at, method, depth, posted, outcome>>

ReadStruct ==
  /\ Turn("field")
  /\ LET f == Head(frame)
     IN  /\ IsKnown(f) /\ f.type = "struct"
         /\ readers' = Append(readers,
              Reader(Fields(Inner.struct)[f.id].of, Path(f.id)))
  /\ UNCHANGED <<message, at, method, depth, object, isset, posted, outcome>>

(* skip(): a structure is left to Skip.                                    *)
SkipField ==
  /\ Turn("field")
  /\ ~IsKnown(Head(frame))
  /\ depth' = IF Head(frame).type = "struct" THEN 1 ELSE 0
  /\ UNCHANGED <<message, at, method, readers, object, isset, posted, outcome>>

(* Seeded fault for Skip: the first end of a structure ends it.            *)
SkipToStop ==
  /\ outcome \in {"reading", "skipping"} /\ depth > 0 /\ frame # <<>>
  /\ depth' = IF Head(frame).kind = "stop" THEN 0 ELSE depth
  /\ frame' = Tail(frame)
  /\ UNCHANGED <<message, at, method, readers, object, isset, posted, outcome>>

Skip ==
  /\ outcome \in {"reading", "skipping"} /\ depth > 0 /\ frame # <<>>
  /\ depth' = CASE Head(frame).kind = "stop"   -> depth - 1
                [] Head(frame).type = "struct" -> depth + 1
                [] OTHER                       -> depth
  /\ frame' = Tail(frame)
  /\ UNCHANGED <<message, at, method, readers, object, isset, posted, outcome>>

(* Seeded fault for RequiredIds: required fields are not checked for.      *)
NoRequiredIds(s) == {}

RequiredIds(s) == {id \in DOMAIN Fields(s) : Fields(s)[id].need = "required"}

(* The structure is complete: the read() around it goes on, or, if it was  *)
(* the arguments, the handler is called.                                   *)
StructEnds ==
  /\ Turn("stop")
  /\ RequiredIds(Inner.struct) \subseteq Inner.seen
  /\ IF Len(readers) = 1
       THEN /\ readers' = <<>>
            /\ outcome' = "called"
            /\ UNCHANGED isset
       ELSE LET id == Last(Inner.path)
                rs == Front(readers)
            IN  /\ readers' = Seen(rs, id)
                /\ isset' = IsSet(Last(rs), id)
                /\ UNCHANGED outcome
  /\ UNCHANGED <<message, at, method, depth, object, posted>>

StructThrows ==
  /\ Turn("stop")
  /\ ~ (RequiredIds(Inner.struct) \subseteq Inner.seen)
  /\ outcome' = "thrown"
  /\ UNCHANGED <<message, at, method, readers, depth, object, isset, posted>>

-----------------------------------------------------------------------------
(* write().                                                                *)

ValueAt(path) == (CHOOSE o \in object : o.path = path).val

(* Seeded fault for IsWritten: optional fields are left out.               *)
IsWrittenIfRequired(f, path) == f.need = "required"

(* A required field is written always, an optional one if its flag is set. *)
IsWritten(f, path) == f.need = "required" \/ path \in isset

(* nested: what is written for the structure inside, if it has one.        *)
WriteStruct(s, path, nested) ==
  LET written(id) ==
        LET f == Fields(s)[id]
            p == Append(path, id)
        IN  IF ~IsWritten(f, p) THEN <<>>
            ELSE IF f.type = "struct" THEN <<Field(id, "struct", 0)>> \o nested
            ELSE <<Field(id, f.type, ValueAt(p))>>
  IN  FlattenSeq([id \in DOMAIN Fields(s) |-> written(id)]) \o <<Stop>>

WriteLocation(path) == WriteStruct("Location", path, <<>>)
WriteShip(path) == WriteStruct("Ship", path, WriteLocation(Append(path, 9)))

(* The name the server gives to the author of a ship.                      *)
UserName == 0

(* postShip of the server calls on_subscribeShip on the other clients.     *)
Forward ==
  /\ at = "server" /\ outcome = "called" /\ method = "postShip"
  /\ at' = "client" /\ method' = "on_subscribeShip"
  /\ frame' = <<Field(1, "string", UserName), Field(2, "struct", 0)>>
                \o WriteShip(<<2>>) \o <<Stop>>
  /\ posted' = {o \in object : o.path[1] = 2}
  /\ object' = {} /\ isset' = {} /\ outcome' = "arrived"
  /\ UNCHANGED <<message, readers, depth>>

-----------------------------------------------------------------------------
Process ==
  \/ DispatchKnown \/ DispatchUnknown \/ UnknownSkipped
  \/ ReadField \/ ReadStruct \/ SkipField \/ Skip
  \/ StructEnds \/ StructThrows
  \/ Forward

-----------------------------------------------------------------------------
HasValue(path) == \E o \in object : o.path = path

(* What write() would write of the fields of s itself has been read.       *)
FieldsRead(s, path) ==
  \A id \in DOMAIN Fields(s) :
    Fields(s)[id].type # "struct" /\ IsWritten(Fields(s)[id], Append(path, id))
      => HasValue(Append(path, id))

TakesShip == method \in {"postShip", "on_subscribeShip"}

(* A frame that does not make read() throw is consumed to its last token:  *)
(* fields that are not understood, whatever structures they hold, do not   *)
(* put the reader out of step.                                             *)
FrameConsumed ==
  outcome \in {"called", "replied", "crashed"} => frame = <<>>

(* A ship that was posted reaches the others as it was understood: flags   *)
(* and values survive being read, written and read again.                  *)
ForwardedUnchanged ==
  posted # {} =>
    /\ outcome # "thrown"
    /\ outcome = "called" => {o \in object : o.path[1] = 2} = posted

(* A handler never uses, and the server never passes on, a field that the  *)
(* peer did not send: when it is called, all that write() would write of   *)
(* the arguments, of the ship and of a location whose flag is set, has     *)
(* been read, in whatever order and however often the fields came.         *)
NothingUnread ==
  outcome = "called" =>
    /\ FieldsRead(method, <<>>)
    /\ TakesShip =>
         /\ FieldsRead("Ship", <<2>>)
         /\ <<2, 9>> \in isset => FieldsRead("Location", <<2, 9>>)
=============================================================================
