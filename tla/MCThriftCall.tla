---------------------------- MODULE MCThriftCall ----------------------------
(***************************************************************************)
(* What is claimed of ThriftCall and ConcurrentClient, by definitions that *)
(* look at the message as a tree, and the messages of an instance.         *)
(***************************************************************************)
EXTENDS ConcurrentClient

CONSTANTS t1, t2

(* A field of a tree: val for a base type, sub for a structure.            *)
Leaf(id, type, val) == [id |-> id, type |-> type, val |-> val, sub |-> <<>>]
Node(id, sub) == [id |-> id, type |-> "struct", val |-> 0, sub |-> sub]

RECURSIVE Tokens(_)
Tokens(fields) ==
  FlattenSeq([i \in DOMAIN fields |->
    <<Field(fields[i].id, fields[i].type, fields[i].val)>>
      \o (IF fields[i].type = "struct" THEN Tokens(fields[i].sub) ELSE <<>>)])
  \o <<Stop>>

(* The fields of a tree that the structure s has, with the same type.      *)
Understood(fields, s) ==
  {i \in DOMAIN fields : /\ fields[i].id \in DOMAIN Fields(s)
                         /\ fields[i].type = Fields(s)[fields[i].id].type}

(* Every field that must be there is understood, in the structures inside  *)
(* as well.                                                                *)
RECURSIVE Acceptable(_, _)
Acceptable(fields, s) ==
  /\ \A id \in DOMAIN Fields(s) :
       Fields(s)[id].need = "required" =>
         \E i \in Understood(fields, s) : fields[i].id = id
  /\ \A i \in Understood(fields, s) :
       fields[i].type = "struct" =>
         Acceptable(fields[i].sub, Fields(s)[fields[i].id].of)

RECURSIVE Meaning(_, _, _)
Meaning(fields, s, path) ==
  UNION {LET p == Append(path, fields[i].id)
         IN  IF fields[i].type = "struct"
               THEN Meaning(fields[i].sub, Fields(s)[fields[i].id].of, p)
               ELSE {[path |-> p, val |-> fields[i].val]} :
         i \in Understood(fields, s)}

FirstHop == posted = {} /\ at = message.at

(* Whatever version of the interface the peer has, the handler is called   *)
(* exactly when every required field was understood, and with exactly the  *)
(* fields that were.                                                       *)
CalledWithWhatWasMeant ==
  FirstHop =>
    /\ outcome = "called" =>
         /\ Acceptable(message.fields, method)
         /\ object = Meaning(message.fields, method, <<>>)
    /\ outcome = "thrown" => ~Acceptable(message.fields, method)

-----------------------------------------------------------------------------
(* The messages: what write() writes, and what other versions make of it.  *)

LocationTree == <<Leaf(1, "double", 31), Leaf(2, "double", 32)>>

ShipTree(optional) ==
  SelectSeq([id \in DOMAIN Ship |-> IF id = 9 THEN Node(9, LocationTree)
                                   ELSE Leaf(id, Ship[id].type, 20 + id)],
            LAMBDA f : Ship[f.id].need = "required" \/ f.id \in optional)

(* A structure nobody knows, with the ids of fields that are known.        *)
Strange(id) == Node(id, <<Leaf(1, "string", 99), Node(2, LocationTree),
                          Leaf(4, "i32", 99)>>)

(* A version without a field, with one more, with one of another type, or  *)
(* with two in another order.                                              *)
Versions(fields) ==
  {fields}
  \cup {RemoveAt(fields, i) : i \in DOMAIN fields}
  \cup {InsertAt(fields, i, f) : i \in DOMAIN fields,
                                 f \in {Leaf(12, "i32", 99), Strange(13)}}
  \cup {[fields EXCEPT ![i] = Leaf(@.id, "bool", 99)] : i \in DOMAIN fields}
  \cup {[fields EXCEPT ![i] = Strange(@.id)] : i \in DOMAIN fields}
  \cup {[fields EXCEPT ![i] = fields[i + 1], ![i + 1] = fields[i]] :
          i \in 1 .. Len(fields) - 1}

(* Ships of a version twice removed; locations of one version or more.     *)
Ships ==
  UNION {UNION {Versions(v) : v \in Versions(ShipTree(opt))} :
           opt \in {{6}, 5 .. 11}} \cup
  {[ShipTree({9, 11}) EXCEPT ![5] = Node(9, loc)] :
     loc \in UNION {Versions(v) : v \in Versions(LocationTree)}}

Message(who, m, fields) ==
  [at |-> who, method |-> m, fields |-> fields, frame |-> Tokens(fields)]

ShipArgs(ship) == <<Leaf(1, "string", 11), Node(2, ship)>>
NameArgs == <<Leaf(1, "string", 11)>>

MCMessages ==
  {Message("server", "postShip", ShipArgs(ship)) : ship \in Ships}
  \cup {Message("client", "on_subscribeShip", ShipArgs(ship)) :
           ship \in Versions(ShipTree({6, 9}))}
  \cup {Message("server", "postShip", args) :
          args \in Versions(ShipArgs(ShipTree({6, 9})))}
  \cup {Message("server", m, args) :
          m \in {"setUserName", "broadcast"}, args \in Versions(NameArgs)}
  \cup {Message("client", m, args) :
          m \in {"on_subscribe", "on_broadcast"},
          args \in Versions(<<Leaf(1, "i64", 11)>>)}

(* One thread that sends one message of any version, or two threads that   *)
(* each make two calls.                                                    *)
Script(s1, s2) == t1 :> s1 @@ t2 :> s2
Call(m, args) == Message("server", m, args)
Ack(m, args) == Message("client", m, args)

MCScripts ==
  {Script(<<m>>, <<>>) : m \in MCMessages} \cup
  {Script(<<Call("setUserName", NameArgs), Call("postShip", ShipArgs(ShipTree({6})))>>,
          <<Call("getVersion", <<>>), Call("subscribe", NameArgs)>>),
   Script(<<Ack("on_subscribeShip", ShipArgs(ShipTree({9}))), Ack("on_getVersion", NameArgs)>>,
          <<Ack("on_unsubscribe_succeeded", <<>>), Ack("on_getVersion_failed", NameArgs)>>)}
=============================================================================
