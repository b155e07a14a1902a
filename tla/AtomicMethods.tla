----------------------------- MODULE AtomicMethods -----------------------------
(***************************************************************************)
(* What the decorated methods promise to who knows nothing of connections, *)
(* query runners and nested calls: a request commits once, with all the    *)
(* methods that joined it; a method in a transaction of its own commits    *)
(* before its caller; nothing is committed once the request has been       *)
(* answered; and an event is published only of what is committed, and      *)
(* before its client is told that all went well.                           *)
(***************************************************************************)
CONSTANTS Request, Kinds

VARIABLES
    open,       \* the requests that are being served
    kind,       \* kind[r]: the shape of request r
    reply,      \* reply[r]: what its client was told
    durable,    \* the methods whose work is committed
    published   \* the requests whose event is out

vars == <<open, kind, reply, durable, published>>

Own(r) == <<r, "outer">>
Joined(r) == <<r, "joined">>
New(r) == <<r, "inner">>

Init ==
    /\ open = {}
    /\ kind \in [Request -> Kinds]
    /\ reply = [r \in Request |-> "none"]
    /\ durable = {}
    /\ published = {}

(* The slot of request r is used for a new one.                            *)
Arrive(r, k) ==
    /\ r \notin open
    /\ open' = open \cup {r}
    /\ kind' = [kind EXCEPT ![r] = k]
    /\ reply' = [reply EXCEPT ![r] = "none"]
    /\ durable' = {x \in durable : x[1] # r}
    /\ published' = published \ {r}

(* A REQUIRES_NEW method commits, whatever becomes of its caller.          *)
CommitNew(r) ==
    /\ r \in open /\ kind[r] = "findOne"
    /\ Own(r) \notin durable
    /\ durable' = durable \cup {New(r)}
    /\ UNCHANGED <<open, kind, reply, published>>

(* The request commits, the REQUIRED method it called along with it; one   *)
(* whose REQUIRES_NEW method failed does not, as findOne does not catch.   *)
Commit(r) ==
    /\ r \in open
    /\ Own(r) \notin durable
    /\ kind[r] = "findOne" => New(r) \in durable
    /\ durable' = durable \cup {Own(r)}
                          \cup (IF kind[r] = "findAll" THEN {Joined(r)} ELSE {})
    /\ UNCHANGED <<open, kind, reply, published>>

(* The event of a committed request gets out; its publisher may have given *)
(* up, or died.                                                            *)
Publish(r) ==
    /\ Own(r) \in durable /\ kind[r] # "command"
    /\ published' = published \cup {r}
    /\ UNCHANGED <<open, kind, reply, durable>>

(* The client is told of success, when there is nothing left to be done.   *)
AnswerOk(r) ==
    /\ r \in open
    /\ Own(r) \in durable
    /\ kind[r] # "command" => r \in published
    /\ open' = open \ {r}
    /\ reply' = [reply EXCEPT ![r] = "ok"]
    /\ UNCHANGED <<kind, durable, published>>

(* It is told of an error, which says nothing of what has been done.       *)
AnswerError(r) ==
    /\ r \in open
    /\ open' = open \ {r}
    /\ reply' = [reply EXCEPT ![r] = "error"]
    /\ UNCHANGED <<kind, durable, published>>

(* The process dies.                                                       *)
Crash ==
    /\ open' = {}
    /\ UNCHANGED <<kind, reply, durable, published>>

Next ==
    \/ \E r \in Request :
          \/ \E k \in Kinds : Arrive(r, k)
          \/ CommitNew(r) \/ Commit(r) \/ Publish(r)
          \/ AnswerOk(r) \/ AnswerError(r)
    \/ Crash

Spec == Init /\ [][Next]_vars
=============================================================================
