----------------------------- MODULE Transactional -----------------------------
(***************************************************************************)
(* The @Transactional decorator, the connections of one tenant's pool, and *)
(* the three shapes of service method that use them:                       *)
(*   "command"  one method, as in all the domain services;                 *)
(*   "findAll"  calls a second REQUIRED method, then publishes an event;   *)
(*   "findOne"  calls a REQUIRES_NEW method, then publishes an event.      *)
(* The last two are QueryService of src/customs.                           *)
(*                                                                         *)
(* A frame is one execution of setupQueryRunner and executeInTransaction.  *)
(* A request has an outer frame and, for findOne, an inner one.  The data  *)
(* is one token per method: that its statement took effect.                *)
(*                                                                         *)
(* An event is on its way from the call of publish on; SNS (external) may  *)
(* accept it before publish() settles, later, or never.  What it accepts   *)
(* twice, because the client library retried, is not told apart.           *)
(***************************************************************************)
EXTENDS FiniteSets, Naturals

CONSTANTS
    Request,        \* request slots
    Conn,           \* the connections the pool may open (poolSize)
    NoConn,
    Kinds,          \* the shapes of request that clients send
    SetupMayFail    \* can connecting, SET search_path or BEGIN fail?

ASSUME NoConnAssumption == NoConn \notin Conn
ASSUME KindsAssumption == Kinds \subseteq {"command", "findAll", "findOne"}
ASSUME SetupMayFailAssumption == SetupMayFail \in BOOLEAN

Frame == Request \X {"outer", "inner"}
Outer(r) == <<r, "outer">>
Inner(r) == <<r, "inner">>

Tokens == Request \X {"outer", "joined", "inner"}

VARIABLES
    phase,      \* phase[f]: where frame f is
    conn,       \* conn[f]: the connection of its query runner
    leaked,     \* connections taken from the pool that no frame will return
    pending,    \* pending[f]: the tokens written in f's open transaction
    failed,     \* failed[f]: is f going to throw?
    kind,       \* kind[r]: the shape of request r
    reply,      \* reply[r]: what its client was told last
    durable,    \* the tokens committed for the current requests
    sent,       \* the requests whose event is on its way to SNS
    published   \* the requests whose event SNS has accepted

events == <<sent, published>>
vars == <<phase, conn, leaked, pending, failed, kind, reply, durable, events>>

Setup == {"connect", "searchPath", "begin"}
Bodies == {"body", "call", "joined", "suspended"}
Ending == {"commit", "rollback", "release"}
Publishing == {"publish", "publishing"}
Phases == {"off"} \cup Publishing \cup Setup \cup Bodies \cup Ending

Leased == {conn[f] : f \in Frame} \ {NoConn}
Free == Conn \ (Leased \cup leaked)

Init ==
    /\ phase = [f \in Frame |-> "off"]
    /\ conn = [f \in Frame |-> NoConn]
    /\ leaked = {}
    /\ pending = [f \in Frame |-> {}]
    /\ failed = [f \in Frame |-> FALSE]
    /\ kind \in [Request -> Kinds]
    /\ reply = [r \in Request |-> "none"]
    /\ durable = {}
    /\ sent = {}
    /\ published = {}

-----------------------------------------------------------------------------
(* How a frame ends: what the caller of the decorated method sees.         *)

Goto(f, p) == phase' = [phase EXCEPT ![f] = p]

(* The HTTP request is answered.                                           *)
Answer(r, what) ==
    /\ Goto(Outer(r), "off")
    /\ reply' = [reply EXCEPT ![r] = what]

(* Mutant: the caller of a REQUIRES_NEW method never hears of its end.     *)
ResumeNobody(r, error) == phase' = [phase EXCEPT ![Inner(r)] = "off"]

(* The body of the outer frame goes on after the call of the inner method; *)
(* an error passes through it.                                             *)
Resume(r, error) ==
    phase' = [phase EXCEPT ![Inner(r)] = "off",
                           ![Outer(r)] = IF error THEN "rollback" ELSE "commit"]

End(f, error) ==
    LET r == f[1] IN
    CASE f = Inner(r) -> Resume(r, error) /\ UNCHANGED reply
      [] f = Outer(r) /\ error -> Answer(r, "error")
      [] f = Outer(r) /\ ~ error /\ kind[r] = "command" -> Answer(r, "ok")
      [] OTHER -> Goto(f, "publish") /\ UNCHANGED reply

-----------------------------------------------------------------------------
(* setupQueryRunner                                                        *)

(* A request comes in; no transaction is open in its async context, hence  *)
(* REQUIRED sets one up.  The tokens and the event of the slot's previous  *)
(* request are forgotten.                                                  *)
Arrive(r, k) ==
    /\ phase[Outer(r)] = "off"
    /\ Goto(Outer(r), "connect")
    /\ kind' = [kind EXCEPT ![r] = k]
    /\ reply' = [reply EXCEPT ![r] = "none"]
    /\ durable' = {x \in durable : x[1] # r}
    /\ sent' = sent \ {r}
    /\ published' = published \ {r}
    /\ UNCHANGED <<conn, leaked, pending, failed>>

(* queryRunner.connect: waits, without a time limit, for a free connection *)
(* of the pool.                                                            *)
Connect(f) ==
    /\ phase[f] = "connect"
    /\ \E c \in Free : conn' = [conn EXCEPT ![f] = c]
    /\ Goto(f, "searchPath")
    /\ UNCHANGED <<leaked, pending, failed, kind, reply, durable, events>>

SetSearchPath(f) ==
    /\ phase[f] = "searchPath"
    /\ Goto(f, "begin")
    /\ UNCHANGED <<conn, leaked, pending, failed, kind, reply, durable, events>>

StartTransaction(f) ==
    /\ phase[f] = "begin"
    /\ Goto(f, "body")
    /\ UNCHANGED <<conn, leaked, pending, failed, kind, reply, durable, events>>

(* The try block, whose finally releases the connection, begins after the  *)
(* set-up: an error in it leaves the connection with nobody.  Opening one  *)
(* may fail; waiting for one does not.                                     *)
SetupFails(f) ==
    /\ SetupMayFail
    /\ phase[f] \in Setup
    /\ phase[f] = "connect" => Free # {}
    /\ leaked' = leaked \cup ({conn[f]} \ {NoConn})
    /\ conn' = [conn EXCEPT ![f] = NoConn]
    /\ End(f, TRUE)
    /\ UNCHANGED <<pending, failed, kind, durable, events>>

-----------------------------------------------------------------------------
(* The method bodies                                                       *)

AddToken(f, x) == pending' = [pending EXCEPT ![f] = @ \cup {x}]

(* Mutant: the event is published from within the transaction.             *)
StatementPublishes(f) ==
    /\ phase[f] = "body"
    /\ AddToken(f, f)
    /\ Goto(f, IF f = Inner(f[1]) \/ kind[f[1]] = "command"
               THEN "commit" ELSE "call")
    /\ sent' = sent \cup {f[1]}
    /\ UNCHANGED <<conn, leaked, failed, kind, reply, durable, published>>

(* Mutant: a REQUIRES_NEW method finds the entity manager of its caller.   *)
StatementJoins(f) ==
    /\ phase[f] = "body"
    /\ AddToken(Outer(f[1]), f)
    /\ Goto(f, IF f = Inner(f[1]) \/ kind[f[1]] = "command"
               THEN "commit" ELSE "call")
    /\ UNCHANGED <<conn, leaked, failed, kind, reply, durable, events>>

(* The method's own statements; a findAll or findOne then calls another.   *)
Statement(f) ==
    /\ phase[f] = "body"
    /\ AddToken(f, f)
    /\ Goto(f, IF f = Inner(f[1]) \/ kind[f[1]] = "command"
               THEN "commit" ELSE "call")
    /\ UNCHANGED <<conn, leaked, failed, kind, reply, durable, events>>

(* findAll calls a REQUIRED method: the entity manager in the async        *)
(* context is found and the method runs in the open transaction.           *)
CallRequired(r) ==
    /\ phase[Outer(r)] = "call" /\ kind[r] = "findAll"
    /\ Goto(Outer(r), "joined")
    /\ UNCHANGED <<conn, leaked, pending, failed, kind, reply, durable, events>>

(* Mutant: the joined method commits on its own.                           *)
JoinedCommits(r) ==
    /\ phase[Outer(r)] = "joined"
    /\ durable' = durable \cup {<<r, "joined">>}
    /\ Goto(Outer(r), "commit")
    /\ UNCHANGED <<conn, leaked, pending, failed, kind, reply, events>>

JoinedStatement(r) ==
    /\ phase[Outer(r)] = "joined"
    /\ AddToken(Outer(r), <<r, "joined">>)
    /\ Goto(Outer(r), "commit")
    /\ UNCHANGED <<conn, leaked, failed, kind, reply, durable, events>>

(* findOne calls a REQUIRES_NEW method, and waits for it with its own      *)
(* transaction open.                                                       *)
CallRequiresNew(r) ==
    /\ phase[Outer(r)] = "call" /\ kind[r] = "findOne"
    /\ phase' = [phase EXCEPT ![Outer(r)] = "suspended", ![Inner(r)] = "connect"]
    /\ UNCHANGED <<conn, leaked, pending, failed, kind, reply, durable, events>>

(* A statement is refused, or the body throws (not found, conflict, ...).  *)
BodyThrows(f) ==
    /\ phase[f] \in {"body", "joined"}
    /\ Goto(f, "rollback")
    /\ UNCHANGED <<conn, leaked, pending, failed, kind, reply, durable, events>>

-----------------------------------------------------------------------------
(* executeInTransaction                                                    *)

CommitTransaction(f) ==
    /\ phase[f] = "commit"
    /\ durable' = durable \cup pending[f]
    /\ pending' = [pending EXCEPT ![f] = {}]
    /\ Goto(f, "release")
    /\ UNCHANGED <<conn, leaked, failed, kind, reply, events>>

(* The COMMIT reports an error: the server has rolled back, or the answer  *)
(* got lost after it committed.                                            *)
CommitFails(f) ==
    /\ phase[f] = "commit"
    /\ \/ durable' = durable \cup pending[f] /\ pending' = [pending EXCEPT ![f] = {}]
       \/ UNCHANGED <<durable, pending>>
    /\ Goto(f, "rollback")
    /\ UNCHANGED <<conn, leaked, failed, kind, reply, events>>

(* Mutant: the error is not thrown on.                                     *)
RollbackSilently(f) ==
    /\ phase[f] = "rollback"
    /\ pending' = [pending EXCEPT ![f] = {}]
    /\ Goto(f, "release")
    /\ UNCHANGED <<conn, leaked, failed, kind, reply, durable, events>>

RollbackTransaction(f) ==
    /\ phase[f] = "rollback"
    /\ pending' = [pending EXCEPT ![f] = {}]
    /\ failed' = [failed EXCEPT ![f] = TRUE]
    /\ Goto(f, "release")
    /\ UNCHANGED <<conn, leaked, kind, reply, durable, events>>

(* Mutant: the error gets lost in the finally block.                       *)
ReleaseSwallows(f) ==
    /\ phase[f] = "release"
    /\ conn' = [conn EXCEPT ![f] = NoConn]
    /\ End(f, FALSE)
    /\ failed' = [failed EXCEPT ![f] = FALSE]
    /\ UNCHANGED <<leaked, pending, kind, durable, events>>

(* Mutant: the frame keeps its connection.                                 *)
ReleaseKeeps(f) ==
    /\ phase[f] = "release"
    /\ End(f, failed[f])
    /\ failed' = [failed EXCEPT ![f] = FALSE]
    /\ UNCHANGED <<conn, leaked, pending, kind, durable, events>>

(* The finally block; the result or the error then reaches the caller.     *)
Release(f) ==
    /\ phase[f] = "release"
    /\ conn' = [conn EXCEPT ![f] = NoConn]
    /\ End(f, failed[f])
    /\ failed' = [failed EXCEPT ![f] = FALSE]
    /\ UNCHANGED <<leaked, pending, kind, durable, events>>

-----------------------------------------------------------------------------
(* findAll and findOne publish once their transaction method has returned. *)

(* publish() is called.                                                    *)
Send(r) ==
    /\ phase[Outer(r)] = "publish"
    /\ Goto(Outer(r), "publishing")
    /\ sent' = sent \cup {r}
    /\ UNCHANGED <<conn, leaked, pending, failed, kind, reply, durable, published>>

(* SNS accepts an event, whatever has become of its sender.                *)
Accept(r) ==
    /\ r \in sent
    /\ sent' = sent \ {r}
    /\ published' = published \cup {r}
    /\ UNCHANGED <<phase, conn, leaked, pending, failed, kind, reply, durable>>

(* Mutant: nobody waits for publish().                                     *)
PublishNotAwaited(r) ==
    /\ phase[Outer(r)] = "publishing"
    /\ Answer(r, "ok")
    /\ UNCHANGED <<conn, leaked, pending, failed, kind, durable, events>>

(* publish() resolves: it has heard from SNS.                              *)
PublishResolves(r) ==
    /\ phase[Outer(r)] = "publishing" /\ r \in published
    /\ Answer(r, "ok")
    /\ UNCHANGED <<conn, leaked, pending, failed, kind, durable, events>>

(* publish() rejects, before it has sent the event or after: SNS refuses   *)
(* it, does not answer in time, or its answer gets lost.  Nobody takes the *)
(* event back, and nobody catches the error.                               *)
PublishRejects(r) ==
    /\ phase[Outer(r)] \in Publishing
    /\ Answer(r, "error")
    /\ UNCHANGED <<conn, leaked, pending, failed, kind, durable, events>>

(* The process dies: the server rolls back what is open and all the        *)
(* connections are gone; clients get no answer.  An event that was sent    *)
(* may still arrive.                                                       *)
Crash ==
    /\ phase' = [f \in Frame |-> "off"]
    /\ conn' = [f \in Frame |-> NoConn]
    /\ leaked' = {}
    /\ pending' = [f \in Frame |-> {}]
    /\ failed' = [f \in Frame |-> FALSE]
    /\ UNCHANGED <<kind, reply, durable, events>>

-----------------------------------------------------------------------------

Advance(f) ==
    \/ Connect(f)
    \/ SetSearchPath(f)
    \/ StartTransaction(f)
    \/ SetupFails(f)
    \/ Statement(f)
    \/ BodyThrows(f)
    \/ CommitTransaction(f)
    \/ CommitFails(f)
    \/ RollbackTransaction(f)
    \/ Release(f)
    \/ /\ f = Outer(f[1])
       /\ \/ CallRequired(f[1])
          \/ JoinedStatement(f[1])
          \/ CallRequiresNew(f[1])
          \/ Send(f[1])
          \/ PublishResolves(f[1])
          \/ PublishRejects(f[1])

Next ==
    \/ \E r \in Request, k \in Kinds : Arrive(r, k)
    \/ \E f \in Frame : Advance(f)
    \/ \E r \in Request : Accept(r)
    \/ Crash

Spec == Init /\ [][Next]_vars

(* The event loop runs every callback that is ready, and the pool serves   *)
(* its waiters first come first served: strong fairness per frame.         *)
FairSpec == Spec /\ \A f \in Frame : SF_vars(Advance(f))

-----------------------------------------------------------------------------
(* Properties                                                              *)

TypeOK ==
    /\ phase \in [Frame -> Phases]
    /\ conn \in [Frame -> Conn \cup {NoConn}]
    /\ leaked \in SUBSET Conn
    /\ pending \in [Frame -> SUBSET Tokens]
    /\ failed \in [Frame -> BOOLEAN]
    /\ kind \in [Request -> Kinds]
    /\ reply \in [Request -> {"none", "ok", "error"}]
    /\ durable \in SUBSET Tokens
    /\ sent \in SUBSET Request
    /\ published \in SUBSET Request

(* The phases in which a frame has a connection of its own.                *)
Holding == {"searchPath", "begin"} \cup Bodies \cup Ending

(* A frame has a connection exactly from connect to release, no two frames *)
(* (hence no two open transactions) share one, and a connection in use is  *)
(* not a lost one.                                                         *)
ConnectionsAccounted ==
    /\ \A f \in Frame :
          /\ phase[f] \in Holding <=> conn[f] # NoConn
          /\ conn[f] \notin leaked
    /\ \A f, g \in Frame : f # g /\ conn[f] # NoConn => conn[f] # conn[g]

(* What r has committed when its method bodies have returned.              *)
AllDurable(r) ==
    /\ Outer(r) \in durable
    /\ kind[r] = "findAll" => <<r, "joined">> \in durable
    /\ kind[r] = "findOne" => Inner(r) \in durable

(* A client that gets a 200 has everything its request wrote committed, in *)
(* the transaction of the method and in those of the methods it called.    *)
OkMeansDurable == \A r \in Request : reply[r] = "ok" => AllDurable(r)

(* A REQUIRED method called from a transaction belongs to it: its writes   *)
(* are never committed without those of its caller.                        *)
JoinedWithCaller ==
    \A r \in Request : <<r, "joined">> \in durable => Outer(r) \in durable

(* An event tells of work that is committed, that of the called methods    *)
(* included, from the moment it is sent and through any crash; a 200 means *)
(* that it is out.  The converse of neither holds: a committed request may *)
(* have no event, and an event may belong to a request answered with an    *)
(* error, or not at all.                                                   *)
PublishedAfterCommit ==
    \A r \in Request :
        /\ r \in sent \cup published => AllDurable(r)
        /\ reply[r] = "ok" /\ kind[r] # "command" => r \in published

(* The frames, their connections and their failures taken together, a      *)
(* request does what AtomicMethods says: among other things a nested       *)
(* REQUIRES_NEW method commits by itself and first, and nothing is         *)
(* committed after the answer (an event may be accepted after an error).   *)
Methods == INSTANCE AtomicMethods WITH open <- {r \in Request : phase[Outer(r)] # "off"}
ImplementsAtomicMethods == Methods!Spec

(* Frames that can go on without a further connection.                     *)
CanProceed(f) == phase[f] \in (Holding \ {"suspended"}) \cup Publishing

(* The connections that are not lost outnumber the requests in flight.     *)
SpareConnection == Cardinality(Conn \ leaked) > Cardinality(Request)

(* As long as there is a spare connection, the requests are not all        *)
(* waiting for connections that they hold themselves.                      *)
NoPoolDeadlock ==
    SpareConnection /\ (\E f \in Frame : phase[f] = "connect") =>
        Free # {} \/ \E f \in Frame : CanProceed(f)

(* Every request is answered, or its process dies, unless failed set-ups   *)
(* have used up the spare connections.                                     *)
EveryRequestAnswered ==
    \A r \in Request :
        phase[Outer(r)] # "off" ~> phase[Outer(r)] = "off" \/ ~ SpareConnection

(* "Always create a new transaction": a REQUIRES_NEW call gets one, or an  *)
(* error.                                                                  *)
RequiresNewStarts ==
    \A r \in Request : phase[Inner(r)] = "connect" ~> phase[Inner(r)] # "connect"

-----------------------------------------------------------------------------
(* The inductive invariant behind the four invariants above.               *)

(* An inner frame runs one statement: it neither calls nor publishes.      *)
InnerIsSimple ==
    \A r \in Request :
        phase[Inner(r)] \notin {"call", "joined", "suspended"} \cup Publishing

(* A REQUIRES_NEW frame exists only while its caller waits for it.         *)
SuspendedForInner ==
    \A r \in Request : phase[Outer(r)] = "suspended" <=> phase[Inner(r)] # "off"

(* What the outer frame of a request has written so far ...                *)
OuterWork(r) ==
    /\ phase[Outer(r)] \in {"call", "joined", "suspended", "commit"} =>
          Outer(r) \in pending[Outer(r)]
    /\ phase[Outer(r)] = "commit" =>
          /\ kind[r] = "findAll" => <<r, "joined">> \in pending[Outer(r)]
          /\ kind[r] = "findOne" => Inner(r) \in durable
    /\ phase[Outer(r)] = "release" /\ ~ failed[Outer(r)] => AllDurable(r)
    /\ phase[Outer(r)] \in Publishing => AllDurable(r) /\ kind[r] # "command"
    /\ phase[Outer(r)] = "suspended" => kind[r] = "findOne"
    /\ phase[Outer(r)] = "joined" => kind[r] = "findAll"

(* ... and its inner frame.                                                *)
InnerWork(r) ==
    /\ phase[Inner(r)] = "commit" => Inner(r) \in pending[Inner(r)]
    /\ phase[Inner(r)] = "release" /\ ~ failed[Inner(r)] => Inner(r) \in durable

WorkSoFar == \A r \in Request : OuterWork(r) /\ InnerWork(r)

(* Only the outer transaction of a request ever holds the joined token.    *)
JoinedInOuter ==
    /\ \A r \in Request : <<r, "joined">> \in pending[Outer(r)] =>
                              Outer(r) \in pending[Outer(r)]
    /\ \A r \in Request, g \in Frame : <<r, "joined">> \in pending[g] => g = Outer(r)

(* What a frame has written is undone or committed before it ends, and is  *)
(* the work of its own method and of the one that joined it.               *)
OwnWritesOnly ==
    \A f \in Frame :
        /\ pending[f] # {} => phase[f] \in {"call", "joined", "suspended", "commit", "rollback"}
        /\ \A x \in pending[f] :
              x = f \/ (f = Outer(f[1]) /\ kind[f[1]] = "findAll" /\ x = <<f[1], "joined">>)

(* A request that has committed is on its way to the answer.               *)
CommittedIsEnding ==
    \A r \in Request : Outer(r) \in durable =>
        phase[Outer(r)] \in {"rollback", "release", "off"} \cup Publishing

(* Replies belong to requests that are over, and events to those that have *)
(* called publish.                                                         *)
RepliedIsOver ==
    \A r \in Request :
        /\ reply[r] = "ok" => phase[Outer(r)] = "off"
        /\ r \in sent \cup published =>
              phase[Outer(r)] \in {"publishing", "off"} /\ kind[r] # "command"

FrameInv ==
    /\ TypeOK
    /\ ConnectionsAccounted
    /\ InnerIsSimple
    /\ SuspendedForInner
    /\ WorkSoFar
    /\ JoinedInOuter
    /\ OwnWritesOnly
    /\ CommittedIsEnding
    /\ RepliedIsOver
    /\ OkMeansDurable
    /\ JoinedWithCaller
    /\ PublishedAfterCommit
    /\ SetupMayFail = FALSE => leaked = {}

=============================================================================
