----------------------------- MODULE SampleConsumer -----------------------------
(***************************************************************************)
(* SampleSqsConsumer.onMessage as its container runs it: up to             *)
(* maxConcurrentMessages calls at a time, each of them a Request for a data*)
(* source of DatasourceManager and then for a connection from its pool.    *)
(* The message is acknowledged when onMessage returns (ON_SUCCESS) and     *)
(* deleted with the next batch of acknowledgements.  The queue (external)  *)
(* delivers it again if its visibility timeout passes before that.         *)
(***************************************************************************)
EXTENDS DatasourceManager

CONSTANTS
    Message,
    Deliveries,     \* what may be sent: functions from Message to a tenant, to
                    \* NoTenant if that attribute is missing, or to Invalid if
                    \* the message is no SampleEvent
    Invalid, NoMessage,
    PoolSize,       \* connectionPoolConfig.max
    MaxFailures     \* bound on the failures: of the database, of the process

ASSUME MessageAssumption ==
    /\ NoMessage \notin Message /\ Invalid \notin Tenant \cup {NoTenant}
    /\ Deliveries \subseteq [Message -> Tenant \cup {NoTenant, Invalid}]
ASSUME SizeAssumption == PoolSize \in Nat \ {0} /\ MaxFailures \in Nat

VARIABLES
    sent,           \* sent[m]: the tenant in the attributes of m, see Deliveries
    queue,          \* queue[m]: "visible", "inFlight", "deleted"
    acks,           \* the acknowledgements not sent yet
    at,             \* at[s]: where onMessage is
    message,        \* message[s]: the message it was called with
    connection,     \* connection[s]: the pool its connection was taken from
    leaked,         \* leaked[p]: the connections of p that nobody will release
    queried,        \* history: the messages whose query was answered
    failures        \* history: the number of failures

onMessage == <<at, message, connection>>
consumerVars == <<vars, sent, queue, acks, onMessage, leaked, queried, failures>>

ConsumerInit ==
    /\ Init
    /\ sent \in Deliveries
    /\ queue = [m \in Message |-> "visible"]
    /\ acks = {}
    /\ at = [s \in Request |-> "idle"]
    /\ message = [s \in Request |-> NoMessage]
    /\ connection = [s \in Request |-> NoPool]
    /\ leaked = [p \in Pool |-> 0]
    /\ queried = {}
    /\ failures = 0

-----------------------------------------------------------------------------

Continue(s, label) == at' = [at EXCEPT ![s] = label]

(* The connections of p that are taken: by a call of onMessage, or for good*)
Taken(p) == Cardinality({s \in Request : connection[s] = p}) + leaked[p]

MayFail == failures < MaxFailures /\ failures' = failures + 1

(* onMessage rejects: the message is not acknowledged.                     *)
Reject(s) ==
    /\ Continue(s, "idle")
    /\ message' = [message EXCEPT ![s] = NoMessage]
    /\ UNCHANGED <<queue, acks, queried>>

-----------------------------------------------------------------------------
(* The queue and the container                                             *)

(* A message is received.  One that does not validate is acknowledged at   *)
(* once (ValidationFailureMode.ACKNOWLEDGE).                               *)
Receive(m) ==
    /\ queue[m] = "visible"
    /\ \E s \in Request : at[s] = "idle"
    /\ queue' = [queue EXCEPT ![m] = "inFlight"]
    /\ IF sent[m] = Invalid
       THEN acks' = acks \cup {m} /\ UNCHANGED <<at, message>>
       ELSE LET s == CHOOSE s \in Request : at[s] = "idle"
            IN /\ Continue(s, "delay")
               /\ message' = [message EXCEPT ![s] = m]
               /\ UNCHANGED acks
    /\ UNCHANGED <<vars, connection, leaked, queried, failures, sent>>

VisibilityTimeout(m) ==
    /\ queue[m] = "inFlight"
    /\ queue' = [queue EXCEPT ![m] = "visible"]
    /\ UNCHANGED <<vars, acks, onMessage, leaked, queried, failures, sent>>

(* A batch of acknowledgements is sent.                                    *)
SendAcks ==
    /\ acks # {}
    /\ queue' = [m \in Message |-> IF m \in acks THEN "deleted" ELSE queue[m]]
    /\ acks' = {}
    /\ UNCHANGED <<vars, onMessage, leaked, queried, failures, sent>>

-----------------------------------------------------------------------------
(* onMessage                                                               *)

(* After the delay: the tenant is taken from the attributes, or missing.   *)
TenantFrom(s) ==
    /\ at[s] = "delay" /\ pc[s] = "idle"
    /\ LET t == sent[message[s]]
       IN IF t = NoTenant
          THEN Reject(s) /\ UNCHANGED vars
          ELSE /\ GetDataSource(s, t)
               /\ Continue(s, "dataSource")
               /\ UNCHANGED <<queue, acks, message, queried>>
    /\ UNCHANGED <<connection, leaked, failures, sent>>

AwaitDataSource(s) ==
    /\ at[s] = "dataSource"
    /\ DataSourceOf(s) \/ Initialize(s) \/ Store(s)
    /\ UNCHANGED <<queue, acks, onMessage, leaked, queried, failures, sent>>

DataSourceFails(s) ==
    /\ at[s] = "dataSource"
    /\ Fail(s) /\ MayFail
    /\ Reject(s)
    /\ UNCHANGED <<connection, leaked, sent>>

(* Mutant: the pool has no limit.                                          *)
ConnectAtOnce(s) ==
    /\ at[s] = "dataSource" /\ pc[s] = "serving"
    /\ connection' = [connection EXCEPT ![s] = dataSource[s]]
    /\ Continue(s, "select")
    /\ UNCHANGED <<vars, queue, acks, message, leaked, queried, failures, sent>>

(* createQueryRunner, connect, which waits for a free connection, and SET  *)
(* search_path.                                                            *)
Connect(s) ==
    /\ at[s] = "dataSource" /\ pc[s] = "serving"
    /\ Taken(dataSource[s]) < PoolSize
    /\ connection' = [connection EXCEPT ![s] = dataSource[s]]
    /\ Continue(s, "select")
    /\ UNCHANGED <<vars, queue, acks, message, leaked, queried, failures, sent>>

(* No connection can be opened; or SET search_path fails on the one that   *)
(* was taken: getQueryRunner throws before queryRunner is assigned, and the*)
(* finally block has nothing to release.                                   *)
ConnectFails(s) ==
    /\ at[s] = "dataSource"
    /\ Answer(s) /\ MayFail
    /\ \/ UNCHANGED leaked
       \/ /\ Taken(dataSource[s]) < PoolSize
          /\ leaked' = [leaked EXCEPT ![dataSource[s]] = @ + 1]
    /\ Reject(s)
    /\ UNCHANGED <<connection, sent>>

(* Mutant: the error is logged and not thrown again.                       *)
QuerySwallowed(s) ==
    /\ at[s] = "select"
    /\ \/ queried' = queried \cup {message[s]} /\ UNCHANGED failures
       \/ MayFail /\ UNCHANGED queried
    /\ Continue(s, "resolve")
    /\ UNCHANGED <<vars, queue, acks, message, connection, leaked, sent>>

(* The query of onMessage.                                                 *)
Query(s) ==
    /\ at[s] = "select"
    /\ \/ queried' = queried \cup {message[s]} /\ Continue(s, "resolve") /\ UNCHANGED failures
       \/ Continue(s, "reject") /\ MayFail /\ UNCHANGED queried
    /\ UNCHANGED <<vars, queue, acks, message, connection, leaked, sent>>

(* Mutant: there is no finally block.                                      *)
ReturnWithoutRelease(s) ==
    /\ at[s] \in {"resolve", "reject"}
    /\ Answer(s)
    /\ connection' = [connection EXCEPT ![s] = NoPool]
    /\ leaked' = [leaked EXCEPT ![connection[s]] = @ + 1]
    /\ acks' = IF at[s] = "resolve" THEN acks \cup {message[s]} ELSE acks
    /\ Continue(s, "idle")
    /\ message' = [message EXCEPT ![s] = NoMessage]
    /\ UNCHANGED <<queue, queried, failures, sent>>

(* Mutant: nobody acknowledges (AcknowledgementMode.MANUAL).               *)
ReturnUnacknowledged(s) ==
    /\ at[s] \in {"resolve", "reject"}
    /\ Answer(s)
    /\ connection' = [connection EXCEPT ![s] = NoPool]
    /\ Continue(s, "idle")
    /\ message' = [message EXCEPT ![s] = NoMessage]
    /\ UNCHANGED <<queue, acks, leaked, queried, failures, sent>>

(* finally: the connection is released; then onMessage resolves, and the   *)
(* message is acknowledged, or rejects.                                    *)
Return(s) ==
    /\ at[s] \in {"resolve", "reject"}
    /\ Answer(s)
    /\ connection' = [connection EXCEPT ![s] = NoPool]
    /\ acks' = IF at[s] = "resolve" THEN acks \cup {message[s]} ELSE acks
    /\ Continue(s, "idle")
    /\ message' = [message EXCEPT ![s] = NoMessage]
    /\ UNCHANGED <<queue, leaked, queried, failures, sent>>

(* The process is restarted: the batch of acknowledgements is lost.        *)
RestartConsumer ==
    /\ Restart /\ MayFail
    /\ acks' = {}
    /\ at' = [s \in Request |-> "idle"]
    /\ message' = [s \in Request |-> NoMessage]
    /\ connection' = [s \in Request |-> NoPool]
    /\ leaked' = [p \in Pool |-> 0]
    /\ UNCHANGED <<queue, queried, sent>>

Step(s) ==
    \/ TenantFrom(s) \/ AwaitDataSource(s) \/ Connect(s)
    \/ Query(s) \/ Return(s)

ConsumerNext ==
    \/ \E m \in Message : VisibilityTimeout(m) \/ Receive(m)
    \/ SendAcks
    \/ \E s \in Request :
          \/ Step(s)
          \/ DataSourceFails(s) \/ ConnectFails(s)
    \/ RestartConsumer

(* Promises that are settled are continued, the queue delivers a visible   *)
(* message some time, and a batch of acknowledgements is sent after a      *)
(* second at the latest.  Nothing is assumed of failures, restarts and     *)
(* visibility timeouts, but that a message that is not deleted does not    *)
(* stay invisible.                                                         *)
Fairness ==
    /\ \A s \in Request : WF_consumerVars(Step(s))
    /\ \A m \in Message : SF_consumerVars(Receive(m)) /\ WF_consumerVars(VisibilityTimeout(m))
    /\ WF_consumerVars(SendAcks)

ConsumerSpec == ConsumerInit /\ [][ConsumerNext]_consumerVars
ConsumerFairSpec == ConsumerSpec /\ Fairness

-----------------------------------------------------------------------------
(* Properties                                                              *)

ConsumerTypeOK ==
    /\ TypeOK
    /\ sent \in Deliveries
    /\ queue \in [Message -> {"visible", "inFlight", "deleted"}]
    /\ acks \subseteq Message /\ queried \subseteq Message
    /\ at \in [Request -> {"idle", "delay", "dataSource", "select", "resolve", "reject"}]
    /\ message \in [Request -> Message \cup {NoMessage}]
    /\ connection \in [Request -> Pool \cup {NoPool}]
    /\ leaked \in [Pool -> Nat]
    /\ \A p \in Pool : Taken(p) <= PoolSize
    /\ failures \in 0 .. MaxFailures

(* A message leaves the queue only after its query was answered, by this   *)
(* delivery or an earlier one, or if it is no SampleEvent: failures of the *)
(* database and restarts lose none.                                        *)
DeletedOnlyIfQueried ==
    \A m \in Message : queue[m] = "deleted" => m \in queried \/ sent[m] = Invalid

(* A call of onMessage that has ended holds no connection, and none is     *)
(* lost except by failures: whatever is thrown after queryRunner is        *)
(* assigned, the connection goes back.                                     *)
ConnectionsReleased ==
    /\ \A s \in Request : connection[s] # NoPool => at[s] \in {"select", "resolve", "reject"}
    /\ \A p \in Pool : leaked[p] <= failures

(* Every message that names its tenant is handled and deleted in the end,  *)
(* as long as fewer calls fail than a pool has connections (each SET       *)
(* search_path that fails takes one away for good).                        *)
Handled == \A m \in Message :
    <>(queue[m] = "deleted" \/ sent[m] = NoTenant)

=============================================================================
