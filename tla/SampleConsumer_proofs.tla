-------------------------- MODULE SampleConsumer_proofs --------------------------
(***************************************************************************)
(* Proofs about DatasourceManager, for any number of tenants, requests and *)
(* data sources, and about SampleConsumer, for any number of messages,     *)
(* concurrent calls and connections as well: it uses the data sources as   *)
(* DatasourceManager allows, and loses no message.                         *)
(***************************************************************************)
EXTENDS SampleConsumer, FiniteSetTheorems, TLAPS

USE NoPoolAssumption, NoTenantAssumption

(* A data source in use is constructed and not handed out a second time.   *)
LEMMA NewPoolIsNew ==
  ASSUME \E p \in Pool : tenantOf[p] = NoTenant
  PROVE  NewPool \in Pool /\ tenantOf[NewPool] = NoTenant
BY DEF NewPool

LEMMA Steps ==
  ASSUME [Next]_vars
  PROVE  \/ UNCHANGED vars
         \/ \E r \in Request :
              \/ \E t \in Tenant : GetDataSource(r, t)
              \/ DataSourceOf(r) \/ Initialize(r) \/ Store(r) \/ Fail(r) \/ Answer(r)
         \/ Restart
BY DEF Next

-----------------------------------------------------------------------------
(* Why a request is served by its own tenant: what it holds, and what the  *)
(* map holds, was constructed for that tenant; and a data source that may  *)
(* still fail to initialize is nobody else's.                              *)

HoldsOwn ==
    \A r \in Request :
        /\ pc[r] # "idle" => tenant[r] \in Tenant
        /\ pc[r] \in {"idle", "config"} => dataSource[r] = NoPool
        /\ pc[r] \in {"initialize", "set", "serving"} =>
              dataSource[r] \in Pool /\ tenantOf[dataSource[r]] = tenant[r]
        /\ pc[r] \in {"set", "serving"} => dataSource[r] \in initialized

MapHoldsOwn ==
    \A t \in Tenant : Cached(t) =>
        tenantOf[dataSources[t]] = t /\ dataSources[t] \in initialized

InitializingAlone ==
    \A r \in Request : pc[r] = "initialize" =>
        /\ \A s \in Request \ {r} : dataSource[s] # dataSource[r]
        /\ \A t \in Tenant : dataSources[t] # dataSource[r]

IInv == TypeOK /\ HoldsOwn /\ MapHoldsOwn /\ InitializingAlone

LEMMA InitIInv == Init => IInv
BY DEF Init, IInv, TypeOK, HoldsOwn, MapHoldsOwn, InitializingAlone, Cached

LEMMA InductiveStep ==
  ASSUME IInv, [Next]_vars
  PROVE  IInv'
<1> USE DEF Goto, Cached
<1>1. ASSUME NEW r \in Request, NEW t \in Tenant, GetDataSource(r, t) PROVE IInv'
  <2>1. TypeOK'
    BY <1>1 DEF GetDataSource, IInv, TypeOK
  <2>2. HoldsOwn'
    BY <1>1 DEF GetDataSource, IInv, TypeOK, HoldsOwn, MapHoldsOwn
  <2>3. MapHoldsOwn'
    BY <1>1 DEF GetDataSource, IInv, MapHoldsOwn
  <2>4. InitializingAlone'
    BY <1>1 DEF GetDataSource, IInv, TypeOK, HoldsOwn, InitializingAlone
  <2> QED
    BY <2>1, <2>2, <2>3, <2>4 DEF IInv
<1>2. ASSUME NEW r \in Request, DataSourceOf(r) PROVE IInv'
  <2>0. NewPool \in Pool /\ tenantOf[NewPool] = NoTenant /\ tenant[r] \in Tenant
    BY <1>2, NewPoolIsNew DEF DataSourceOf, IInv, HoldsOwn
  <2>a. \A s \in Request : dataSource[s] # NewPool
    BY <2>0 DEF IInv, TypeOK, HoldsOwn
  <2>b. \A t \in Tenant : dataSources[t] # NewPool
    BY <2>0 DEF IInv, MapHoldsOwn
  <2>1. TypeOK'
    BY <1>2, <2>0 DEF DataSourceOf, IInv, TypeOK
  <2>2. HoldsOwn'
    BY <1>2, <2>0, <2>a DEF DataSourceOf, IInv, TypeOK, HoldsOwn
  <2>3. MapHoldsOwn'
    BY <1>2, <2>b DEF DataSourceOf, IInv, TypeOK, MapHoldsOwn
  <2>4. InitializingAlone'
    BY <1>2, <2>0, <2>a, <2>b DEF DataSourceOf, IInv, TypeOK, InitializingAlone
  <2> QED
    BY <2>1, <2>2, <2>3, <2>4 DEF IInv
<1>3. ASSUME NEW r \in Request, Initialize(r) PROVE IInv'
  <2>1. TypeOK'
    BY <1>3 DEF Initialize, IInv, TypeOK, HoldsOwn
  <2>2. HoldsOwn'
    BY <1>3 DEF Initialize, IInv, TypeOK, HoldsOwn
  <2>3. MapHoldsOwn'
    BY <1>3 DEF Initialize, IInv, MapHoldsOwn
  <2>4. InitializingAlone'
    BY <1>3 DEF Initialize, IInv, TypeOK, InitializingAlone
  <2> QED
    BY <2>1, <2>2, <2>3, <2>4 DEF IInv
<1>4. ASSUME NEW r \in Request, Store(r) PROVE IInv'
  <2>0. tenant[r] \in Tenant /\ dataSource[r] \in Pool
    BY <1>4 DEF Store, IInv, HoldsOwn
  <2>1. TypeOK'
    BY <1>4, <2>0 DEF Store, IInv, TypeOK
  <2>2. HoldsOwn'
    BY <1>4 DEF Store, IInv, TypeOK, HoldsOwn
  <2>3. MapHoldsOwn'
    BY <1>4, <2>0 DEF Store, IInv, TypeOK, HoldsOwn, MapHoldsOwn
  <2>4. InitializingAlone'
    BY <1>4, <2>0 DEF Store, IInv, TypeOK, HoldsOwn, InitializingAlone
  <2> QED
    BY <2>1, <2>2, <2>3, <2>4 DEF IInv
<1>5. ASSUME NEW r \in Request, Fail(r) PROVE IInv'
  <2>a. \A s \in Request \ {r} : dataSource[s] = NoPool \/ dataSource[s] # dataSource[r]
    BY <1>5 DEF Fail, IInv, HoldsOwn, InitializingAlone
  <2>b. \A t \in Tenant : dataSources[t] = NoPool \/ dataSources[t] # dataSource[r]
    BY <1>5 DEF Fail, IInv, HoldsOwn, InitializingAlone
  <2>1. TypeOK'
    BY <1>5 DEF Fail, IInv, TypeOK
  <2>2. HoldsOwn'
    BY <1>5, <2>a DEF Fail, IInv, TypeOK, HoldsOwn
  <2>3. MapHoldsOwn'
    BY <1>5, <2>b DEF Fail, IInv, TypeOK, MapHoldsOwn
  <2>4. InitializingAlone'
    BY <1>5 DEF Fail, IInv, TypeOK, HoldsOwn, InitializingAlone
  <2> QED
    BY <2>1, <2>2, <2>3, <2>4 DEF IInv
<1>6. ASSUME NEW r \in Request, Answer(r) PROVE IInv'
  <2>1. TypeOK'
    BY <1>6 DEF Answer, IInv, TypeOK
  <2>2. HoldsOwn'
    BY <1>6 DEF Answer, IInv, TypeOK, HoldsOwn
  <2>3. MapHoldsOwn'
    BY <1>6 DEF Answer, IInv, MapHoldsOwn
  <2>4. InitializingAlone'
    BY <1>6 DEF Answer, IInv, TypeOK, HoldsOwn, InitializingAlone
  <2> QED
    BY <2>1, <2>2, <2>3, <2>4 DEF IInv
<1>7. CASE Restart
  BY <1>7 DEF Restart, IInv, TypeOK, HoldsOwn, MapHoldsOwn, InitializingAlone
<1>8. CASE UNCHANGED vars
  BY <1>8 DEF vars, IInv, TypeOK, HoldsOwn, MapHoldsOwn, InitializingAlone
<1> QED
  BY <1>1, <1>2, <1>3, <1>4, <1>5, <1>6, <1>7, <1>8, Steps

(* The inductive invariant, in every reachable state.                      *)
THEOREM Invariance == Spec => []IInv
BY InitIInv, InductiveStep, PTL DEF Spec

(* Every variable keeps its type.                                          *)
THEOREM TypeCorrect == Spec => []TypeOK
<1>1. IInv => TypeOK
  BY DEF IInv
<1> QED
  BY <1>1, Invariance, PTL

(* A request is served by a connected data source of its own tenant,       *)
(* whichever request constructed it and put it into the map.               *)
THEOREM ServedByOwnTenantHolds == Spec => []ServedByOwnTenant
<1>1. IInv => ServedByOwnTenant
  BY DEF IInv, HoldsOwn, ServedByOwnTenant, PoolsOf
<1> QED
  BY <1>1, Invariance, PTL

-----------------------------------------------------------------------------
(* Why a tenant has no more data sources than there are requests: each was *)
(* constructed by a request of its own.  Until the map has one of them,    *)
(* these requests are still at it; from then on, a request that does not   *)
(* await the configuration yet will construct none.                        *)

Constructed(f, t) ==
    /\ \A p, q \in PoolsOf(t) : f[p] = f[q] => p = q
    /\ \A p \in PoolsOf(t) : pc[f[p]] = "config" => tenant[f[p]] # t
    /\ ~ Cached(t) => \A p \in PoolsOf(t) :
          /\ pc[f[p]] \in {"initialize", "set"}
          /\ tenant[f[p]] = t /\ dataSource[f[p]] = p

OneEach == \A t \in Tenant : \E f \in [PoolsOf(t) -> Request] : Constructed(f, t)

(* Steps that construct no data source keep the one who constructed each.  *)
LEMMA SameConstructors ==
  ASSUME IInv, NEW r \in Request, NEW t \in Tenant, NEW f \in [PoolsOf(t) -> Request],
         Constructed(f, t),
         \/ \E u \in Tenant : GetDataSource(r, u)
         \/ Initialize(r) \/ Store(r) \/ Answer(r)
  PROVE  PoolsOf(t)' = PoolsOf(t) /\ Constructed(f, t)'
<1> USE DEF Goto, Cached, PoolsOf
<1>1. ASSUME NEW u \in Tenant, GetDataSource(r, u) PROVE Constructed(f, t)'
  BY <1>1 DEF GetDataSource, Constructed, IInv, TypeOK
<1>2. ASSUME Initialize(r) PROVE Constructed(f, t)'
  BY <1>2 DEF Initialize, Constructed, IInv, TypeOK
<1>3. ASSUME Store(r) PROVE Constructed(f, t)'
  BY <1>3 DEF Store, Constructed, IInv, TypeOK, HoldsOwn
<1>4. ASSUME Answer(r) PROVE Constructed(f, t)'
  BY <1>4 DEF Answer, Constructed, IInv, TypeOK
<1>5. tenantOf' = tenantOf
  BY DEF GetDataSource, Initialize, Store, Answer
<1> QED
  BY <1>1, <1>2, <1>3, <1>4, <1>5

LEMMA OneEachStep ==
  ASSUME IInv, OneEach, [Next]_vars
  PROVE  OneEach'
<1> SUFFICES ASSUME NEW t \in Tenant
             PROVE  \E g \in [PoolsOf(t)' -> Request] : Constructed(g, t)'
  BY DEF OneEach
<1>0. PICK f \in [PoolsOf(t) -> Request] : Constructed(f, t)
  BY DEF OneEach
<1>1. ASSUME NEW r \in Request,
             \/ \E u \in Tenant : GetDataSource(r, u)
             \/ Initialize(r) \/ Store(r) \/ Answer(r)
      PROVE  \E g \in [PoolsOf(t)' -> Request] : Constructed(g, t)'
  BY <1>0, <1>1, SameConstructors
<1>2. ASSUME NEW r \in Request, DataSourceOf(r)
      PROVE  \E g \in [PoolsOf(t)' -> Request] : Constructed(g, t)'
  <2>0. NewPool \in Pool /\ tenantOf[NewPool] = NoTenant
    BY <1>2, NewPoolIsNew DEF DataSourceOf
  <2>1. PoolsOf(t)' = IF tenant[r] = t THEN PoolsOf(t) \cup {NewPool} ELSE PoolsOf(t)
    BY <1>2, <2>0 DEF DataSourceOf, PoolsOf, IInv, TypeOK
  <2>2. NewPool \notin PoolsOf(t)
    BY <2>0 DEF PoolsOf
  <2>3. PICK g \in [PoolsOf(t)' -> Request] :
          g = [p \in PoolsOf(t)' |-> IF p = NewPool THEN r ELSE f[p]]
    BY <2>1
  <2>4. \A p \in PoolsOf(t) : p \in PoolsOf(t)' /\ g[p] = f[p]
    BY <2>1, <2>2, <2>3
  <2>5. tenant[r] = t => g[NewPool] = r /\ \A p \in PoolsOf(t) : f[p] # r
    BY <1>0, <1>2, <2>1, <2>3 DEF Constructed, DataSourceOf
  <2>6. /\ dataSources' = dataSources /\ tenant' = tenant
        /\ pc'[r] = "initialize" /\ dataSource'[r] = NewPool
        /\ \A s \in Request \ {r} : pc'[s] = pc[s] /\ dataSource'[s] = dataSource[s]
    BY <1>2, <2>0 DEF DataSourceOf, Goto, IInv, TypeOK
  <2>7. tenant[r] # t /\ ~ Cached(t) => \A p \in PoolsOf(t) : f[p] # r
    BY <1>0 DEF Constructed
  <2>8. \A p, q \in PoolsOf(t)' : g[p] = g[q] => p = q
    BY <1>0, <2>1, <2>4, <2>5 DEF Constructed
  <2>9. \A p \in PoolsOf(t)' : pc'[g[p]] = "config" => tenant'[g[p]] # t
    BY <1>0, <2>1, <2>3, <2>4, <2>5, <2>6 DEF Constructed
  <2>10. ~ Cached(t)' => \A p \in PoolsOf(t)' :
          /\ pc'[g[p]] \in {"initialize", "set"}
          /\ tenant'[g[p]] = t /\ dataSource'[g[p]] = p
    BY <1>0, <2>1, <2>3, <2>4, <2>5, <2>6, <2>7 DEF Constructed, Cached
  <2>11. Constructed(g, t)'
    BY <2>8, <2>9, <2>10 DEF Constructed
  <2> QED
    BY <2>11
<1>3. ASSUME NEW r \in Request, Fail(r)
      PROVE  \E g \in [PoolsOf(t)' -> Request] : Constructed(g, t)'
  <2>1. PoolsOf(t)' \subseteq PoolsOf(t) /\ dataSource[r] \notin PoolsOf(t)'
    BY <1>3 DEF Fail, PoolsOf, IInv, TypeOK
  <2>2. PICK g \in [PoolsOf(t)' -> Request] : g = [p \in PoolsOf(t)' |-> f[p]]
    BY <2>1
  <2>3. ~ Cached(t) => \A p \in PoolsOf(t)' : f[p] # r
    BY <1>0, <2>1 DEF Constructed
  <2>4. /\ dataSources' = dataSources /\ tenant' = tenant /\ pc'[r] = "idle"
        /\ \A s \in Request \ {r} : pc'[s] = pc[s] /\ dataSource'[s] = dataSource[s]
    BY <1>3 DEF Fail, Goto, IInv, TypeOK
  <2>5. Constructed(g, t)'
    BY <1>0, <2>1, <2>2, <2>3, <2>4 DEF Constructed, Cached
  <2> QED
    BY <2>5
<1>4. CASE Restart
  <2>1. PoolsOf(t)' = {}
    BY <1>4 DEF Restart, PoolsOf
  <2>2. [p \in {} |-> p] \in [PoolsOf(t)' -> Request]
    BY <2>1
  <2> QED
    BY <2>1, <2>2 DEF Constructed
<1>5. CASE UNCHANGED vars
  BY <1>0, <1>5 DEF vars, PoolsOf, Constructed, Cached
<1> QED
  BY <1>1, <1>2, <1>3, <1>4, <1>5, Steps

(* However requests interleave, a tenant never has more data sources open  *)
(* than there are requests.                                                *)
THEOREM PoolsBoundedHolds == Spec => []PoolsBounded
<1>1. Init => OneEach
  <2> SUFFICES ASSUME Init, NEW t \in Tenant
               PROVE  \E f \in [PoolsOf(t) -> Request] : Constructed(f, t)
    BY DEF OneEach
  <2>1. PoolsOf(t) = {}
    BY DEF Init, PoolsOf
  <2>2. [p \in {} |-> p] \in [PoolsOf(t) -> Request]
    BY <2>1
  <2> QED
    BY <2>1, <2>2 DEF Constructed
<1>2. OneEach => PoolsBounded
  <2> SUFFICES ASSUME NEW t \in Tenant, NEW f \in [PoolsOf(t) -> Request], Constructed(f, t)
               PROVE  Cardinality(PoolsOf(t)) <= Cardinality(Request)
    BY DEF OneEach, PoolsBounded
  <2>1. f \in Injection(PoolsOf(t), Request)
    BY DEF Constructed, Injection, IsInjective
  <2> QED
    BY <2>1, RequestAssumption, FS_Injection DEF ExistsInjection
<1> QED
  BY <1>1, <1>2, Invariance, OneEachStep, PTL DEF Spec

-----------------------------------------------------------------------------
(* The consumer.                                                           *)

USE MessageAssumption, SizeAssumption

LEMMA ConsumerSteps ==
  ASSUME [ConsumerNext]_consumerVars
  PROVE  \/ UNCHANGED consumerVars
         \/ \E m \in Message : VisibilityTimeout(m) \/ Receive(m)
         \/ SendAcks
         \/ \E s \in Request :
              \/ TenantFrom(s) \/ AwaitDataSource(s) \/ Connect(s) \/ Query(s) \/ Return(s)
              \/ DataSourceFails(s) \/ ConnectFails(s)
         \/ RestartConsumer
BY DEF ConsumerNext, Step

-----------------------------------------------------------------------------
(* What a call of onMessage was called with, and what acknowledgements     *)
(* stand for.                                                              *)

Labels == {"idle", "delay", "dataSource", "select", "resolve", "reject"}

QueueTypes ==
    /\ sent \in Deliveries
    /\ queue \in [Message -> {"visible", "inFlight", "deleted"}]
    /\ acks \subseteq Message /\ queried \subseteq Message
    /\ at \in [Request -> Labels]
    /\ message \in [Request -> Message \cup {NoMessage}]

CalledWithEvent ==
    \A s \in Request : at[s] # "idle" => message[s] \in Message /\ sent[message[s]] # Invalid

AcknowledgedIfQueried ==
    /\ \A s \in Request : at[s] = "resolve" => message[s] \in queried
    /\ \A m \in acks : m \in queried \/ sent[m] = Invalid

Delivery == QueueTypes /\ CalledWithEvent /\ AcknowledgedIfQueried /\ DeletedOnlyIfQueried

LEMMA DeliveryStep ==
  ASSUME Delivery, [ConsumerNext]_consumerVars
  PROVE  Delivery'
<1> USE DEF Continue, onMessage
<1>a. ASSUME NEW s \in Request, Reject(s), UNCHANGED sent PROVE Delivery'
  BY <1>a DEF Reject, Delivery, QueueTypes, CalledWithEvent, AcknowledgedIfQueried,
     DeletedOnlyIfQueried, Labels
<1>1. ASSUME NEW m \in Message, VisibilityTimeout(m) PROVE Delivery'
  BY <1>1 DEF VisibilityTimeout, Delivery, QueueTypes, CalledWithEvent,
     AcknowledgedIfQueried, DeletedOnlyIfQueried
<1>2. ASSUME NEW m \in Message, Receive(m) PROVE Delivery'
  <2>1. CASE sent[m] = Invalid
    BY <1>2, <2>1 DEF Receive, Delivery, QueueTypes, CalledWithEvent,
       AcknowledgedIfQueried, DeletedOnlyIfQueried
  <2>2. CASE sent[m] # Invalid
    <3>1. PICK s \in Request : /\ at' = [at EXCEPT ![s] = "delay"]
                               /\ message' = [message EXCEPT ![s] = m]
      BY <1>2, <2>2 DEF Receive
    <3> QED
      BY <1>2, <2>2, <3>1 DEF Receive, Delivery, QueueTypes, CalledWithEvent,
         AcknowledgedIfQueried, DeletedOnlyIfQueried, Labels
  <2> QED
    BY <2>1, <2>2
<1>3. CASE SendAcks
  BY <1>3 DEF SendAcks, Delivery, QueueTypes, CalledWithEvent, AcknowledgedIfQueried,
     DeletedOnlyIfQueried
<1>4. ASSUME NEW s \in Request, TenantFrom(s) PROVE Delivery'
  <2>1. CASE Reject(s)
    BY <1>4, <2>1, <1>a DEF TenantFrom
  <2>2. CASE ~ Reject(s)
    BY <1>4, <2>2 DEF TenantFrom, Delivery, QueueTypes, CalledWithEvent,
       AcknowledgedIfQueried, DeletedOnlyIfQueried, Labels
  <2> QED
    BY <2>1, <2>2
<1>5. ASSUME NEW s \in Request, AwaitDataSource(s) PROVE Delivery'
  BY <1>5 DEF AwaitDataSource, Delivery, QueueTypes, CalledWithEvent,
     AcknowledgedIfQueried, DeletedOnlyIfQueried
<1>6. ASSUME NEW s \in Request, DataSourceFails(s) \/ ConnectFails(s) PROVE Delivery'
  BY <1>6, <1>a DEF DataSourceFails, ConnectFails
<1>7. ASSUME NEW s \in Request, Connect(s) PROVE Delivery'
  BY <1>7 DEF Connect, Delivery, QueueTypes, CalledWithEvent, AcknowledgedIfQueried,
     DeletedOnlyIfQueried, Labels
<1>8. ASSUME NEW s \in Request, Query(s) PROVE Delivery'
  BY <1>8 DEF Query, Delivery, QueueTypes, CalledWithEvent, AcknowledgedIfQueried,
     DeletedOnlyIfQueried, Labels
<1>9. ASSUME NEW s \in Request, Return(s) PROVE Delivery'
  BY <1>9 DEF Return, Delivery, QueueTypes, CalledWithEvent, AcknowledgedIfQueried,
     DeletedOnlyIfQueried, Labels
<1>10. CASE RestartConsumer
  BY <1>10 DEF RestartConsumer, Delivery, QueueTypes, CalledWithEvent,
     AcknowledgedIfQueried, DeletedOnlyIfQueried, Labels
<1>11. CASE UNCHANGED consumerVars
  BY <1>11 DEF consumerVars, Delivery, QueueTypes, CalledWithEvent, AcknowledgedIfQueried,
     DeletedOnlyIfQueried
<1> QED
  BY <1>1, <1>2, <1>3, <1>4, <1>5, <1>6, <1>7, <1>8, <1>9, <1>10, <1>11, ConsumerSteps

LEMMA DeliveryAlways == ConsumerSpec => []Delivery
<1>1. ConsumerInit => Delivery
  BY DEF ConsumerInit, Delivery, QueueTypes, CalledWithEvent, AcknowledgedIfQueried,
     DeletedOnlyIfQueried, Labels
<1> QED
  BY <1>1, DeliveryStep, PTL DEF ConsumerSpec

(* Failures of the database and restarts lose no message: what is deleted  *)
(* from the queue was handled, or is no SampleEvent.                       *)
THEOREM DeletedOnlyIfQueriedHolds == ConsumerSpec => []DeletedOnlyIfQueried
<1>1. Delivery => DeletedOnlyIfQueried
  BY DEF Delivery
<1> QED
  BY <1>1, DeliveryAlways, PTL

-----------------------------------------------------------------------------
(* The calls of onMessage are requests for data sources.                   *)

LEMMA ConsumerStepIsStep ==
  ASSUME Delivery, [ConsumerNext]_consumerVars
  PROVE  [Next]_vars
<1>1. ASSUME NEW s \in Request, TenantFrom(s) PROVE [Next]_vars
  <2>1. at[s] # "idle"
    BY <1>1 DEF TenantFrom
  <2>2. sent[message[s]] \in Tenant \cup {NoTenant}
    BY <2>1 DEF Delivery, QueueTypes, CalledWithEvent
  <2> QED
    BY <1>1, <2>2 DEF TenantFrom, Next
<1>2. ASSUME NEW s \in Request, AwaitDataSource(s) \/ DataSourceFails(s) PROVE [Next]_vars
  BY <1>2 DEF AwaitDataSource, DataSourceFails, Next
<1>3. ASSUME NEW s \in Request, Return(s) \/ ConnectFails(s) PROVE [Next]_vars
  BY <1>3 DEF Return, ConnectFails, Next
<1>4. ASSUME NEW s \in Request, Connect(s) \/ Query(s) PROVE [Next]_vars
  BY <1>4 DEF Connect, Query
<1>5. ASSUME NEW m \in Message, VisibilityTimeout(m) \/ Receive(m) PROVE [Next]_vars
  BY <1>5 DEF VisibilityTimeout, Receive
<1>6. CASE RestartConsumer
  BY <1>6 DEF RestartConsumer, Next
<1>7. CASE SendAcks \/ UNCHANGED consumerVars
  BY <1>7 DEF SendAcks, consumerVars
<1> QED
  BY <1>1, <1>2, <1>3, <1>4, <1>5, <1>6, <1>7, ConsumerSteps

(* Whatever the consumer does is something that DatasourceManager lets its *)
(* callers do: what is proved of the one holds in the other.               *)
THEOREM ConsumerImplements == ConsumerSpec => Spec
<1>1. ConsumerInit => Init
  BY DEF ConsumerInit
<1> QED
  BY <1>1, DeliveryAlways, ConsumerStepIsStep, PTL DEF ConsumerSpec, Spec

(* So no message is handled with the data source of another tenant.        *)
THEOREM ConsumerServedByOwnTenant == ConsumerSpec => []ServedByOwnTenant
BY ConsumerImplements, ServedByOwnTenantHolds, PTL

-----------------------------------------------------------------------------
(* Connections                                                             *)

Holders(p) == {s \in Request : connection[s] = p}

PoolTypes ==
    /\ connection \in [Request -> Pool \cup {NoPool}]
    /\ leaked \in [Pool -> Nat]
    /\ failures \in 0 .. MaxFailures

PoolLimit == \A p \in Pool : Cardinality(Holders(p)) + leaked[p] <= PoolSize

Connections == PoolTypes /\ PoolLimit /\ ConnectionsReleased

LEMMA HoldersCount ==
  ASSUME NEW p
  PROVE  IsFiniteSet(Holders(p)) /\ Cardinality(Holders(p)) \in Nat
<1>1. IsFiniteSet(Holders(p))
  BY RequestAssumption, FS_Subset DEF Holders
<1> QED
  BY <1>1, FS_CardinalityType

(* A step that takes no connection leaves the pools within their limits.   *)
LEMMA NoneTaken ==
  ASSUME Connections, leaked' = leaked, failures' \in Nat, failures <= failures',
         failures' <= MaxFailures, connection' \in [Request -> Pool \cup {NoPool}],
         \A s \in Request : /\ connection'[s] \in {connection[s], NoPool}
                            /\ connection'[s] # NoPool => at'[s] \in {"select", "resolve", "reject"}
  PROVE  Connections'
<1>1. ASSUME NEW p \in Pool PROVE Cardinality(Holders(p)') <= Cardinality(Holders(p))
  <2>1. Holders(p)' \subseteq Holders(p)
    BY <1>1 DEF Holders
  <2> QED
    BY <2>1, HoldersCount, FS_Subset
<1>2. \A p \in Pool : Cardinality(Holders(p)') \in Nat
  <2>1. ASSUME NEW p \in Pool PROVE IsFiniteSet(Holders(p)')
    BY RequestAssumption, FS_Subset DEF Holders
  <2> QED
    BY <2>1, FS_CardinalityType
<1>3. PoolLimit'
  BY <1>1, <1>2, HoldersCount DEF Connections, PoolLimit, PoolTypes
<1> QED
  BY <1>3 DEF Connections, PoolTypes, ConnectionsReleased

LEMMA ConnectionsStep ==
  ASSUME Delivery, TypeOK, Connections, [ConsumerNext]_consumerVars
  PROVE  Connections'
<1> USE DEF Continue, onMessage, MayFail
<1>1. ASSUME UNCHANGED <<connection, leaked, failures>>,
             \A s \in Request : connection[s] = NoPool \/ at'[s] = at[s]
                                \/ at'[s] \in {"select", "resolve", "reject"}
      PROVE  Connections'
  BY <1>1, NoneTaken DEF Connections, PoolTypes, ConnectionsReleased
<1>2. ASSUME NEW m \in Message, VisibilityTimeout(m) \/ Receive(m) PROVE Connections'
  <2>1. CASE at' = at
    BY <1>1, <1>2, <2>1 DEF VisibilityTimeout, Receive
  <2>2. CASE at' # at
    <3>1. PICK s \in Request : at[s] = "idle" /\ at' = [at EXCEPT ![s] = "delay"]
      BY <1>2, <2>2 DEF VisibilityTimeout, Receive
    <3>2. connection[s] = NoPool
      BY <3>1 DEF Connections, ConnectionsReleased
    <3> QED
      BY <1>1, <1>2, <3>1, <3>2 DEF VisibilityTimeout, Receive, Delivery, QueueTypes
  <2> QED
    BY <2>1, <2>2
<1>3. CASE SendAcks
  BY <1>1, <1>3 DEF SendAcks
<1>4. ASSUME NEW s \in Request, TenantFrom(s) \/ AwaitDataSource(s) \/ Query(s)
      PROVE  Connections'
  <2>1. CASE TenantFrom(s) \/ AwaitDataSource(s)
    <3>1. connection[s] = NoPool
      BY <2>1 DEF Connections, ConnectionsReleased, TenantFrom, AwaitDataSource
    <3>2. at' = at \/ \E l : at' = [at EXCEPT ![s] = l]
      BY <2>1 DEF TenantFrom, AwaitDataSource, Reject
    <3> QED
      BY <1>1, <2>1, <3>1, <3>2 DEF TenantFrom, AwaitDataSource, Delivery, QueueTypes
  <2>2. CASE Query(s)
    <3>1. \A q \in Request : at'[q] = at[q] \/ at'[q] \in {"resolve", "reject"}
      BY <2>2 DEF Query, Delivery, QueueTypes
    <3>2. /\ UNCHANGED <<connection, leaked>>
          /\ failures' = failures \/ (failures < MaxFailures /\ failures' = failures + 1)
      BY <2>2 DEF Query
    <3> QED
      BY <3>1, <3>2, NoneTaken DEF Connections, PoolTypes, ConnectionsReleased
  <2> QED
    BY <1>4, <2>1, <2>2
<1>5. ASSUME NEW s \in Request, DataSourceFails(s) PROVE Connections'
  <2>1. connection[s] = NoPool
    BY <1>5 DEF Connections, ConnectionsReleased, DataSourceFails
  <2>2. \A q \in Request \ {s} : at'[q] = at[q]
    BY <1>5 DEF DataSourceFails, Reject, Delivery, QueueTypes
  <2> QED
    BY <1>5, <2>1, <2>2, NoneTaken DEF DataSourceFails, Connections, PoolTypes, ConnectionsReleased
<1>6. ASSUME NEW s \in Request, Return(s) PROVE Connections'
  <2>1. \A q \in Request \ {s} : at'[q] = at[q] /\ connection'[q] = connection[q]
    BY <1>6 DEF Return, Delivery, QueueTypes, Connections, PoolTypes
  <2>2. connection'[s] = NoPool /\ connection' \in [Request -> Pool \cup {NoPool}]
    BY <1>6 DEF Return, Connections, PoolTypes
  <2> QED
    BY <1>6, <2>1, <2>2, NoneTaken DEF Return, Connections, PoolTypes, ConnectionsReleased
<1>7. CASE RestartConsumer
  <2>1. \A p \in Pool : Holders(p)' = {} /\ leaked'[p] = 0
    BY <1>7 DEF RestartConsumer, Holders
  <2>2. PoolLimit'
    BY <2>1, FS_EmptySet DEF PoolLimit
  <2> QED
    BY <1>7, <2>2 DEF RestartConsumer, Connections, PoolTypes, ConnectionsReleased
<1>8. ASSUME NEW s \in Request, Connect(s) PROVE Connections'
  <2>1. connection[s] = NoPool
    BY <1>8 DEF Connections, ConnectionsReleased, Connect
  <2>2. PoolTypes' /\ ConnectionsReleased'
    BY <1>8 DEF Connections, PoolTypes, ConnectionsReleased, Connect, TypeOK, Delivery, QueueTypes
  <2>3. ASSUME NEW p \in Pool, p # dataSource[s]
        PROVE  Cardinality(Holders(p)') + leaked'[p] <= PoolSize
    <3>1. Holders(p)' = Holders(p)
      BY <1>8, <2>1, <2>3 DEF Connect, Holders, Connections, PoolTypes
    <3> QED
      BY <1>8, <3>1 DEF Connect, Connections, PoolLimit
  <2>4. ASSUME NEW p \in Pool, p = dataSource[s]
        PROVE  Cardinality(Holders(p)') + leaked'[p] <= PoolSize
    <3>1. Holders(p)' = Holders(p) \cup {s} /\ s \notin Holders(p)
      BY <1>8, <2>1, <2>4 DEF Connect, Holders, Connections, PoolTypes
    <3>2. Cardinality(Holders(p)') = Cardinality(Holders(p)) + 1
      BY <3>1, HoldersCount, FS_AddElement
    <3>3. Taken(p) < PoolSize /\ leaked' = leaked
      BY <1>8, <2>4 DEF Connect
    <3>4. Cardinality(Holders(p)) + leaked[p] < PoolSize
      BY <3>3 DEF Taken, Holders
    <3> QED
      BY <3>2, <3>3, <3>4, HoldersCount DEF Connections, PoolTypes
  <2>5. PoolLimit'
    BY <2>3, <2>4 DEF PoolLimit
  <2> QED
    BY <2>2, <2>5 DEF Connections
<1>9. ASSUME NEW s \in Request, ConnectFails(s) PROVE Connections'
  <2>1. connection[s] = NoPool
    BY <1>9 DEF Connections, ConnectionsReleased, ConnectFails
  <2>2. \A q \in Request \ {s} : at'[q] = at[q]
    BY <1>9 DEF ConnectFails, Reject, Delivery, QueueTypes
  <2>3. PoolTypes' /\ ConnectionsReleased'
    BY <1>9, <2>1, <2>2 DEF Connections, PoolTypes, ConnectionsReleased, ConnectFails
  <2>4. \A q \in Pool : Holders(q)' = Holders(q)
    BY <1>9 DEF ConnectFails, Holders
  <2>5. \A q \in Pool : leaked'[q] = leaked[q]
          \/ (Cardinality(Holders(q)) + leaked[q] < PoolSize /\ leaked'[q] = leaked[q] + 1)
    BY <1>9 DEF ConnectFails, Connections, PoolTypes, Taken, Holders
  <2>6. PoolLimit'
    BY <2>4, <2>5, HoldersCount DEF PoolLimit, Connections, PoolTypes
  <2> QED
    BY <2>3, <2>6 DEF Connections
<1>10. CASE UNCHANGED consumerVars
  BY <1>1, <1>10 DEF consumerVars
<1> QED
  BY <1>2, <1>3, <1>4, <1>5, <1>6, <1>7, <1>8, <1>9, <1>10, ConsumerSteps

LEMMA ConnectionsAlways == ConsumerSpec => []Connections
<1>1. ConsumerInit => Connections
  <2> SUFFICES ASSUME ConsumerInit PROVE Connections
    OBVIOUS
  <2>1. \A p \in Pool : Holders(p) = {} /\ leaked[p] = 0
    BY DEF ConsumerInit, Holders
  <2>2. PoolLimit
    BY <2>1, FS_EmptySet DEF PoolLimit
  <2> QED
    BY <2>2 DEF ConsumerInit, Connections, PoolTypes, ConnectionsReleased
<1> QED
  BY <1>1, ConnectionsStep, DeliveryAlways, ConsumerImplements, TypeCorrect, PTL DEF ConsumerSpec

(* No call that has ended holds a connection, and only failures lose one.  *)
THEOREM ConnectionsReleasedHolds == ConsumerSpec => []ConnectionsReleased
<1>1. Connections => ConnectionsReleased
  BY DEF Connections
<1> QED
  BY <1>1, ConnectionsAlways, PTL

(* Every variable keeps its type, and no pool is ever used beyond its size.*)
THEOREM ConsumerTypeCorrect == ConsumerSpec => []ConsumerTypeOK
<1>1. TypeOK /\ Delivery /\ Connections => ConsumerTypeOK
  BY DEF ConsumerTypeOK, Delivery, QueueTypes, Labels, Connections, PoolTypes, PoolLimit,
     Holders, Taken
<1> QED
  BY <1>1, DeliveryAlways, ConnectionsAlways, ConsumerImplements, TypeCorrect, PTL

=============================================================================
