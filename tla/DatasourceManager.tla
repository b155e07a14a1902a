--------------------------- MODULE DatasourceManager ---------------------------
(***************************************************************************)
(* DatasourceManager.getDataSource: a map from tenant to data source, each *)
(* data source with a pool of connections, filled on demand by requests    *)
(* that interleave at every await.  Nothing removes a pool from the map or *)
(* closes it.                                                              *)
(***************************************************************************)
EXTENDS FiniteSets, Naturals

CONSTANTS
    Tenant,     \* the keys of the map
    Request,
    Pool,       \* the data sources that may be constructed
    NoPool,
    NoTenant

ASSUME NoPoolAssumption == NoPool \notin Pool
ASSUME NoTenantAssumption == NoTenant \notin Tenant
ASSUME RequestAssumption == IsFiniteSet(Request)

VARIABLES
    dataSources,    \* dataSources[t]: the data source cached for t
    tenantOf,       \* tenantOf[p]: the tenant p was constructed for
    initialized,    \* the data sources that are connected
    pc,             \* pc[r]: where request r is in getDataSource
    tenant,         \* tenant[r]: the tenant in its headers
    dataSource      \* dataSource[r]: the local variable of that name

vars == <<dataSources, tenantOf, initialized, pc, tenant, dataSource>>

Init ==
    /\ dataSources = [t \in Tenant |-> NoPool]
    /\ tenantOf = [p \in Pool |-> NoTenant]
    /\ initialized = {}
    /\ pc = [r \in Request |-> "idle"]
    /\ tenant = [r \in Request |-> NoTenant]
    /\ dataSource = [r \in Request |-> NoPool]

-----------------------------------------------------------------------------

Goto(r, label) == pc' = [pc EXCEPT ![r] = label]

Cached(t) == dataSources[t] # NoPool

(* The pools of t that are open or about to be.                            *)
PoolsOf(t) == {p \in Pool : tenantOf[p] = t}

(* Mutant: the map is never consulted.                                     *)
GetDataSourceUncached(r, t) ==
    /\ pc[r] = "idle"
    /\ tenant' = [tenant EXCEPT ![r] = t]
    /\ Goto(r, "config")
    /\ UNCHANGED <<dataSources, tenantOf, initialized, dataSource>>

(* getDataSource is called: the map has the tenant's data source, or the   *)
(* tenant's configuration is awaited.                                      *)
GetDataSource(r, t) ==
    /\ pc[r] = "idle"
    /\ tenant' = [tenant EXCEPT ![r] = t]
    /\ Goto(r, IF Cached(t) THEN "serving" ELSE "config")
    /\ dataSource' = [dataSource EXCEPT ![r] = dataSources[t]]
    /\ UNCHANGED <<dataSources, tenantOf, initialized>>

(* The data sources are alike: a new one is any that is not in use.        *)
NewPool == CHOOSE p \in Pool : tenantOf[p] = NoTenant

(* The configuration is there; a data source is constructed and            *)
(* initialize() awaited.                                                   *)
DataSourceOf(r) ==
    /\ pc[r] = "config"
    /\ \E p \in Pool : tenantOf[p] = NoTenant
    /\ tenantOf' = [tenantOf EXCEPT ![NewPool] = tenant[r]]
    /\ dataSource' = [dataSource EXCEPT ![r] = NewPool]
    /\ Goto(r, "initialize")
    /\ UNCHANGED <<dataSources, initialized, tenant>>

Initialize(r) ==
    /\ pc[r] = "initialize"
    /\ initialized' = initialized \cup {dataSource[r]}
    /\ Goto(r, "set")
    /\ UNCHANGED <<dataSources, tenantOf, tenant, dataSource>>

(* Mutant: the key leaves out what tells the tenants apart.                *)
StoreForAll(r) ==
    /\ pc[r] = "set"
    /\ dataSources' = [t \in Tenant |-> dataSource[r]]
    /\ Goto(r, "serving")
    /\ UNCHANGED <<tenantOf, initialized, tenant, dataSource>>

(* set and get, without an await in between.                               *)
Store(r) ==
    /\ pc[r] = "set"
    /\ dataSources' = [dataSources EXCEPT ![tenant[r]] = dataSource[r]]
    /\ Goto(r, "serving")
    /\ UNCHANGED <<tenantOf, initialized, tenant, dataSource>>

(* No configuration for the tenant, or no connection to its database: the  *)
(* request fails, and the pool of a failed initialize() is gone.           *)
Fail(r) ==
    /\ pc[r] \in {"config", "initialize"}
    /\ tenantOf' = [p \in Pool |-> IF p = dataSource[r] THEN NoTenant ELSE tenantOf[p]]
    /\ dataSource' = [dataSource EXCEPT ![r] = NoPool]
    /\ Goto(r, "idle")
    /\ UNCHANGED <<dataSources, initialized, tenant>>

(* The request is answered; its data source stays open.                    *)
Answer(r) ==
    /\ pc[r] = "serving"
    /\ dataSource' = [dataSource EXCEPT ![r] = NoPool]
    /\ Goto(r, "idle")
    /\ UNCHANGED <<dataSources, tenantOf, initialized, tenant>>

(* The process is restarted.                                               *)
Restart ==
    /\ dataSources' = [t \in Tenant |-> NoPool]
    /\ tenantOf' = [p \in Pool |-> NoTenant]
    /\ initialized' = {}
    /\ pc' = [r \in Request |-> "idle"]
    /\ tenant' = [r \in Request |-> NoTenant]
    /\ dataSource' = [r \in Request |-> NoPool]

Next ==
    \/ \E r \in Request :
          \/ \E t \in Tenant : GetDataSource(r, t)
          \/ DataSourceOf(r)
          \/ Initialize(r)
          \/ Store(r)
          \/ Fail(r)
          \/ Answer(r)
    \/ Restart

Spec == Init /\ [][Next]_vars

-----------------------------------------------------------------------------
(* Properties                                                              *)

TypeOK ==
    /\ dataSources \in [Tenant -> Pool \cup {NoPool}]
    /\ tenantOf \in [Pool -> Tenant \cup {NoTenant}]
    /\ initialized \in SUBSET Pool
    /\ pc \in [Request -> {"idle", "config", "initialize", "set", "serving"}]
    /\ tenant \in [Request -> Tenant \cup {NoTenant}]
    /\ dataSource \in [Request -> Pool \cup {NoPool}]

(* A request is served by a connected data source of its own tenant,       *)
(* whichever request put it into the map.                                  *)
ServedByOwnTenant ==
    \A r \in Request : pc[r] = "serving" =>
        dataSource[r] \in PoolsOf(tenant[r]) \cap initialized

(* A tenant has at most one data source for every request that was in      *)
(* flight before the map had one: later requests open none.                *)
PoolsBounded == \A t \in Tenant : Cardinality(PoolsOf(t)) <= Cardinality(Request)

=============================================================================
