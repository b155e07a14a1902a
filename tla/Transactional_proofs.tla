------------------------- MODULE Transactional_proofs -------------------------
(***************************************************************************)
(* Proofs about Transactional: its type invariant, its four safety         *)
(* invariants (by the inductive invariant FrameInv), the absence of a      *)
(* deadlock on the pool when connections outnumber requests, and the       *)
(* refinement of AtomicMethods.                                            *)
(***************************************************************************)
EXTENDS Transactional, FiniteSetTheorems, TLAPS

USE NoConnAssumption, KindsAssumption, SetupMayFailAssumption

(* Every variable keeps its type.                                          *)
THEOREM TypeCorrect == Spec => []TypeOK
<1> USE DEF TypeOK, Phases, Setup, Bodies, Ending, Publishing, Tokens, Frame, Outer, Inner, Goto,
            events
<1>1. Init => TypeOK
  BY DEF Init
<1>2. TypeOK /\ [Next]_vars => TypeOK'
  <2> SUFFICES ASSUME TypeOK, [Next]_vars PROVE TypeOK'
    OBVIOUS
  <2> USE DEF End, Resume, Answer
  <2>1. ASSUME NEW r \in Request, NEW k \in Kinds, Arrive(r, k) PROVE TypeOK'
    BY <2>1 DEF Arrive
  <2>2. ASSUME NEW f \in Frame, Connect(f) PROVE TypeOK'
    BY <2>2 DEF Connect, Free
  <2>3. ASSUME NEW f \in Frame, SetSearchPath(f) PROVE TypeOK'
    BY <2>3 DEF SetSearchPath
  <2>4. ASSUME NEW f \in Frame, StartTransaction(f) PROVE TypeOK'
    BY <2>4 DEF StartTransaction
  <2>5. ASSUME NEW f \in Frame, SetupFails(f) PROVE TypeOK'
    BY <2>5, ZenonT(40) DEF SetupFails
  <2>6. ASSUME NEW f \in Frame, Statement(f) PROVE TypeOK'
    BY <2>6 DEF Statement, AddToken
  <2>7. ASSUME NEW f \in Frame, BodyThrows(f) PROVE TypeOK'
    BY <2>7 DEF BodyThrows
  <2>8. ASSUME NEW f \in Frame, CommitTransaction(f) PROVE TypeOK'
    BY <2>8 DEF CommitTransaction
  <2>9. ASSUME NEW f \in Frame, CommitFails(f) PROVE TypeOK'
    BY <2>9 DEF CommitFails
  <2>10. ASSUME NEW f \in Frame, RollbackTransaction(f) PROVE TypeOK'
    BY <2>10 DEF RollbackTransaction
  <2>11. ASSUME NEW f \in Frame, Release(f) PROVE TypeOK'
    BY <2>11 DEF Release
  <2>12. ASSUME NEW r \in Request, CallRequired(r) PROVE TypeOK'
    BY <2>12 DEF CallRequired
  <2>13. ASSUME NEW r \in Request, JoinedStatement(r) PROVE TypeOK'
    BY <2>13 DEF JoinedStatement, AddToken
  <2>14. ASSUME NEW r \in Request, CallRequiresNew(r) PROVE TypeOK'
    BY <2>14 DEF CallRequiresNew
  <2>15. ASSUME NEW r \in Request, Send(r) \/ PublishResolves(r) \/ PublishRejects(r)
         PROVE  TypeOK'
    BY <2>15 DEF Send, PublishResolves, PublishRejects
  <2>16. CASE Crash
    BY <2>16 DEF Crash
  <2>17. CASE UNCHANGED vars
    BY <2>17 DEF vars
  <2>18. ASSUME NEW r \in Request, Accept(r) PROVE TypeOK'
    BY <2>18 DEF Accept
  <2> QED
    BY <2>1, <2>2, <2>3, <2>4, <2>5, <2>6, <2>7, <2>8, <2>9, <2>10, <2>11,
       <2>12, <2>13, <2>14, <2>15, <2>16, <2>17, <2>18 DEF Next, Advance
<1> QED
  BY <1>1, <1>2, PTL DEF Spec

(* A step that leaves the outer frame of s alone, and takes back no commit, *)
(* leaves what is known of its work.                                       *)
LEMMA OuterUnaffected ==
  ASSUME NEW s \in Request, OuterWork(s),
         phase'[Outer(s)] = phase[Outer(s)], pending'[Outer(s)] = pending[Outer(s)],
         failed'[Outer(s)] = failed[Outer(s)], kind'[s] = kind[s],
         durable \subseteq durable'
  PROVE  OuterWork(s)'
BY DEF OuterWork, AllDurable

(* The same of an inner frame.                                             *)
LEMMA InnerUnaffected ==
  ASSUME NEW s \in Request, InnerWork(s),
         phase'[Inner(s)] = phase[Inner(s)], pending'[Inner(s)] = pending[Inner(s)],
         failed'[Inner(s)] = failed[Inner(s)], durable \subseteq durable'
  PROVE  InnerWork(s)'
BY DEF InnerWork

(* A frame belongs to one request, as its outer or its inner frame.        *)
LEMMA FrameOf ==
  ASSUME NEW f \in Frame
  PROVE  /\ f[1] \in Request
         /\ f = Outer(f[1]) \/ f = Inner(f[1])
BY DEF Frame, Outer, Inner

(* Frames of different requests differ, and so do the two of one request.  *)
LEMMA Distinct ==
  ASSUME NEW r \in Request, NEW s \in Request
  PROVE  /\ Outer(r) \in Frame /\ Inner(r) \in Frame
         /\ Outer(r) # Inner(s)
         /\ Outer(r) = Outer(s) => r = s
         /\ Inner(r) = Inner(s) => r = s
         /\ Outer(r)[1] = r /\ Inner(r)[1] = r
BY DEF Frame, Outer, Inner

(* The token of a joined method is nobody's frame.                         *)
LEMMA DistinctJoined ==
  ASSUME NEW r \in Request, NEW s \in Request
  PROVE  /\ <<r, "joined">> # Outer(s) /\ <<r, "joined">> # Inner(s)
         /\ <<r, "joined">> = <<s, "joined">> => r = s
         /\ <<r, "joined">>[1] = r
         /\ <<r, "joined">> \notin Frame
BY DEF Frame, Outer, Inner

(* The inductive invariant but for the types, which need none of it, for   *)
(* the events, and for what only the refinement needs.                     *)
Core ==
    /\ ConnectionsAccounted
    /\ InnerIsSimple
    /\ SuspendedForInner
    /\ WorkSoFar
    /\ JoinedInOuter
    /\ RepliedIsOver
    /\ OkMeansDurable
    /\ JoinedWithCaller
    /\ SetupMayFail = FALSE => leaked = {}

(* Every step preserves it.                                                *)
LEMMA CoreStep ==
  ASSUME TypeOK, TypeOK', Core, [Next]_vars
  PROVE  Core'
<1> USE DEF Goto, TypeOK, events, Publishing
<1>1. ASSUME NEW r \in Request, NEW k \in Kinds, Arrive(r, k) PROVE Core'
  <2>1. ConnectionsAccounted'
    BY <1>1, Distinct, DistinctJoined DEF Core, ConnectionsAccounted,
       Holding, Setup, Bodies, Ending, Arrive
  <2>2. InnerIsSimple'
    BY <1>1, Distinct, DistinctJoined DEF Core, InnerIsSimple, Arrive
  <2>3. SuspendedForInner'
    BY <1>1, Distinct, DistinctJoined DEF Core, SuspendedForInner, Arrive
  <2>4. WorkSoFar'
    <3> SUFFICES ASSUME NEW s \in Request PROVE OuterWork(s)' /\ InnerWork(s)'
      BY DEF WorkSoFar
    <3>1. OuterWork(s) /\ InnerWork(s)
      BY DEF Core, WorkSoFar
    <3>2. CASE s = r
      BY <1>1, <3>1, <3>2, Distinct, DistinctJoined DEF OuterWork, InnerWork,
         AllDurable, Arrive, Core, SuspendedForInner, InnerIsSimple
    <3>3. CASE s # r
      BY <1>1, <3>1, <3>3, Distinct, DistinctJoined DEF OuterWork, InnerWork,
         AllDurable, Arrive
    <3> QED
      BY <3>2, <3>3
  <2>5. JoinedInOuter'
    BY <1>1, Distinct, DistinctJoined DEF Core, JoinedInOuter, Arrive
  <2>6. RepliedIsOver'
    BY <1>1, Distinct, DistinctJoined DEF Core, RepliedIsOver, Arrive
  <2>7. OkMeansDurable'
    <3> SUFFICES ASSUME NEW q \in Request, reply'[q] = "ok" PROVE AllDurable(q)'
      BY DEF OkMeansDurable, AllDurable
    <3>1. q # r /\ reply[q] = "ok" /\ kind'[q] = kind[q]
      BY <1>1 DEF Arrive
    <3>2. AllDurable(q)
      BY <3>1 DEF Core, OkMeansDurable, AllDurable
    <3> QED
      BY <1>1, <3>1, <3>2, Distinct, DistinctJoined DEF AllDurable, Arrive
  <2>8. JoinedWithCaller'
    BY <1>1, Distinct, DistinctJoined DEF Core, JoinedWithCaller, Arrive
  <2>9. (SetupMayFail = FALSE => leaked = {})'
    BY <1>1, Distinct, DistinctJoined DEF Core, Arrive
  <2> QED
    BY <2>1, <2>2, <2>3, <2>4, <2>5, <2>6, <2>7, <2>8, <2>9 DEF Core
<1>2. ASSUME NEW f \in Frame, Connect(f) PROVE Core'
  <2>1. ConnectionsAccounted'
    BY <1>2, Distinct, FrameOf DEF Core, ConnectionsAccounted, Holding,
       Setup, Bodies, Ending, Connect, Free, Leased
  <2>2. InnerIsSimple'
    BY <1>2, Distinct, FrameOf DEF Core, InnerIsSimple, Connect, Free,
       Leased
  <2>3. SuspendedForInner'
    BY <1>2, Distinct, FrameOf DEF Core, SuspendedForInner, Connect, Free,
       Leased
  <2>4. WorkSoFar'
    <3> SUFFICES ASSUME NEW s \in Request PROVE OuterWork(s)' /\ InnerWork(s)'
      BY DEF WorkSoFar
    <3>1. OuterWork(s) /\ InnerWork(s)
      BY DEF Core, WorkSoFar
    <3>2. CASE s = f[1]
      BY <1>2, <3>1, <3>2, Distinct, FrameOf, DistinctJoined DEF OuterWork,
         InnerWork, AllDurable, Connect, Free, Leased
    <3>3. CASE s # f[1]
      BY <1>2, <3>1, <3>3, Distinct, FrameOf, OuterUnaffected,
         InnerUnaffected DEF Connect, Free, Leased
    <3> QED
      BY <3>2, <3>3
  <2>5. JoinedInOuter'
    BY <1>2, Distinct, FrameOf, DistinctJoined DEF Core, JoinedInOuter,
       Connect, Free, Leased
  <2>6. RepliedIsOver'
    BY <1>2, Distinct, FrameOf DEF Core, RepliedIsOver, Connect, Free,
       Leased
  <2>7. OkMeansDurable'
    BY <1>2, Distinct, FrameOf DEF Core, OkMeansDurable, RepliedIsOver,
       AllDurable, Connect, Free, Leased
  <2>8. JoinedWithCaller'
    BY <1>2, Distinct, FrameOf, DistinctJoined DEF Core, JoinedWithCaller,
       Connect, Free, Leased
  <2>9. (SetupMayFail = FALSE => leaked = {})'
    BY <1>2, Distinct, FrameOf DEF Core, Connect, Free, Leased
  <2> QED
    BY <2>1, <2>2, <2>3, <2>4, <2>5, <2>6, <2>7, <2>8, <2>9 DEF Core
<1>3. ASSUME NEW f \in Frame, SetSearchPath(f) PROVE Core'
  <2>1. ConnectionsAccounted'
    BY <1>3, Distinct, FrameOf DEF Core, ConnectionsAccounted, Holding,
       Setup, Bodies, Ending, SetSearchPath
  <2>2. InnerIsSimple'
    BY <1>3, Distinct, FrameOf DEF Core, InnerIsSimple, SetSearchPath
  <2>3. SuspendedForInner'
    BY <1>3, Distinct, FrameOf DEF Core, SuspendedForInner, SetSearchPath
  <2>4. WorkSoFar'
    <3> SUFFICES ASSUME NEW s \in Request PROVE OuterWork(s)' /\ InnerWork(s)'
      BY DEF WorkSoFar
    <3>1. OuterWork(s) /\ InnerWork(s)
      BY DEF Core, WorkSoFar
    <3>2. CASE s = f[1]
      BY <1>3, <3>1, <3>2, Distinct, FrameOf, DistinctJoined DEF OuterWork,
         InnerWork, AllDurable, SetSearchPath
    <3>3. CASE s # f[1]
      BY <1>3, <3>1, <3>3, Distinct, FrameOf, OuterUnaffected,
         InnerUnaffected DEF SetSearchPath
    <3> QED
      BY <3>2, <3>3
  <2>5. JoinedInOuter'
    BY <1>3, Distinct, FrameOf, DistinctJoined DEF Core, JoinedInOuter,
       SetSearchPath
  <2>6. RepliedIsOver'
    BY <1>3, Distinct, FrameOf DEF Core, RepliedIsOver, SetSearchPath
  <2>7. OkMeansDurable'
    BY <1>3, Distinct, FrameOf DEF Core, OkMeansDurable, RepliedIsOver,
       AllDurable, SetSearchPath
  <2>8. JoinedWithCaller'
    BY <1>3, Distinct, FrameOf, DistinctJoined DEF Core, JoinedWithCaller,
       SetSearchPath
  <2>9. (SetupMayFail = FALSE => leaked = {})'
    BY <1>3, Distinct, FrameOf DEF Core, SetSearchPath
  <2> QED
    BY <2>1, <2>2, <2>3, <2>4, <2>5, <2>6, <2>7, <2>8, <2>9 DEF Core
<1>4. ASSUME NEW f \in Frame, StartTransaction(f) PROVE Core'
  <2>1. ConnectionsAccounted'
    BY <1>4, Distinct, FrameOf DEF Core, ConnectionsAccounted, Holding,
       Setup, Bodies, Ending, StartTransaction
  <2>2. InnerIsSimple'
    BY <1>4, Distinct, FrameOf DEF Core, InnerIsSimple, StartTransaction
  <2>3. SuspendedForInner'
    BY <1>4, Distinct, FrameOf DEF Core, SuspendedForInner, StartTransaction
  <2>4. WorkSoFar'
    <3> SUFFICES ASSUME NEW s \in Request PROVE OuterWork(s)' /\ InnerWork(s)'
      BY DEF WorkSoFar
    <3>1. OuterWork(s) /\ InnerWork(s)
      BY DEF Core, WorkSoFar
    <3>2. CASE s = f[1]
      BY <1>4, <3>1, <3>2, Distinct, FrameOf, DistinctJoined DEF OuterWork,
         InnerWork, AllDurable, StartTransaction
    <3>3. CASE s # f[1]
      BY <1>4, <3>1, <3>3, Distinct, FrameOf, OuterUnaffected,
         InnerUnaffected DEF StartTransaction
    <3> QED
      BY <3>2, <3>3
  <2>5. JoinedInOuter'
    BY <1>4, Distinct, FrameOf, DistinctJoined DEF Core, JoinedInOuter,
       StartTransaction
  <2>6. RepliedIsOver'
    BY <1>4, Distinct, FrameOf DEF Core, RepliedIsOver, StartTransaction
  <2>7. OkMeansDurable'
    BY <1>4, Distinct, FrameOf DEF Core, OkMeansDurable, RepliedIsOver,
       AllDurable, StartTransaction
  <2>8. JoinedWithCaller'
    BY <1>4, Distinct, FrameOf, DistinctJoined DEF Core, JoinedWithCaller,
       StartTransaction
  <2>9. (SetupMayFail = FALSE => leaked = {})'
    BY <1>4, Distinct, FrameOf DEF Core, StartTransaction
  <2> QED
    BY <2>1, <2>2, <2>3, <2>4, <2>5, <2>6, <2>7, <2>8, <2>9 DEF Core
<1>5. ASSUME NEW f \in Frame, SetupFails(f) PROVE Core'
  <2>1. ConnectionsAccounted'
    BY <1>5, Distinct, FrameOf DEF Core, ConnectionsAccounted, Holding,
       Setup, Bodies, Ending, SuspendedForInner, SetupFails, End, Resume,
       Answer
  <2>2. InnerIsSimple'
    BY <1>5, Distinct, FrameOf DEF Core, InnerIsSimple, SetupFails, End,
       Resume, Answer
  <2>3. SuspendedForInner'
    <3>1. CASE f = Outer(f[1])
      BY <1>5, <3>1, Distinct, FrameOf DEF Core, SuspendedForInner,
         InnerIsSimple, SetupFails, Setup, End, Resume, Answer
    <3>2. CASE f = Inner(f[1])
      BY <1>5, <3>2, Distinct, FrameOf DEF Core, SuspendedForInner,
         InnerIsSimple, SetupFails, Setup, End, Resume, Answer
    <3> QED
      BY <1>5, <3>1, <3>2, FrameOf
  <2>4. WorkSoFar'
    <3> SUFFICES ASSUME NEW s \in Request PROVE OuterWork(s)' /\ InnerWork(s)'
      BY DEF WorkSoFar
    <3>1. OuterWork(s) /\ InnerWork(s)
      BY DEF Core, WorkSoFar
    <3>2. CASE s = f[1]
      BY <1>5, <3>1, <3>2, Distinct, FrameOf, DistinctJoined DEF OuterWork,
         InnerWork, AllDurable, SetupFails, End, Resume, Answer, Core,
         SuspendedForInner, InnerIsSimple
    <3>3. CASE s # f[1]
      BY <1>5, <3>1, <3>3, Distinct, FrameOf, OuterUnaffected,
         InnerUnaffected DEF SetupFails, End, Resume, Answer
    <3> QED
      BY <3>2, <3>3
  <2>5. JoinedInOuter'
    BY <1>5, Distinct, FrameOf, DistinctJoined DEF Core, JoinedInOuter,
       SetupFails, End, Resume, Answer
  <2>6. RepliedIsOver'
    <3>1. CASE f = Outer(f[1])
      BY <1>5, <3>1, Distinct, FrameOf DEF Core, RepliedIsOver,
         SuspendedForInner, SetupFails, Setup, End, Resume, Answer
    <3>2. CASE f = Inner(f[1])
      BY <1>5, <3>2, Distinct, FrameOf DEF Core, RepliedIsOver,
         SuspendedForInner, SetupFails, Setup, End, Resume, Answer
    <3> QED
      BY <1>5, <3>1, <3>2, FrameOf
  <2>7. OkMeansDurable'
    BY <1>5, Distinct, FrameOf DEF Core, OkMeansDurable, RepliedIsOver,
       AllDurable, SetupFails, End, Resume, Answer
  <2>8. JoinedWithCaller'
    BY <1>5, Distinct, FrameOf, DistinctJoined DEF Core, JoinedWithCaller,
       SetupFails, End, Resume, Answer
  <2>9. (SetupMayFail = FALSE => leaked = {})'
    BY <1>5, Distinct, FrameOf DEF Core, SetupFails, End, Resume, Answer
  <2> QED
    BY <2>1, <2>2, <2>3, <2>4, <2>5, <2>6, <2>7, <2>8, <2>9 DEF Core
<1>6. ASSUME NEW f \in Frame, Statement(f) PROVE Core'
  <2>1. ConnectionsAccounted'
    BY <1>6, Distinct, FrameOf DEF Core, ConnectionsAccounted, Holding,
       Setup, Bodies, Ending, Statement, AddToken
  <2>2. InnerIsSimple'
    BY <1>6, Distinct, FrameOf DEF Core, InnerIsSimple, Statement, AddToken
  <2>3. SuspendedForInner'
    BY <1>6, Distinct, FrameOf DEF Core, SuspendedForInner, InnerIsSimple,
       Statement, AddToken
  <2>4. WorkSoFar'
    <3> SUFFICES ASSUME NEW s \in Request PROVE OuterWork(s)' /\ InnerWork(s)'
      BY DEF WorkSoFar
    <3>1. OuterWork(s) /\ InnerWork(s)
      BY DEF Core, WorkSoFar
    <3>2. CASE s = f[1]
      BY <1>6, <3>1, <3>2, Distinct, FrameOf, DistinctJoined DEF OuterWork,
         InnerWork, AllDurable, Statement, AddToken, Core, InnerIsSimple
    <3>3. CASE s # f[1]
      BY <1>6, <3>1, <3>3, Distinct, FrameOf, OuterUnaffected,
         InnerUnaffected DEF Statement, AddToken
    <3> QED
      BY <3>2, <3>3
  <2>5. JoinedInOuter'
    BY <1>6, Distinct, FrameOf, DistinctJoined DEF Core, JoinedInOuter,
       Statement, AddToken
  <2>6. RepliedIsOver'
    BY <1>6, Distinct, FrameOf DEF Core, RepliedIsOver, Statement, AddToken
  <2>7. OkMeansDurable'
    BY <1>6, Distinct, FrameOf DEF Core, OkMeansDurable, RepliedIsOver,
       AllDurable, Statement, AddToken
  <2>8. JoinedWithCaller'
    BY <1>6, Distinct, FrameOf, DistinctJoined DEF Core, JoinedWithCaller,
       Statement, AddToken
  <2>9. (SetupMayFail = FALSE => leaked = {})'
    BY <1>6, Distinct, FrameOf DEF Core, Statement, AddToken
  <2> QED
    BY <2>1, <2>2, <2>3, <2>4, <2>5, <2>6, <2>7, <2>8, <2>9 DEF Core
<1>7. ASSUME NEW f \in Frame, BodyThrows(f) PROVE Core'
  <2>1. ConnectionsAccounted'
    BY <1>7, Distinct, FrameOf DEF Core, ConnectionsAccounted, Holding,
       Setup, Bodies, Ending, BodyThrows
  <2>2. InnerIsSimple'
    BY <1>7, Distinct, FrameOf DEF Core, InnerIsSimple, BodyThrows
  <2>3. SuspendedForInner'
    BY <1>7, Distinct, FrameOf DEF Core, SuspendedForInner, InnerIsSimple,
       BodyThrows
  <2>4. WorkSoFar'
    <3> SUFFICES ASSUME NEW s \in Request PROVE OuterWork(s)' /\ InnerWork(s)'
      BY DEF WorkSoFar
    <3>1. OuterWork(s) /\ InnerWork(s)
      BY DEF Core, WorkSoFar
    <3>2. CASE s = f[1]
      BY <1>7, <3>1, <3>2, Distinct, FrameOf, DistinctJoined DEF OuterWork,
         InnerWork, AllDurable, BodyThrows, Core, SuspendedForInner,
         InnerIsSimple
    <3>3. CASE s # f[1]
      BY <1>7, <3>1, <3>3, Distinct, FrameOf, OuterUnaffected,
         InnerUnaffected DEF BodyThrows
    <3> QED
      BY <3>2, <3>3
  <2>5. JoinedInOuter'
    BY <1>7, Distinct, FrameOf, DistinctJoined DEF Core, JoinedInOuter,
       BodyThrows
  <2>6. RepliedIsOver'
    BY <1>7, Distinct, FrameOf DEF Core, RepliedIsOver, BodyThrows
  <2>7. OkMeansDurable'
    BY <1>7, Distinct, FrameOf DEF Core, OkMeansDurable, RepliedIsOver,
       AllDurable, BodyThrows
  <2>8. JoinedWithCaller'
    BY <1>7, Distinct, FrameOf, DistinctJoined DEF Core, JoinedWithCaller,
       BodyThrows
  <2>9. (SetupMayFail = FALSE => leaked = {})'
    BY <1>7, Distinct, FrameOf DEF Core, BodyThrows
  <2> QED
    BY <2>1, <2>2, <2>3, <2>4, <2>5, <2>6, <2>7, <2>8, <2>9 DEF Core
<1>8. ASSUME NEW f \in Frame, CommitTransaction(f) PROVE Core'
  <2>1. ConnectionsAccounted'
    BY <1>8, Distinct, FrameOf DEF Core, ConnectionsAccounted, Holding,
       Setup, Bodies, Ending, CommitTransaction
  <2>2. InnerIsSimple'
    BY <1>8, Distinct, FrameOf DEF Core, InnerIsSimple, CommitTransaction
  <2>3. SuspendedForInner'
    BY <1>8, Distinct, FrameOf DEF Core, SuspendedForInner,
       CommitTransaction
  <2>4. WorkSoFar'
    <3> SUFFICES ASSUME NEW s \in Request PROVE OuterWork(s)' /\ InnerWork(s)'
      BY DEF WorkSoFar
    <3>1. OuterWork(s) /\ InnerWork(s)
      BY DEF Core, WorkSoFar
    <3>2. CASE s = f[1]
      BY <1>8, <3>1, <3>2, Distinct, FrameOf, DistinctJoined DEF OuterWork,
         InnerWork, AllDurable, CommitTransaction, Core, InnerIsSimple
    <3>3. CASE s # f[1]
      BY <1>8, <3>1, <3>3, Distinct, FrameOf, OuterUnaffected,
         InnerUnaffected DEF CommitTransaction
    <3> QED
      BY <3>2, <3>3
  <2>5. JoinedInOuter'
    BY <1>8, Distinct, FrameOf, DistinctJoined DEF Core, JoinedInOuter,
       CommitTransaction
  <2>6. RepliedIsOver'
    BY <1>8, Distinct, FrameOf DEF Core, RepliedIsOver, CommitTransaction
  <2>7. OkMeansDurable'
    BY <1>8, Distinct, FrameOf DEF Core, OkMeansDurable, RepliedIsOver,
       AllDurable, CommitTransaction
  <2>8. JoinedWithCaller'
    BY <1>8, Distinct, FrameOf, DistinctJoined DEF Core, JoinedWithCaller,
       JoinedInOuter, CommitTransaction
  <2>9. (SetupMayFail = FALSE => leaked = {})'
    BY <1>8, Distinct, FrameOf DEF Core, CommitTransaction
  <2> QED
    BY <2>1, <2>2, <2>3, <2>4, <2>5, <2>6, <2>7, <2>8, <2>9 DEF Core
<1>9. ASSUME NEW f \in Frame, CommitFails(f) PROVE Core'
  <2>1. ConnectionsAccounted'
    BY <1>9, Distinct, FrameOf DEF Core, ConnectionsAccounted, Holding,
       Setup, Bodies, Ending, CommitFails
  <2>2. InnerIsSimple'
    BY <1>9, Distinct, FrameOf DEF Core, InnerIsSimple, CommitFails
  <2>3. SuspendedForInner'
    BY <1>9, Distinct, FrameOf DEF Core, SuspendedForInner, CommitFails
  <2>4. WorkSoFar'
    <3> SUFFICES ASSUME NEW s \in Request PROVE OuterWork(s)' /\ InnerWork(s)'
      BY DEF WorkSoFar
    <3>1. OuterWork(s) /\ InnerWork(s)
      BY DEF Core, WorkSoFar
    <3>2. CASE s = f[1]
      BY <1>9, <3>1, <3>2, Distinct, FrameOf, DistinctJoined DEF OuterWork,
         InnerWork, AllDurable, CommitFails
    <3>3. CASE s # f[1]
      BY <1>9, <3>1, <3>3, Distinct, FrameOf, OuterUnaffected,
         InnerUnaffected DEF CommitFails
    <3> QED
      BY <3>2, <3>3
  <2>5. JoinedInOuter'
    BY <1>9, Distinct, FrameOf, DistinctJoined DEF Core, JoinedInOuter,
       CommitFails
  <2>6. RepliedIsOver'
    BY <1>9, Distinct, FrameOf DEF Core, RepliedIsOver, CommitFails
  <2>7. OkMeansDurable'
    BY <1>9, Distinct, FrameOf DEF Core, OkMeansDurable, RepliedIsOver,
       AllDurable, CommitFails
  <2>8. JoinedWithCaller'
    BY <1>9, Distinct, FrameOf, DistinctJoined DEF Core, JoinedWithCaller,
       JoinedInOuter, CommitFails
  <2>9. (SetupMayFail = FALSE => leaked = {})'
    BY <1>9, Distinct, FrameOf DEF Core, CommitFails
  <2> QED
    BY <2>1, <2>2, <2>3, <2>4, <2>5, <2>6, <2>7, <2>8, <2>9 DEF Core
<1>10. ASSUME NEW f \in Frame, RollbackTransaction(f) PROVE Core'
  <2>1. ConnectionsAccounted'
    BY <1>10, Distinct, FrameOf DEF Core, ConnectionsAccounted, Holding,
       Setup, Bodies, Ending, RollbackTransaction
  <2>2. InnerIsSimple'
    BY <1>10, Distinct, FrameOf DEF Core, InnerIsSimple, RollbackTransaction
  <2>3. SuspendedForInner'
    BY <1>10, Distinct, FrameOf DEF Core, SuspendedForInner,
       RollbackTransaction
  <2>4. WorkSoFar'
    <3> SUFFICES ASSUME NEW s \in Request PROVE OuterWork(s)' /\ InnerWork(s)'
      BY DEF WorkSoFar
    <3>1. OuterWork(s) /\ InnerWork(s)
      BY DEF Core, WorkSoFar
    <3>2. CASE s = f[1]
      BY <1>10, <3>1, <3>2, Distinct, FrameOf, DistinctJoined DEF OuterWork,
         InnerWork, AllDurable, RollbackTransaction
    <3>3. CASE s # f[1]
      BY <1>10, <3>1, <3>3, Distinct, FrameOf, OuterUnaffected,
         InnerUnaffected DEF RollbackTransaction
    <3> QED
      BY <3>2, <3>3
  <2>5. JoinedInOuter'
    BY <1>10, Distinct, FrameOf, DistinctJoined DEF Core, JoinedInOuter,
       RollbackTransaction
  <2>6. RepliedIsOver'
    BY <1>10, Distinct, FrameOf DEF Core, RepliedIsOver, RollbackTransaction
  <2>7. OkMeansDurable'
    BY <1>10, Distinct, FrameOf DEF Core, OkMeansDurable, RepliedIsOver,
       AllDurable, RollbackTransaction
  <2>8. JoinedWithCaller'
    BY <1>10, Distinct, FrameOf, DistinctJoined DEF Core, JoinedWithCaller,
       RollbackTransaction
  <2>9. (SetupMayFail = FALSE => leaked = {})'
    BY <1>10, Distinct, FrameOf DEF Core, RollbackTransaction
  <2> QED
    BY <2>1, <2>2, <2>3, <2>4, <2>5, <2>6, <2>7, <2>8, <2>9 DEF Core
<1>11. ASSUME NEW f \in Frame, Release(f) PROVE Core'
  <2>1. ConnectionsAccounted'
    BY <1>11, Distinct, FrameOf DEF Core, ConnectionsAccounted, Holding,
       Setup, Bodies, Ending, SuspendedForInner, Release, End, Resume,
       Answer
  <2>2. InnerIsSimple'
    BY <1>11, Distinct, FrameOf DEF Core, InnerIsSimple, Release, End,
       Resume, Answer
  <2>3. SuspendedForInner'
    BY <1>11, Distinct, FrameOf DEF Core, SuspendedForInner, InnerIsSimple,
       Release, End, Resume, Answer
  <2>4. WorkSoFar'
    <3> SUFFICES ASSUME NEW s \in Request PROVE OuterWork(s)' /\ InnerWork(s)'
      BY DEF WorkSoFar
    <3>1. OuterWork(s) /\ InnerWork(s)
      BY DEF Core, WorkSoFar
    <3>2. CASE s = f[1]
      BY <1>11, <3>1, <3>2, Distinct, FrameOf, DistinctJoined DEF OuterWork,
         InnerWork, AllDurable, Release, End, Resume, Answer, Core,
         SuspendedForInner, InnerIsSimple
    <3>3. CASE s # f[1]
      <4>1. phase'[Outer(s)] = phase[Outer(s)] /\ phase'[Inner(s)] = phase[Inner(s)]
        <5>1. CASE f = Outer(f[1])
          BY <1>11, <3>3, <5>1, Distinct, FrameOf DEF Release, End, Answer
        <5>2. CASE f = Inner(f[1])
          BY <1>11, <3>3, <5>2, Distinct, FrameOf DEF Release, End, Resume
        <5> QED
          BY <5>1, <5>2, FrameOf
      <4>2. failed'[Outer(s)] = failed[Outer(s)] /\ failed'[Inner(s)] = failed[Inner(s)]
        BY <1>11, <3>3, Distinct, FrameOf DEF Release
      <4>3. pending' = pending /\ kind' = kind /\ durable' = durable
        BY <1>11 DEF Release
      <4> QED
        BY <3>1, <4>1, <4>2, <4>3, OuterUnaffected, InnerUnaffected
    <3> QED
      BY <3>2, <3>3
  <2>5. JoinedInOuter'
    BY <1>11, Distinct, FrameOf, DistinctJoined DEF Core, JoinedInOuter,
       Release, End, Resume, Answer
  <2>6. RepliedIsOver'
    BY <1>11, Distinct, FrameOf DEF Core, RepliedIsOver, SuspendedForInner,
       Release, End, Resume, Answer
  <2>7. OkMeansDurable'
    BY <1>11, Distinct, FrameOf DEF Core, OkMeansDurable, RepliedIsOver,
       AllDurable, WorkSoFar, OuterWork, Release, End, Resume, Answer
  <2>8. JoinedWithCaller'
    BY <1>11, Distinct, FrameOf, DistinctJoined DEF Core, JoinedWithCaller,
       Release, End, Resume, Answer
  <2>9. (SetupMayFail = FALSE => leaked = {})'
    BY <1>11, Distinct, FrameOf DEF Core, Release, End, Resume, Answer
  <2> QED
    BY <2>1, <2>2, <2>3, <2>4, <2>5, <2>6, <2>7, <2>8, <2>9 DEF Core
<1>12. ASSUME NEW r \in Request, CallRequired(r) PROVE Core'
  <2>1. ConnectionsAccounted'
    BY <1>12, Distinct DEF Core, ConnectionsAccounted, Holding, Setup,
       Bodies, Ending, CallRequired
  <2>2. InnerIsSimple'
    BY <1>12, Distinct DEF Core, InnerIsSimple, CallRequired
  <2>3. SuspendedForInner'
    BY <1>12, Distinct DEF Core, SuspendedForInner, CallRequired
  <2>4. WorkSoFar'
    <3> SUFFICES ASSUME NEW s \in Request PROVE OuterWork(s)' /\ InnerWork(s)'
      BY DEF WorkSoFar
    <3>1. OuterWork(s) /\ InnerWork(s)
      BY DEF Core, WorkSoFar
    <3>2. CASE s = r
      BY <1>12, <3>1, <3>2, Distinct, DistinctJoined DEF OuterWork,
         InnerWork, AllDurable, CallRequired
    <3>3. CASE s # r
      BY <1>12, <3>1, <3>3, Distinct, OuterUnaffected,
         InnerUnaffected DEF CallRequired
    <3> QED
      BY <3>2, <3>3
  <2>5. JoinedInOuter'
    BY <1>12, Distinct, DistinctJoined DEF Core, JoinedInOuter, CallRequired
  <2>6. RepliedIsOver'
    BY <1>12, Distinct DEF Core, RepliedIsOver, CallRequired
  <2>7. OkMeansDurable'
    BY <1>12, Distinct DEF Core, OkMeansDurable, RepliedIsOver, AllDurable,
       CallRequired
  <2>8. JoinedWithCaller'
    BY <1>12, Distinct, DistinctJoined DEF Core, JoinedWithCaller,
       CallRequired
  <2>9. (SetupMayFail = FALSE => leaked = {})'
    BY <1>12, Distinct DEF Core, CallRequired
  <2> QED
    BY <2>1, <2>2, <2>3, <2>4, <2>5, <2>6, <2>7, <2>8, <2>9 DEF Core
<1>13. ASSUME NEW r \in Request, JoinedStatement(r) PROVE Core'
  <2>1. ConnectionsAccounted'
    BY <1>13, Distinct DEF Core, ConnectionsAccounted, Holding, Setup,
       Bodies, Ending, JoinedStatement, AddToken
  <2>2. InnerIsSimple'
    BY <1>13, Distinct DEF Core, InnerIsSimple, JoinedStatement, AddToken
  <2>3. SuspendedForInner'
    BY <1>13, Distinct DEF Core, SuspendedForInner, JoinedStatement,
       AddToken
  <2>4. WorkSoFar'
    <3> SUFFICES ASSUME NEW s \in Request PROVE OuterWork(s)' /\ InnerWork(s)'
      BY DEF WorkSoFar
    <3>1. OuterWork(s) /\ InnerWork(s)
      BY DEF Core, WorkSoFar
    <3>2. CASE s = r
      BY <1>13, <3>1, <3>2, Distinct, DistinctJoined DEF OuterWork,
         InnerWork, AllDurable, JoinedStatement, AddToken
    <3>3. CASE s # r
      BY <1>13, <3>1, <3>3, Distinct, OuterUnaffected,
         InnerUnaffected DEF JoinedStatement, AddToken
    <3> QED
      BY <3>2, <3>3
  <2>5. JoinedInOuter'
    BY <1>13, Distinct, DistinctJoined DEF Core, JoinedInOuter, WorkSoFar,
       OuterWork, JoinedStatement, AddToken
  <2>6. RepliedIsOver'
    BY <1>13, Distinct DEF Core, RepliedIsOver, JoinedStatement, AddToken
  <2>7. OkMeansDurable'
    BY <1>13, Distinct DEF Core, OkMeansDurable, RepliedIsOver, AllDurable,
       JoinedStatement, AddToken
  <2>8. JoinedWithCaller'
    BY <1>13, Distinct, DistinctJoined DEF Core, JoinedWithCaller,
       JoinedStatement, AddToken
  <2>9. (SetupMayFail = FALSE => leaked = {})'
    BY <1>13, Distinct DEF Core, JoinedStatement, AddToken
  <2> QED
    BY <2>1, <2>2, <2>3, <2>4, <2>5, <2>6, <2>7, <2>8, <2>9 DEF Core
<1>14. ASSUME NEW r \in Request, CallRequiresNew(r) PROVE Core'
  <2>1. ConnectionsAccounted'
    BY <1>14, Distinct DEF Core, ConnectionsAccounted, Holding, Setup,
       Bodies, Ending, SuspendedForInner, CallRequiresNew
  <2>2. InnerIsSimple'
    BY <1>14, Distinct DEF Core, InnerIsSimple, CallRequiresNew
  <2>3. SuspendedForInner'
    BY <1>14, Distinct DEF Core, SuspendedForInner, CallRequiresNew
  <2>4. WorkSoFar'
    <3> SUFFICES ASSUME NEW s \in Request PROVE OuterWork(s)' /\ InnerWork(s)'
      BY DEF WorkSoFar
    <3>1. OuterWork(s) /\ InnerWork(s)
      BY DEF Core, WorkSoFar
    <3>2. CASE s = r
      BY <1>14, <3>1, <3>2, Distinct, DistinctJoined DEF OuterWork,
         InnerWork, AllDurable, CallRequiresNew, Core, SuspendedForInner,
         InnerIsSimple
    <3>3. CASE s # r
      BY <1>14, <3>1, <3>3, Distinct, OuterUnaffected,
         InnerUnaffected DEF CallRequiresNew
    <3> QED
      BY <3>2, <3>3
  <2>5. JoinedInOuter'
    BY <1>14, Distinct, DistinctJoined DEF Core, JoinedInOuter,
       CallRequiresNew
  <2>6. RepliedIsOver'
    BY <1>14, Distinct DEF Core, RepliedIsOver, CallRequiresNew
  <2>7. OkMeansDurable'
    BY <1>14, Distinct DEF Core, OkMeansDurable, RepliedIsOver, AllDurable,
       CallRequiresNew
  <2>8. JoinedWithCaller'
    BY <1>14, Distinct, DistinctJoined DEF Core, JoinedWithCaller,
       CallRequiresNew
  <2>9. (SetupMayFail = FALSE => leaked = {})'
    BY <1>14, Distinct DEF Core, CallRequiresNew
  <2> QED
    BY <2>1, <2>2, <2>3, <2>4, <2>5, <2>6, <2>7, <2>8, <2>9 DEF Core
<1>15. ASSUME NEW r \in Request, PublishResolves(r) PROVE Core'
  <2>1. ConnectionsAccounted'
    BY <1>15, Distinct DEF Core, ConnectionsAccounted, Holding, Setup,
       Bodies, Ending, PublishResolves, Answer
  <2>2. InnerIsSimple'
    BY <1>15, Distinct DEF Core, InnerIsSimple, PublishResolves, Answer
  <2>3. SuspendedForInner'
    BY <1>15, Distinct DEF Core, SuspendedForInner, InnerIsSimple, PublishResolves,
       Answer
  <2>4. WorkSoFar'
    <3> SUFFICES ASSUME NEW s \in Request PROVE OuterWork(s)' /\ InnerWork(s)'
      BY DEF WorkSoFar
    <3>1. OuterWork(s) /\ InnerWork(s)
      BY DEF Core, WorkSoFar
    <3>2. CASE s = r
      BY <1>15, <3>1, <3>2, Distinct, DistinctJoined DEF OuterWork,
         InnerWork, AllDurable, PublishResolves, Answer, Core, SuspendedForInner,
         InnerIsSimple
    <3>3. CASE s # r
      BY <1>15, <3>1, <3>3, Distinct, OuterUnaffected,
         InnerUnaffected DEF PublishResolves, Answer
    <3> QED
      BY <3>2, <3>3
  <2>5. JoinedInOuter'
    BY <1>15, Distinct, DistinctJoined DEF Core, JoinedInOuter, PublishResolves,
       Answer
  <2>6. RepliedIsOver'
    BY <1>15, Distinct DEF Core, RepliedIsOver, PublishResolves, Answer
  <2>7. OkMeansDurable'
    BY <1>15, Distinct DEF Core, OkMeansDurable, RepliedIsOver, AllDurable,
       WorkSoFar, OuterWork, PublishResolves, Answer
  <2>8. JoinedWithCaller'
    BY <1>15, Distinct, DistinctJoined DEF Core, JoinedWithCaller, PublishResolves,
       Answer
  <2>9. (SetupMayFail = FALSE => leaked = {})'
    BY <1>15, Distinct DEF Core, PublishResolves, Answer
  <2> QED
    BY <2>1, <2>2, <2>3, <2>4, <2>5, <2>6, <2>7, <2>8, <2>9 DEF Core
<1>16. ASSUME NEW r \in Request, PublishRejects(r) PROVE Core'
  <2>1. ConnectionsAccounted'
    BY <1>16, Distinct DEF Core, ConnectionsAccounted, Holding, Setup,
       Bodies, Ending, PublishRejects, Answer
  <2>2. InnerIsSimple'
    BY <1>16, Distinct DEF Core, InnerIsSimple, PublishRejects, Answer
  <2>3. SuspendedForInner'
    BY <1>16, Distinct DEF Core, SuspendedForInner, InnerIsSimple, PublishRejects,
       Answer
  <2>4. WorkSoFar'
    <3> SUFFICES ASSUME NEW s \in Request PROVE OuterWork(s)' /\ InnerWork(s)'
      BY DEF WorkSoFar
    <3>1. OuterWork(s) /\ InnerWork(s)
      BY DEF Core, WorkSoFar
    <3>2. CASE s = r
      BY <1>16, <3>1, <3>2, Distinct, DistinctJoined DEF OuterWork,
         InnerWork, AllDurable, PublishRejects, Answer, Core, SuspendedForInner,
         InnerIsSimple
    <3>3. CASE s # r
      BY <1>16, <3>1, <3>3, Distinct, OuterUnaffected,
         InnerUnaffected DEF PublishRejects, Answer
    <3> QED
      BY <3>2, <3>3
  <2>5. JoinedInOuter'
    BY <1>16, Distinct, DistinctJoined DEF Core, JoinedInOuter, PublishRejects,
       Answer
  <2>6. RepliedIsOver'
    BY <1>16, Distinct DEF Core, RepliedIsOver, PublishRejects, Answer
  <2>7. OkMeansDurable'
    BY <1>16, Distinct DEF Core, OkMeansDurable, RepliedIsOver, AllDurable,
       WorkSoFar, OuterWork, PublishRejects, Answer
  <2>8. JoinedWithCaller'
    BY <1>16, Distinct, DistinctJoined DEF Core, JoinedWithCaller, PublishRejects,
       Answer
  <2>9. (SetupMayFail = FALSE => leaked = {})'
    BY <1>16, Distinct DEF Core, PublishRejects, Answer
  <2> QED
    BY <2>1, <2>2, <2>3, <2>4, <2>5, <2>6, <2>7, <2>8, <2>9 DEF Core
<1>17. ASSUME NEW r \in Request, Send(r) PROVE Core'
  <2>1. ConnectionsAccounted'
    BY <1>17, Distinct DEF Core, ConnectionsAccounted, Holding, Setup,
       Bodies, Ending, Send
  <2>2. InnerIsSimple'
    BY <1>17, Distinct DEF Core, InnerIsSimple, Send
  <2>3. SuspendedForInner'
    BY <1>17, Distinct DEF Core, SuspendedForInner, InnerIsSimple, Send
  <2>4. WorkSoFar'
    <3> SUFFICES ASSUME NEW s \in Request PROVE OuterWork(s)' /\ InnerWork(s)'
      BY DEF WorkSoFar
    <3>1. OuterWork(s) /\ InnerWork(s)
      BY DEF Core, WorkSoFar
    <3>2. CASE s = r
      BY <1>17, <3>1, <3>2, Distinct, DistinctJoined DEF OuterWork,
         InnerWork, AllDurable, Send, Core, SuspendedForInner,
         InnerIsSimple
    <3>3. CASE s # r
      BY <1>17, <3>1, <3>3, Distinct, OuterUnaffected,
         InnerUnaffected DEF Send
    <3> QED
      BY <3>2, <3>3
  <2>5. JoinedInOuter'
    BY <1>17, Distinct, DistinctJoined DEF Core, JoinedInOuter, Send
  <2>6. RepliedIsOver'
    <3>1. kind[r] # "command" /\ phase'[Outer(r)] = "publishing"
      BY <1>17, Distinct DEF Core, WorkSoFar, OuterWork, Send
    <3> QED
      BY <1>17, <3>1, Distinct DEF Core, RepliedIsOver, Send
  <2>7. OkMeansDurable'
    BY <1>17, Distinct DEF Core, OkMeansDurable, RepliedIsOver, AllDurable,
       WorkSoFar, OuterWork, Send
  <2>8. JoinedWithCaller'
    BY <1>17, Distinct, DistinctJoined DEF Core, JoinedWithCaller, Send
  <2>9. (SetupMayFail = FALSE => leaked = {})'
    BY <1>17, Distinct DEF Core, Send
  <2> QED
    BY <2>1, <2>2, <2>3, <2>4, <2>5, <2>6, <2>7, <2>8, <2>9 DEF Core
<1>18. ASSUME NEW r \in Request, Accept(r) PROVE Core'
  <2>1. /\ UNCHANGED <<phase, conn, leaked, pending, failed, kind, reply, durable>>
        /\ sent' \cup published' = sent \cup published /\ published \subseteq published'
    BY <1>18 DEF Accept
  <2>2. RepliedIsOver' /\ OkMeansDurable'
    BY <2>1 DEF Core, RepliedIsOver, OkMeansDurable, AllDurable
  <2> QED
    BY <2>1, <2>2 DEF Core, ConnectionsAccounted, InnerIsSimple, SuspendedForInner,
       WorkSoFar, OuterWork, InnerWork, AllDurable, JoinedInOuter, JoinedWithCaller
<1>19. CASE Crash
  <2>1. ConnectionsAccounted'
    BY <1>19, Distinct DEF Core, ConnectionsAccounted, Holding, Setup,
       Bodies, Ending, Crash
  <2>2. InnerIsSimple'
    BY <1>19, Distinct DEF Core, InnerIsSimple, Crash
  <2>3. SuspendedForInner'
    BY <1>19, Distinct DEF Core, SuspendedForInner, Crash
  <2>4. WorkSoFar'
    BY <1>19, Distinct DEF Core, WorkSoFar, OuterWork, InnerWork, AllDurable, Crash
  <2>5. JoinedInOuter'
    BY <1>19, Distinct, DistinctJoined DEF Core, JoinedInOuter, Crash
  <2>6. RepliedIsOver'
    BY <1>19, Distinct DEF Core, RepliedIsOver, Crash
  <2>7. OkMeansDurable'
    BY <1>19, Distinct DEF Core, OkMeansDurable, RepliedIsOver, AllDurable,
       Crash
  <2>8. JoinedWithCaller'
    BY <1>19, Distinct, DistinctJoined DEF Core, JoinedWithCaller, Crash
  <2>9. (SetupMayFail = FALSE => leaked = {})'
    BY <1>19, Distinct DEF Core, Crash
  <2> QED
    BY <2>1, <2>2, <2>3, <2>4, <2>5, <2>6, <2>7, <2>8, <2>9 DEF Core
<1>20. CASE UNCHANGED vars
  <2>1. ConnectionsAccounted'
    BY <1>20, Distinct DEF Core, ConnectionsAccounted, Holding, Setup,
       Bodies, Ending, vars
  <2>2. InnerIsSimple'
    BY <1>20, Distinct DEF Core, InnerIsSimple, vars
  <2>3. SuspendedForInner'
    BY <1>20, Distinct DEF Core, SuspendedForInner, vars
  <2>4. WorkSoFar'
    BY <1>20, Distinct DEF Core, WorkSoFar, OuterWork, InnerWork, AllDurable, vars
  <2>5. JoinedInOuter'
    BY <1>20, Distinct, DistinctJoined DEF Core, JoinedInOuter, vars
  <2>6. RepliedIsOver'
    BY <1>20, Distinct DEF Core, RepliedIsOver, vars
  <2>7. OkMeansDurable'
    BY <1>20, Distinct DEF Core, OkMeansDurable, RepliedIsOver, AllDurable,
       vars
  <2>8. JoinedWithCaller'
    BY <1>20, Distinct, DistinctJoined DEF Core, JoinedWithCaller, vars
  <2>9. (SetupMayFail = FALSE => leaked = {})'
    BY <1>20, Distinct DEF Core, vars
  <2> QED
    BY <2>1, <2>2, <2>3, <2>4, <2>5, <2>6, <2>7, <2>8, <2>9 DEF Core
<1> QED
  BY <1>1, <1>2, <1>3, <1>4, <1>5, <1>6, <1>7, <1>8, <1>9, <1>10, <1>11, <1>12, <1>13, <1>14, <1>15,
     <1>16, <1>17, <1>18, <1>19, <1>20, FrameOf DEF Next, Advance

(* Events of committed requests stay so while nothing is taken back, no    *)
(* event is sent, and no 200 is given to a request that has one.           *)
LEMMA EventsUnaffected ==
  ASSUME PublishedAfterCommit, UNCHANGED kind, durable \subseteq durable',
         sent' \cup published' \subseteq sent \cup published, published \subseteq published',
         \A r \in Request : reply'[r] = "ok" => reply[r] = "ok" \/ kind[r] = "command"
  PROVE  PublishedAfterCommit'
BY DEF PublishedAfterCommit, AllDurable

(* Every step leaves the events true.                                      *)
LEMMA EventsKept ==
  ASSUME TypeOK, WorkSoFar, RepliedIsOver, PublishedAfterCommit, [Next]_vars
  PROVE  PublishedAfterCommit'
<1> USE DEF events
<1>1. ASSUME NEW r \in Request, NEW k \in Kinds, Arrive(r, k) PROVE PublishedAfterCommit'
  <2> SUFFICES ASSUME NEW s \in Request
               PROVE  /\ s \in sent' \cup published' => AllDurable(s)'
                      /\ reply'[s] = "ok" /\ kind'[s] # "command" => s \in published'
    BY DEF PublishedAfterCommit
  <2>1. CASE s = r
    BY <1>1, <2>1 DEF Arrive, TypeOK
  <2>2. CASE s # r
    <3>1. /\ kind'[s] = kind[s] /\ reply'[s] = reply[s]
          /\ s \in sent' \cup published' <=> s \in sent \cup published
          /\ s \in published' <=> s \in published
      BY <1>1, <2>2 DEF Arrive, TypeOK
    <3>2. AllDurable(s) => AllDurable(s)'
      BY <1>1, <2>2, <3>1, Distinct, DistinctJoined DEF Arrive, AllDurable
    <3> QED
      BY <3>1, <3>2 DEF PublishedAfterCommit
  <2> QED
    BY <2>1, <2>2
<1>2. ASSUME NEW f \in Frame,
             Connect(f) \/ SetSearchPath(f) \/ StartTransaction(f) \/ Statement(f)
             \/ BodyThrows(f) \/ CommitTransaction(f) \/ CommitFails(f)
             \/ RollbackTransaction(f)
      PROVE  PublishedAfterCommit'
  BY <1>2, EventsUnaffected DEF Connect, SetSearchPath, StartTransaction, Statement,
     BodyThrows, CommitTransaction, CommitFails, RollbackTransaction
<1>3. ASSUME NEW f \in Frame, SetupFails(f) \/ Release(f) PROVE PublishedAfterCommit'
  <2>1. UNCHANGED <<durable, kind, sent, published>> /\ \E e \in BOOLEAN : End(f, e)
    BY <1>3 DEF SetupFails, Release, TypeOK
  <2>2. \A r \in Request : reply'[r] = "ok" => reply[r] = "ok" \/ kind[r] = "command"
    BY <2>1, FrameOf, Distinct DEF End, Resume, Answer, TypeOK
  <2> QED
    BY <2>1, <2>2, EventsUnaffected
<1>4. ASSUME NEW q \in Request, CallRequired(q) \/ JoinedStatement(q) \/ CallRequiresNew(q)
      PROVE  PublishedAfterCommit'
  BY <1>4, EventsUnaffected DEF CallRequired, JoinedStatement, CallRequiresNew
<1>5. ASSUME NEW q \in Request, Send(q) PROVE PublishedAfterCommit'
  <2>1. AllDurable(q)
    BY <1>5 DEF Send, WorkSoFar, OuterWork, Publishing
  <2>2. /\ UNCHANGED <<kind, reply, durable, published>>
        /\ sent' \cup published' = (sent \cup published) \cup {q}
    BY <1>5 DEF Send
  <2> QED
    BY <2>1, <2>2 DEF PublishedAfterCommit, AllDurable
<1>6. ASSUME NEW q \in Request, PublishResolves(q) PROVE PublishedAfterCommit'
  <2>1. /\ q \in published /\ UNCHANGED <<kind, durable, sent, published>>
        /\ \A r \in Request : r # q => reply'[r] = reply[r]
    BY <1>6 DEF PublishResolves, Answer, TypeOK
  <2> QED
    BY <2>1 DEF PublishedAfterCommit, AllDurable
<1>7. ASSUME NEW q \in Request, PublishRejects(q) PROVE PublishedAfterCommit'
  BY <1>7, EventsUnaffected DEF PublishRejects, Answer, TypeOK
<1>8. ASSUME NEW q \in Request, Accept(q) PROVE PublishedAfterCommit'
  BY <1>8, EventsUnaffected DEF Accept
<1>9. CASE Crash \/ UNCHANGED vars
  BY <1>9, EventsUnaffected DEF Crash, vars
<1> QED
  BY <1>1, <1>2, <1>3, <1>4, <1>5, <1>6, <1>7, <1>8, <1>9, FrameOf DEF Next, Advance

(* What a frame writes is its own, or of the method that joins it.         *)
LEMMA OwnWritesKept ==
  ASSUME TypeOK, InnerIsSimple, SuspendedForInner, WorkSoFar, OwnWritesOnly, [Next]_vars
  PROVE  OwnWritesOnly'
<1> USE DEF Goto, TypeOK, OwnWritesOnly, events, Publishing
<1>1. ASSUME NEW r \in Request, NEW k \in Kinds, Arrive(r, k) PROVE OwnWritesOnly'
  <2> SUFFICES ASSUME NEW g \in Frame, pending'[g] # {}
               PROVE  /\ phase'[g] \in {"call", "joined", "suspended", "commit", "rollback"}
                      /\ \A x \in pending'[g] :
                           x = g \/ (g = Outer(g[1]) /\ kind'[g[1]] = "findAll"
                                     /\ x = <<g[1], "joined">>)
    OBVIOUS
  <2>1. pending' = pending /\ g # Outer(r)
    BY <1>1 DEF Arrive
  <2>2. phase'[g] = phase[g]
    BY <1>1, <2>1 DEF Arrive
  <2>3. CASE g[1] = r
    BY <2>1, <2>2, <2>3
  <2>4. CASE g[1] # r
    BY <1>1, <2>1, <2>2, <2>4, FrameOf DEF Arrive
  <2> QED
    BY <2>3, <2>4
<1>2. ASSUME NEW f \in Frame, Connect(f) \/ SetSearchPath(f) \/ StartTransaction(f)
      PROVE  OwnWritesOnly'
  BY <1>2 DEF Connect, SetSearchPath, StartTransaction
<1>3. ASSUME NEW f \in Frame, Statement(f) PROVE OwnWritesOnly'
  BY <1>3 DEF Statement, AddToken
<1>4. ASSUME NEW f \in Frame, BodyThrows(f) PROVE OwnWritesOnly'
  BY <1>4 DEF BodyThrows
<1>5. ASSUME NEW f \in Frame, CommitTransaction(f) \/ CommitFails(f) \/ RollbackTransaction(f)
      PROVE  OwnWritesOnly'
  BY <1>5 DEF CommitTransaction, CommitFails, RollbackTransaction
<1>6. ASSUME NEW f \in Frame, pending[f] = {}, UNCHANGED <<pending, kind>>,
             NEW e \in BOOLEAN, End(f, e)
      PROVE  OwnWritesOnly'
  <2>1. \A g \in Frame : phase'[g] # phase[g] /\ pending[g] # {} =>
                             phase'[g] \in {"rollback", "commit"}
    <3>1. CASE f = Inner(f[1])
      BY <1>6, <3>1, FrameOf, Distinct DEF End, Resume
    <3>2. CASE f = Outer(f[1])
      BY <1>6, <3>2, FrameOf, Distinct DEF End, Answer
    <3> QED
      BY <3>1, <3>2, FrameOf
  <2> QED
    BY <1>6, <2>1
<1>7. ASSUME NEW f \in Frame, SetupFails(f) \/ Release(f) PROVE OwnWritesOnly'
  <2>1. pending[f] = {}
    BY <1>7 DEF SetupFails, Release, Setup
  <2>2. UNCHANGED <<pending, kind>>
    BY <1>7 DEF SetupFails, Release
  <2>3. CASE SetupFails(f)
    <3>1. End(f, TRUE)
      BY <2>3 DEF SetupFails
    <3> QED
      BY <1>6, <2>1, <2>2, <3>1
  <2>4. CASE Release(f)
    <3>1. End(f, failed[f]) /\ failed[f] \in BOOLEAN
      BY <2>4 DEF Release
    <3> QED
      BY <1>6, <2>1, <2>2, <3>1
  <2> QED
    BY <1>7, <2>3, <2>4
<1>8. ASSUME NEW r \in Request, CallRequired(r) \/ CallRequiresNew(r) PROVE OwnWritesOnly'
  <2>1. CallRequiresNew(r) => phase[Inner(r)] = "off"
    BY <1>8 DEF CallRequiresNew, SuspendedForInner
  <2> QED
    BY <1>8, <2>1, Distinct DEF CallRequired, CallRequiresNew
<1>9. ASSUME NEW r \in Request, JoinedStatement(r) PROVE OwnWritesOnly'
  <2>1. kind[r] = "findAll"
    BY <1>9 DEF JoinedStatement, WorkSoFar, OuterWork
  <2> QED
    BY <1>9, <2>1, Distinct DEF JoinedStatement, AddToken
<1>10. ASSUME NEW r \in Request, Send(r) \/ PublishResolves(r) \/ PublishRejects(r)
       PROVE  OwnWritesOnly'
  BY <1>10, Distinct DEF Send, PublishResolves, PublishRejects, Answer
<1>11. CASE Crash
  BY <1>11 DEF Crash
<1>12. CASE UNCHANGED vars
  BY <1>12 DEF vars
<1>13. ASSUME NEW r \in Request, Accept(r) PROVE OwnWritesOnly'
  BY <1>13 DEF Accept
<1> QED
  BY <1>1, <1>2, <1>3, <1>4, <1>5, <1>7, <1>8, <1>9, <1>10, <1>11, <1>12, <1>13,
     FrameOf DEF Next, Advance

(* Nobody else commits the work of an outer frame.                         *)
LEMMA CommitsOwn ==
  ASSUME OwnWritesOnly, NEW f \in Frame, NEW r \in Request, Outer(r) \in pending[f]
  PROVE  f = Outer(r)
BY DistinctJoined, FrameOf DEF OwnWritesOnly

(* After its COMMIT an outer frame only releases, publishes and answers.   *)
LEMMA CommittedKept ==
  ASSUME TypeOK, InnerIsSimple, SuspendedForInner, OwnWritesOnly, CommittedIsEnding,
         [Next]_vars
  PROVE  CommittedIsEnding'
<1> DEFINE Late == {"rollback", "release", "off"} \cup Publishing
<1> USE DEF Goto, TypeOK, events, Publishing
<1> SUFFICES ASSUME NEW r \in Request
             PROVE  Outer(r) \in durable' => phase'[Outer(r)] \in Late
  BY DEF CommittedIsEnding
<1>a. Outer(r) \in durable => phase[Outer(r)] \in Late
  BY DEF CommittedIsEnding
<1>b. Outer(r) \in Frame
  BY Distinct
<1>1. ASSUME NEW q \in Request, NEW k \in Kinds, Arrive(q, k)
      PROVE  Outer(r) \in durable' => phase'[Outer(r)] \in Late
  <2>1. CASE q = r
    BY <1>1, <2>1, <1>b, Distinct DEF Arrive
  <2>2. CASE q # r
    BY <1>1, <2>2, <1>a, Distinct DEF Arrive
  <2> QED
    BY <2>1, <2>2
<1>3. ASSUME NEW f \in Frame, Connect(f) \/ SetSearchPath(f) \/ StartTransaction(f)
             \/ Statement(f) \/ BodyThrows(f)
      PROVE  Outer(r) \in durable' => phase'[Outer(r)] \in Late
  BY <1>3, <1>a, <1>b DEF Connect, SetSearchPath, StartTransaction, Statement, BodyThrows
<1>4. ASSUME NEW f \in Frame, CommitTransaction(f) \/ CommitFails(f)
      PROVE  Outer(r) \in durable' => phase'[Outer(r)] \in Late
  <2>1. phase'[f] \in {"release", "rollback"} /\ kind' = kind
        /\ durable' \subseteq durable \cup pending[f]
        /\ \A g \in Frame : g # f => phase'[g] = phase[g]
    BY <1>4 DEF CommitTransaction, CommitFails
  <2>2. CASE f = Outer(r)
    BY <2>1, <2>2
  <2>3. CASE f # Outer(r)
    BY <2>1, <2>3, <1>a, <1>b, CommitsOwn
  <2> QED
    BY <2>2, <2>3
<1>5. ASSUME NEW f \in Frame, RollbackTransaction(f)
      PROVE  Outer(r) \in durable' => phase'[Outer(r)] \in Late
  BY <1>5, <1>a, <1>b DEF RollbackTransaction
<1>6. ASSUME NEW f \in Frame, SetupFails(f) \/ Release(f)
      PROVE  Outer(r) \in durable' => phase'[Outer(r)] \in Late
  <2>1. UNCHANGED durable /\ \E e \in BOOLEAN : End(f, e)
    BY <1>6 DEF SetupFails, Release
  <2>2. CASE f = Outer(r)
    BY <2>1, <2>2, <1>a, <1>b, Distinct DEF End, Answer
  <2>3. CASE f = Inner(r)
    <3>1. phase[Outer(r)] = "suspended"
      BY <1>6, <2>3 DEF SuspendedForInner, SetupFails, Release, Setup
    <3>2. phase'[Outer(r)] \in {"rollback", "commit"}
      BY <2>1, <2>3, <1>b, Distinct DEF End, Resume
    <3> QED
      BY <2>1, <3>1, <3>2, <1>a
  <2>4. CASE f[1] # r
    <3>1. phase'[Outer(r)] = phase[Outer(r)]
      BY <2>1, <2>4, <1>b, FrameOf, Distinct DEF End, Resume, Answer
    <3> QED
      BY <2>1, <3>1, <1>a
  <2> QED
    BY <2>2, <2>3, <2>4, FrameOf
<1>7. ASSUME NEW q \in Request, CallRequired(q) \/ JoinedStatement(q) \/ CallRequiresNew(q)
      PROVE  Outer(r) \in durable' => phase'[Outer(r)] \in Late
  BY <1>7, <1>a, <1>b, Distinct DEF CallRequired, JoinedStatement, CallRequiresNew
<1>8. ASSUME NEW q \in Request, Send(q) \/ PublishResolves(q) \/ PublishRejects(q)
      PROVE  Outer(r) \in durable' => phase'[Outer(r)] \in Late
  BY <1>8, <1>a, <1>b, Distinct DEF Send, PublishResolves, PublishRejects, Answer
<1>9. CASE Crash
  BY <1>9, <1>b DEF Crash
<1>10. CASE UNCHANGED vars
  BY <1>10, <1>a DEF vars
<1>11. ASSUME NEW q \in Request, Accept(q)
       PROVE  Outer(r) \in durable' => phase'[Outer(r)] \in Late
  BY <1>11, <1>a DEF Accept
<1> QED
  BY <1>1, <1>3, <1>4, <1>5, <1>6, <1>7, <1>8, <1>9, <1>10, <1>11, FrameOf DEF Next, Advance

(* In every reachable state connections are accounted for, a 200 means     *)
(* committed, joined methods commit with their callers, and events follow  *)
(* commits.                                                                *)
THEOREM Invariance == Spec => []FrameInv
<1>1. Init => Core /\ PublishedAfterCommit /\ OwnWritesOnly /\ CommittedIsEnding
  BY Distinct DEF Init, Core, OwnWritesOnly, CommittedIsEnding, ConnectionsAccounted, InnerIsSimple, SuspendedForInner,
     WorkSoFar, OuterWork, InnerWork, JoinedInOuter, RepliedIsOver, OkMeansDurable,
     JoinedWithCaller, PublishedAfterCommit, Holding, Setup, Bodies, Ending, Publishing
<1>2. TypeOK /\ TypeOK' /\ Core /\ [Next]_vars => Core'
  BY CoreStep
<1>3. Core => InnerIsSimple /\ SuspendedForInner /\ WorkSoFar /\ RepliedIsOver
  BY DEF Core
<1>4. TypeOK /\ Core /\ OwnWritesOnly /\ [Next]_vars => OwnWritesOnly'
  BY <1>3, OwnWritesKept
<1>5. TypeOK /\ Core /\ OwnWritesOnly /\ CommittedIsEnding /\ [Next]_vars => CommittedIsEnding'
  BY <1>3, CommittedKept
<1>6. TypeOK /\ Core /\ PublishedAfterCommit /\ [Next]_vars => PublishedAfterCommit'
  BY <1>3, EventsKept
<1>7. TypeOK /\ Core /\ PublishedAfterCommit /\ OwnWritesOnly /\ CommittedIsEnding => FrameInv
  BY DEF Core, FrameInv
<1> QED
  BY <1>1, <1>2, <1>4, <1>5, <1>6, <1>7, TypeCorrect, PTL DEF Spec

(* No two open transactions share a connection and none gets lost while a  *)
(* frame uses it.                                                          *)
THEOREM ConnectionsHold == Spec => []ConnectionsAccounted
<1>1. FrameInv => ConnectionsAccounted
  BY DEF FrameInv
<1> QED
  BY <1>1, Invariance, PTL

(* A client that was told 200 has all its writes committed.                *)
THEOREM OkHolds == Spec => []OkMeansDurable
<1>1. FrameInv => OkMeansDurable
  BY DEF FrameInv
<1> QED
  BY <1>1, Invariance, PTL

(* A joined method's writes are never committed without its caller's.      *)
THEOREM JoinedHolds == Spec => []JoinedWithCaller
<1>1. FrameInv => JoinedWithCaller
  BY DEF FrameInv
<1> QED
  BY <1>1, Invariance, PTL

(* Events tell of committed transactions only, and are out before the 200. *)
THEOREM PublishedHolds == Spec => []PublishedAfterCommit
<1>1. FrameInv => PublishedAfterCommit
  BY DEF FrameInv
<1> QED
  BY <1>1, Invariance, PTL

(* With fewer requests in flight than connections that are not lost, some  *)
(* frame can always go on: were all stuck, every such connection would     *)
(* belong to the suspended outer frame of a request of its own.            *)
THEOREM NoPoolDeadlockHolds ==
  ASSUME IsFiniteSet(Request)
  PROVE  Spec => []NoPoolDeadlock
<1>1. FrameInv => NoPoolDeadlock
  <2> SUFFICES ASSUME FrameInv, SpareConnection, Free = {},
                      \A f \in Frame : ~ CanProceed(f)
               PROVE  FALSE
    BY DEF NoPoolDeadlock
  <2> DEFINE usable == Conn \ leaked
             holder(c) == CHOOSE r \in Request : conn[Outer(r)] = c
             H == [c \in usable |-> holder(c)]
  <2>1. ASSUME NEW c \in usable PROVE \E r \in Request : conn[Outer(r)] = c
    <3>1. PICK f \in Frame : conn[f] = c
      BY DEF Free, Leased
    <3>2. phase[f] \in Holding
      BY <3>1, NoConnAssumption DEF FrameInv, ConnectionsAccounted
    <3>3. phase[f] = "suspended"
      BY <3>2 DEF CanProceed
    <3>4. f # Inner(f[1])
      BY <3>3, FrameOf DEF FrameInv, InnerIsSimple
    <3> QED
      BY <3>1, <3>4, FrameOf
  <2>2. \A c \in usable : H[c] \in Request /\ conn[Outer(H[c])] = c
    BY <2>1
  <2>3. H \in Injection(usable, Request)
    BY <2>2 DEF Injection, IsInjective
  <2>4. IsFiniteSet(usable) /\ Cardinality(usable) <= Cardinality(Request)
    BY <2>3, FS_Injection
  <2>5. Cardinality(usable) \in Nat /\ Cardinality(Request) \in Nat
    BY <2>4, FS_CardinalityType
  <2> QED
    BY <2>4, <2>5 DEF SpareConnection
<1> QED
  BY <1>1, Invariance, PTL

-----------------------------------------------------------------------------
(* The refinement of AtomicMethods                                         *)

Open == {r \in Request : phase[Outer(r)] # "off"}

(* What is neither a commit nor an answer shows to nobody.                 *)
LEMMA Unseen ==
  ASSUME UNCHANGED <<kind, reply, durable, published>>,
         \A r \in Request : phase'[Outer(r)] = "off" <=> phase[Outer(r)] = "off"
  PROVE  UNCHANGED Methods!vars
BY DEF Methods!vars

LEMMA QuietStep ==
  ASSUME TypeOK, SuspendedForInner, NEW f \in Frame,
         \/ Connect(f) \/ SetSearchPath(f) \/ StartTransaction(f) \/ Statement(f)
         \/ BodyThrows(f) \/ RollbackTransaction(f)
  PROVE  UNCHANGED Methods!vars
<1>1. UNCHANGED <<kind, reply, durable, published>>
  BY DEF Connect, SetSearchPath, StartTransaction, Statement, BodyThrows, RollbackTransaction,
     events
<1>2. /\ phase[f] # "off" /\ phase'[f] # "off"
      /\ \A g \in Frame : g # f => phase'[g] = phase[g]
  BY DEF TypeOK, Goto, Connect, SetSearchPath, StartTransaction, Statement, BodyThrows,
     RollbackTransaction
<1> QED
  BY <1>1, <1>2, Distinct, Unseen

LEMMA CallStep ==
  ASSUME TypeOK, NEW q \in Request, CallRequired(q) \/ JoinedStatement(q) \/ CallRequiresNew(q)
  PROVE  UNCHANGED Methods!vars
<1>1. UNCHANGED <<kind, reply, durable, published>>
  BY DEF CallRequired, JoinedStatement, CallRequiresNew, events
<1>2. \A r \in Request : phase'[Outer(r)] = "off" <=> phase[Outer(r)] = "off"
  BY Distinct DEF TypeOK, Goto, CallRequired, JoinedStatement, CallRequiresNew
<1> QED
  BY <1>1, <1>2, Unseen

(* What a frame that commits has written is the work of its request, or of *)
(* the REQUIRES_NEW method that its request waits for.                     *)
LEMMA WholeWork ==
  ASSUME WorkSoFar, OwnWritesOnly, NEW r \in Request
  PROVE  /\ phase[Outer(r)] = "commit" =>
               pending[Outer(r)] = {Outer(r)} \cup
                   (IF kind[r] = "findAll" THEN {<<r, "joined">>} ELSE {})
         /\ phase[Inner(r)] = "commit" => pending[Inner(r)] = {Inner(r)}
<1>1. /\ Outer(r)[1] = r /\ Inner(r)[1] = r /\ Outer(r) # Inner(r)
      /\ Outer(r) \in Frame /\ Inner(r) \in Frame
  BY Distinct
<1>2. phase[Outer(r)] = "commit" => Outer(r) \in pending[Outer(r)]
                /\ (kind[r] = "findAll" => <<r, "joined">> \in pending[Outer(r)])
  BY DEF WorkSoFar, OuterWork
<1>3. phase[Inner(r)] = "commit" => Inner(r) \in pending[Inner(r)]
  BY DEF WorkSoFar, InnerWork
<1> QED
  BY <1>1, <1>2, <1>3 DEF OwnWritesOnly

LEMMA CommitStep ==
  ASSUME TypeOK, SuspendedForInner, WorkSoFar, OwnWritesOnly, CommittedIsEnding,
         NEW f \in Frame, CommitTransaction(f) \/ CommitFails(f)
  PROVE  Methods!Next \/ UNCHANGED Methods!vars
<1>1. /\ phase[f] = "commit" /\ UNCHANGED <<kind, reply, published>>
      /\ durable' = durable \/ durable' = durable \cup pending[f]
  BY DEF CommitTransaction, CommitFails, events
<1>2. \A r \in Request : phase'[Outer(r)] = "off" <=> phase[Outer(r)] = "off"
  BY Distinct DEF TypeOK, Goto, CommitTransaction, CommitFails
<1>3. Open' = Open
  BY <1>2 DEF Open
<1>4. CASE durable' = durable
  BY <1>1, <1>2, <1>4, Unseen
<1>5. ASSUME NEW r \in Request, f = Outer(r), durable' = durable \cup pending[f]
      PROVE  Methods!Next
  <2>1. r \in Open /\ Outer(r) \notin durable
    BY <1>1, <1>5 DEF Open, CommittedIsEnding, Publishing
  <2>2. kind[r] = "findOne" => Inner(r) \in durable
    BY <1>1, <1>5 DEF WorkSoFar, OuterWork
  <2>3. durable' = durable \cup {Outer(r)} \cup
                       (IF kind[r] = "findAll" THEN {<<r, "joined">>} ELSE {})
    BY <1>1, <1>5, WholeWork
  <2>4. Methods!Commit(r)
    BY <1>1, <1>3, <2>1, <2>2, <2>3
       DEF Open, Outer, Inner, Methods!Commit, Methods!Own, Methods!New, Methods!Joined
  <2> QED
    BY <2>4 DEF Methods!Next
<1>6. ASSUME NEW r \in Request, f = Inner(r), durable' = durable \cup pending[f]
      PROVE  Methods!Next
  <2>1. phase[Outer(r)] = "suspended"
    BY <1>1, <1>6 DEF SuspendedForInner
  <2>2. r \in Open /\ Outer(r) \notin durable /\ kind[r] = "findOne"
    BY <2>1 DEF Open, CommittedIsEnding, Publishing, WorkSoFar, OuterWork
  <2>3. durable' = durable \cup {Inner(r)}
    BY <1>1, <1>6, WholeWork
  <2>4. Methods!CommitNew(r)
    BY <1>1, <1>3, <2>2, <2>3
       DEF Open, Outer, Inner, Methods!CommitNew, Methods!Own, Methods!New
  <2> QED
    BY <2>4 DEF Methods!Next
<1> QED
  BY <1>1, <1>4, <1>5, <1>6, FrameOf

(* The outer frame of a request ends: its client is told, or it goes on to *)
(* publish.                                                                *)
LEMMA AnswerStep ==
  ASSUME TypeOK, WorkSoFar, NEW r \in Request,
         \/ SetupFails(Outer(r)) \/ Release(Outer(r))
         \/ Send(r) \/ PublishResolves(r) \/ PublishRejects(r)
  PROVE  Methods!Next \/ UNCHANGED Methods!vars
<1>1. Outer(r) \in Frame /\ r \in Open /\ UNCHANGED <<kind, durable, published>>
  BY Distinct DEF Open, SetupFails, Release, Send, PublishResolves, PublishRejects, Setup,
     Publishing, events
<1>2. ASSUME phase' = [phase EXCEPT ![Outer(r)] = "off"]
      PROVE  Open' = Open \ {r}
  BY <1>1, <1>2, Distinct DEF TypeOK, Open
<1>3. ASSUME Answer(r, "error")
      PROVE  Methods!Next
  <2>1. Methods!AnswerError(r)
    BY <1>1, <1>2, <1>3 DEF Open, Answer, Goto, Methods!AnswerError
  <2> QED
    BY <2>1 DEF Methods!Next
<1>4. ASSUME Answer(r, "ok"), Outer(r) \in durable, kind[r] # "command" => r \in published
      PROVE  Methods!Next
  <2>1. Methods!AnswerOk(r)
    BY <1>1, <1>2, <1>4 DEF Open, Answer, Goto, Outer, Methods!AnswerOk, Methods!Own
  <2> QED
    BY <2>1 DEF Methods!Next
<1>5. CASE SetupFails(Outer(r))
  <2>1. Answer(r, "error")
    BY <1>5, Distinct DEF SetupFails, End
  <2> QED
    BY <2>1, <1>3
<1>6. CASE Release(Outer(r))
  <2>1. End(Outer(r), failed[Outer(r)]) /\ failed[Outer(r)] \in BOOLEAN
    BY <1>1, <1>6 DEF Release, TypeOK
  <2>2. CASE failed[Outer(r)]
    <3>1. Answer(r, "error")
      BY <2>1, <2>2, Distinct DEF End
    <3> QED
      BY <2>1, <3>1, <1>3
  <2>3. CASE ~ failed[Outer(r)] /\ kind[r] = "command"
    <3>1. Answer(r, "ok")
      BY <2>1, <2>3, Distinct DEF End
    <3>2. Outer(r) \in durable
      BY <1>6, <2>3 DEF Release, WorkSoFar, OuterWork, AllDurable
    <3> QED
      BY <2>1, <2>3, <3>1, <3>2, <1>4
  <2>4. CASE ~ failed[Outer(r)] /\ kind[r] # "command"
    <3>1. phase' = [phase EXCEPT ![Outer(r)] = "publish"] /\ UNCHANGED reply
      BY <2>1, <2>4, Distinct DEF End, Goto
    <3>2. \A q \in Request : phase'[Outer(q)] = "off" <=> phase[Outer(q)] = "off"
      BY <1>1, <1>6, <3>1, Distinct DEF TypeOK, Release
    <3> QED
      BY <1>1, <2>1, <3>1, <3>2, Unseen
  <2> QED
    BY <2>1, <2>2, <2>3, <2>4
<1>7. CASE Send(r)
  <2>1. phase' = [phase EXCEPT ![Outer(r)] = "publishing"] /\ UNCHANGED reply
    BY <1>7 DEF Send, Goto
  <2>2. \A q \in Request : phase'[Outer(q)] = "off" <=> phase[Outer(q)] = "off"
    BY <1>1, <1>7, <2>1, Distinct DEF TypeOK, Send
  <2> QED
    BY <1>1, <2>1, <2>2, Unseen
<1>8. CASE PublishResolves(r)
  <2>1. r \in published /\ Outer(r) \in durable /\ Answer(r, "ok")
    BY <1>8 DEF PublishResolves, Publishing, WorkSoFar, OuterWork, AllDurable
  <2> QED
    BY <1>4, <2>1
<1>9. CASE PublishRejects(r)
  BY <1>3, <1>9 DEF PublishRejects
<1> QED
  BY <1>5, <1>6, <1>7, <1>8, <1>9

(* SNS accepts an event.                                                   *)
LEMMA AcceptStep ==
  ASSUME RepliedIsOver, PublishedAfterCommit, NEW r \in Request, Accept(r)
  PROVE  Methods!Next
<1>1. /\ Outer(r) \in durable /\ kind[r] # "command" /\ published' = published \cup {r}
      /\ UNCHANGED <<phase, kind, reply, durable>>
  BY DEF Accept, RepliedIsOver, PublishedAfterCommit, AllDurable
<1>2. Open' = Open
  BY <1>1 DEF Open
<1>3. Methods!Publish(r)
  BY <1>1, <1>2 DEF Open, Outer, Methods!Publish, Methods!Own
<1> QED
  BY <1>3 DEF Methods!Next

(* The inner frame ends: its caller goes on.                               *)
LEMMA ResumeStep ==
  ASSUME TypeOK, SuspendedForInner, NEW r \in Request,
         SetupFails(Inner(r)) \/ Release(Inner(r))
  PROVE  UNCHANGED Methods!vars
<1>1. phase[Outer(r)] = "suspended"
  BY DEF SetupFails, Release, Setup, SuspendedForInner
<1>2. Resume(r, TRUE) \/ Resume(r, failed[Inner(r)])
  BY Distinct DEF SetupFails, Release, End
<1>3. UNCHANGED <<kind, reply, durable, published>>
  BY Distinct DEF TypeOK, SetupFails, Release, End, events
<1>4. phase'[Outer(r)] \in {"rollback", "commit"}
  BY <1>2, Distinct DEF TypeOK, Resume
<1>5. \A q \in Request : q # r => phase'[Outer(q)] = phase[Outer(q)]
  BY <1>2, Distinct DEF TypeOK, Resume
<1> QED
  BY <1>1, <1>3, <1>4, <1>5, Unseen

LEMMA ArriveStep ==
  ASSUME TypeOK, NEW r \in Request, NEW k \in Kinds, Arrive(r, k)
  PROVE  Methods!Next
<1>1. Open' = Open \cup {r} /\ r \notin Open
  BY Distinct DEF Open, TypeOK, Arrive, Goto
<1>2. Methods!Arrive(r, k)
  BY <1>1 DEF Open, Arrive, Methods!Arrive
<1> QED
  BY <1>2 DEF Methods!Next

LEMMA CrashStep ==
  ASSUME Crash
  PROVE  Methods!Next
<1>1. Open' = {}
  BY Distinct DEF Open, Crash
<1>2. Methods!Crash
  BY <1>1 DEF Open, Crash, events, Methods!Crash
<1> QED
  BY <1>2 DEF Methods!Next

LEMMA MethodsStep ==
  ASSUME FrameInv, [Next]_vars
  PROVE  [Methods!Next]_(Methods!vars)
<1> USE DEF FrameInv
<1>1. ASSUME NEW r \in Request, NEW k \in Kinds, Arrive(r, k) PROVE Methods!Next
  BY <1>1, ArriveStep
<1>2. ASSUME NEW f \in Frame, Advance(f) PROVE Methods!Next \/ UNCHANGED Methods!vars
  <2>1. CASE CommitTransaction(f) \/ CommitFails(f)
    BY <2>1, CommitStep
  <2>2. CASE SetupFails(f) \/ Release(f)
    BY <2>2, AnswerStep, ResumeStep, FrameOf
  <2>3. CASE Send(f[1]) \/ PublishResolves(f[1]) \/ PublishRejects(f[1])
    BY <2>3, AnswerStep, FrameOf
  <2>4. CASE CallRequired(f[1]) \/ JoinedStatement(f[1]) \/ CallRequiresNew(f[1])
    BY <2>4, CallStep, FrameOf
  <2> QED
    BY <1>2, <2>1, <2>2, <2>3, <2>4, QuietStep DEF Advance
<1>3. CASE UNCHANGED vars
  BY <1>3 DEF vars, events, Methods!vars
<1>4. ASSUME NEW r \in Request, Accept(r) PROVE Methods!Next
  BY <1>4, AcceptStep
<1> QED
  BY <1>1, <1>2, <1>3, <1>4, CrashStep DEF Next

(* A client that knows nothing of frames and connections sees each request *)
(* commit at once, with the methods that joined it, a REQUIRES_NEW method  *)
(* commit by itself and before its caller, nothing committed after the     *)
(* answer, events of committed work only, and a 200 not before its event.  *)
THEOREM ImplementsAtomicMethodsHolds == Spec => ImplementsAtomicMethods
<1>1. Init => Methods!Init
  BY Distinct DEF Init, Methods!Init
<1> QED
  BY <1>1, MethodsStep, Invariance, PTL DEF Spec, ImplementsAtomicMethods, Methods!Spec

=============================================================================
