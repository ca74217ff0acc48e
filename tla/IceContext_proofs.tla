------------------------- MODULE IceContext_proofs -------------------------
(***************************************************************************)
(* Proofs about IceContext, for the client and the peer, both modes of the *)
(* pipe and any number of packets and connection reports.                  *)
(*                                                                         *)
(* The three properties rest on one fact: on_ice_connected assigns         *)
(* ctx->engine last, and it runs once.  PublishedLast says what is true of *)
(* the context at each point of libjuice's thread before and after that    *)
(* assignment; it is inductive, and the properties follow from it.         *)
(***************************************************************************)
EXTENDS IceContext, TLAPS

PublishedLast ==
  /\ engines \in {0, 1}
  /\ ctx = "null" => ~engine /\ engines = 0
  /\ engine => rfd \in PipeModes /\ engines = 1
  /\ jpc = "alloc" => ctx = "null"
  /\ jpc \in {"init", "pipe", "create"} => ctx # "null" /\ ~engine /\ engines = 0
  /\ jpc \in {"create", "connect"} => rfd \in PipeModes
  /\ jpc = "connect" => ctx # "null" /\ ~engine /\ engines = 1
  /\ mpc \in {"clear", "drain"} => engine
  /\ mpc = "free" => ctx # "null"

LEMMA InitPublishedLast == Init => PublishedLast
  BY DEF Init, PublishedLast

\* libjuice's thread.
LEMMA JuicePublishedLast == PublishedLast /\ JuiceThread => PublishedLast'
  <1> SUFFICES ASSUME PublishedLast, JuiceThread
               PROVE  PublishedLast'
    OBVIOUS
  <1> USE DEF PublishedLast, JuiceGoto, main
  <1>1. CASE StateChanged
    BY <1>1 DEF StateChanged, NotConnected, context
  <1>2. CASE RecvPacket
    BY <1>2 DEF RecvPacket, context
  <1>3. CASE AllocContext
    BY <1>3 DEF AllocContext
  <1>4. CASE AllocFails
    BY <1>4 DEF AllocFails, context
  <1>5. CASE InitContext
    BY <1>5 DEF InitContext
  <1>6. CASE OpenPipe
    BY <1>6 DEF OpenPipe
  <1>7. CASE CreateEngine
    BY <1>7 DEF CreateEngine, context
  <1>8. CASE ConnectFails
    BY <1>8 DEF ConnectFails, context
  <1>9. ASSUME NEW from \in {"pipe", "create"}, ConnectedGivesUp(from)
        PROVE  PublishedLast'
    BY <1>9 DEF ConnectedGivesUp, context
  <1>10. CASE PublishEngine
    BY <1>10 DEF PublishEngine
  <1>11. CASE Greet
    BY <1>11 DEF Greet, context
  <1>12. CASE EnqueuePacket
    BY <1>12 DEF EnqueuePacket, context
  <1>13. CASE Wake
    BY <1>13 DEF Wake, context
  <1>14. CASE UseFreed
    BY <1>14 DEF UseFreed, context
  <1> QED
    BY <1>1, <1>2, <1>3, <1>4, <1>5, <1>6, <1>7, <1>8, <1>9, <1>10, <1>11,
       <1>12, <1>13, <1>14 DEF JuiceThread, Callback

\* The main thread.  It never sets the engine; it enters the states in which
\* it serves only after it saw the engine, and nothing takes the engine away.
LEMMA MainPublishedLast == PublishedLast /\ MainThread => PublishedLast'
  <1> SUFFICES ASSUME PublishedLast, MainThread
               PROVE  PublishedLast'
    OBVIOUS
  <1> USE DEF PublishedLast, MainGoto, juice
  <1>1. CASE Prepare \/ SelectFails \/ CheckOnly
    BY <1>1 DEF Prepare, SelectFails, CheckOnly, AfterEngine, context
  <1>2. CASE Select
    BY <1>2 DEF Select, context
  <1>3. CASE CheckAndDrain
    BY <1>3 DEF CheckAndDrain, MayServe, context
  <1>4. CASE ClearByte \/ ClearReturns \/ DrainDone
    BY <1>4 DEF ClearByte, ClearReturns, DrainDone, AfterEngine, context, main
  <1>5. CASE Feed
    BY <1>5 DEF Feed, context, main
  <1>6. CASE RecvSignal \/ RecvEof \/ NothingToFree
    BY <1>6 DEF RecvSignal, RecvEof, NothingToFree, context
  <1>7. CASE Cleanup
    BY <1>7 DEF Cleanup
  <1>8. CASE FreeContext
    BY <1>8 DEF FreeContext
  <1>9. CASE DestroyAgent
    BY <1>9 DEF DestroyAgent, JuiceGoto, context
  <1> QED
    BY <1>1, <1>2, <1>3, <1>4, <1>5, <1>6, <1>7, <1>8, <1>9 DEF MainThread

LEMMA StepPublishedLast == PublishedLast /\ [Next]_vars => PublishedLast'
  <1> SUFFICES ASSUME PublishedLast, [Next]_vars
               PROVE  PublishedLast'
    OBVIOUS
  <1>1. CASE SignallingEnds
    BY <1>1 DEF SignallingEnds, PublishedLast, context, juice
  <1>2. CASE UNCHANGED vars
    BY <1>2 DEF vars, PublishedLast, context, juice, main
  <1> QED
    BY <1>1, <1>2, JuicePublishedLast, MainPublishedLast DEF Next

LEMMA AlwaysPublishedLast == Spec => []PublishedLast
  BY InitPublishedLast, StepPublishedLast, PTL DEF Spec

\* The main thread clears no descriptor but the pipe's and drains no context
\* without an engine.
THEOREM ServesComplete == Spec => []ServesCompleteContext
  <1>1. PublishedLast => ServesCompleteContext
    BY DEF PublishedLast, ServesCompleteContext
  <1> QED
    BY <1>1, AlwaysPublishedLast, PTL

\* The two threads are never in the engine together.
THEOREM EngineNotShared == Spec => []EngineOneThread
  <1>1. PublishedLast => EngineOneThread
    BY DEF PublishedLast, EngineOneThread, MainInEngine, MayServe
  <1> QED
    BY <1>1, AlwaysPublishedLast, PTL

\* There is at most one engine, and the published one exists.
THEOREM EngineIsUnique == Spec => []OneEngine
  <1>1. PublishedLast => OneEngine
    BY DEF PublishedLast, OneEngine
  <1> QED
    BY <1>1, AlwaysPublishedLast, PTL

-----------------------------------------------------------------------------
(* Types.  The number of engines stays a number only because an engine is  *)
(* destroyed where PublishedLast says that there is one.                   *)

LEMMA JuiceTypes == TypeOK /\ PublishedLast /\ JuiceThread => TypeOK'
  <1> SUFFICES ASSUME TypeOK, PublishedLast, JuiceThread
               PROVE  TypeOK'
    OBVIOUS
  <1>0. MaxStates \in Nat /\ MaxPackets \in Nat
    BY IceContextAssumption
  <1> USE DEF TypeOK, JuiceGoto, main, context, path, UsesContext
  <1>1. CASE StateChanged
    BY <1>0, <1>1 DEF StateChanged, NotConnected
  <1>2. CASE AllocContext \/ AllocFails \/ InitContext \/ OpenPipe
    BY <1>2 DEF AllocContext, AllocFails, InitContext, OpenPipe
  <1>3. CASE CreateEngine \/ ConnectFails
    <2>1. /\ jpc' \in {"connect", "greet"}
          /\ UNCHANGED <<context, path, states, main>>
      BY <1>3 DEF CreateEngine, ConnectFails
    <2>2. engines' \in Nat
      BY <1>3 DEF CreateEngine, ConnectFails, PublishedLast
    <2> QED BY <2>1, <2>2
  <1>4. ASSUME NEW from \in {"pipe", "create"}, ConnectedGivesUp(from)
        PROVE  TypeOK'
    BY <1>4 DEF ConnectedGivesUp
  <1>5. CASE PublishEngine \/ Greet \/ RecvPacket
    BY <1>5 DEF PublishEngine, Greet, RecvPacket
  <1>6. CASE EnqueuePacket
    BY <1>0, <1>6 DEF EnqueuePacket
  <1>7. CASE Wake \/ UseFreed
    BY <1>7 DEF Wake, UseFreed
  <1> QED
    BY <1>1, <1>2, <1>3, <1>4, <1>5, <1>6, <1>7 DEF JuiceThread, Callback

LEMMA MainTypes == TypeOK /\ MainThread => TypeOK'
  <1> SUFFICES ASSUME TypeOK, MainThread
               PROVE  TypeOK'
    OBVIOUS
  <1>0. MaxPackets \in Nat
    BY IceContextAssumption
  <1> USE DEF TypeOK, MainGoto, juice, context, path
  <1>1. CASE Prepare
    BY <1>1 DEF Prepare, FdsToWatch
  <1>2. CASE Select \/ SelectFails
    BY <1>2 DEF Select, SelectFails
  <1>3. CASE CheckAndDrain \/ CheckOnly
    BY <1>3 DEF CheckAndDrain, CheckOnly, AfterEngine
  <1>4. CASE ClearByte \/ ClearReturns \/ DrainDone
    BY <1>4 DEF ClearByte, ClearReturns, DrainDone, AfterEngine, main
  <1>5. CASE Feed
    BY <1>0, <1>5 DEF Feed, main
  <1>6. CASE RecvSignal \/ RecvEof \/ NothingToFree \/ FreeContext
    BY <1>6 DEF RecvSignal, RecvEof, NothingToFree, FreeContext
  <1>7. CASE Cleanup
    <2>1. packets' \in 0..MaxPackets
      <3>1. packets' = 0 \/ packets' = packets
        BY <1>7 DEF Cleanup
      <3> QED BY <1>0, <3>1
    <2>2. engine' \in BOOLEAN /\ mutex' \in BOOLEAN /\ byte' \in BOOLEAN
          /\ eof' \in BOOLEAN
      BY <1>7, Zenon DEF Cleanup
    <2>3. /\ mpc' = "free"
          /\ UNCHANGED <<ctx, rfd, jpc, states, engines, watched, ready>>
      BY <1>7 DEF Cleanup
    <2> QED BY <2>1, <2>2, <2>3
  <1>8. CASE DestroyAgent
    BY <1>8 DEF DestroyAgent, JuiceGoto
  <1> QED
    BY <1>1, <1>2, <1>3, <1>4, <1>5, <1>6, <1>7, <1>8 DEF MainThread

\* Every variable keeps its type: neither thread reaches a step the code does
\* not have, and the number of engines never goes below zero.
THEOREM TypesKept == Spec => []TypeOK
  <1>1. Init => TypeOK
    <2> SUFFICES ASSUME Init PROVE TypeOK
      OBVIOUS
    <2>1. packets \in 0..MaxPackets /\ states \in 0..MaxStates /\ engines \in Nat
      BY IceContextAssumption DEF Init
    <2>2. /\ engine \in BOOLEAN /\ mutex \in BOOLEAN /\ byte \in BOOLEAN
          /\ eof \in BOOLEAN
      BY Zenon DEF Init
    <2> QED
      BY <2>1, <2>2 DEF Init, TypeOK
  <1>2. TypeOK /\ PublishedLast /\ [Next]_vars => TypeOK'
    <2> SUFFICES ASSUME TypeOK, PublishedLast, [Next]_vars
                 PROVE  TypeOK'
      OBVIOUS
    <2>1. CASE SignallingEnds
      BY <2>1 DEF SignallingEnds, TypeOK, context, path, juice
    <2>2. CASE UNCHANGED vars
      BY <2>2 DEF vars, TypeOK, context, path, juice, main
    <2> QED
      BY <2>1, <2>2, JuiceTypes, MainTypes DEF Next
  <1> QED
    BY <1>1, <1>2, AlwaysPublishedLast, PTL DEF Spec
=============================================================================
