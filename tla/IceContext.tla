----------------------------- MODULE IceContext -----------------------------
(***************************************************************************)
(* The life of ice_ctx (src/src/common/run.c): libjuice's thread allocates *)
(* it when ICE connects and has on_ice_connected (client/main.c, peer/     *)
(* main.c) fill it in, while the loop of the main thread may use it, and   *)
(* the main thread frees it after the loop.  No lock protects it: the      *)
(* order in which its fields are assigned is all there is.  Every          *)
(* assignment that the other thread can tell apart is a step.              *)
(*                                                                         *)
(* XquicIce has the list and the pipe in detail; here a packet on the list *)
(* is one of a number, and the pipe is empty or not.  Both programs open a *)
(* "blocking" pipe; xquic_ice.h:93 asks for one that is not.  A descriptor *)
(* of the pipe is named by its mode.                                       *)
(***************************************************************************)
EXTENDS Naturals

CONSTANTS
  Client,      \* this is the client, not the peer
  PipeModes,   \* the modes in which the read end of the pipe may be opened
  MaxStates,   \* bound: times ICE reports CONNECTED or COMPLETED
  MaxPackets   \* bound: packets on the list at once

ASSUME IceContextAssumption ==
  /\ Client \in BOOLEAN
  /\ PipeModes \subseteq {"blocking", "nonblocking"}
  /\ MaxStates \in Nat
  /\ MaxPackets \in Nat \ {0}

VARIABLES
  ctx,      \* run_user.ice_ctx: "null", "live", "freed" (it is not reset)
  rfd,      \* wakeup_read_fd: "stdin" is the 0 of calloc, "none" is -1,
            \* else the mode of the pipe
  engine,   \* ctx->engine is set
  mutex,    \* ctx->queue_mutex is allocated
  packets,  \* packets on the list
  byte,     \* unread bytes in the pipe
  jpc,      \* libjuice's thread
  states,   \* CONNECTED or COMPLETED reported so far
  engines,  \* history: engines that were created and not destroyed
  mpc,      \* the main thread
  watched,  \* read_fds before select() ...
  ready,    \* ... and after it; {} is nready == 0
  eof       \* the signalling connection has ended

context == <<ctx, rfd, engine, mutex>>
path == <<packets, byte>>
juice == <<jpc, states, engines>>
main == <<mpc, watched, ready, eof>>
vars == <<context, path, juice, main>>

Init ==
  /\ ctx = "null" /\ rfd = "none" /\ engine = FALSE /\ mutex = FALSE
  /\ packets = 0 /\ byte = FALSE
  /\ jpc = "idle" /\ states = 0 /\ engines = 0
  /\ mpc = "prepare" /\ watched = {} /\ ready = {} /\ eof = FALSE

-----------------------------------------------------------------------------
(* libjuice's thread.                                                      *)

JuiceGoto(from, to) ==
  /\ jpc = from
  /\ jpc' = to

\* Mutant: every report of a connection is the first.
NotConnectedEver == TRUE

\* ICE connected for the first time, as far as run_user can tell.
NotConnected == ctx = "null"

\* on_state_changed with CONNECTED or COMPLETED.
StateChanged ==
  /\ states < MaxStates
  /\ states' = states + 1
  /\ JuiceGoto("idle", IF NotConnected THEN "alloc" ELSE "greet")
  /\ UNCHANGED <<context, path, engines, main>>

\* calloc: the main thread can see the context from here on, all zeros.
AllocContext ==
  /\ JuiceGoto("alloc", "init")
  /\ ctx' = "live" /\ rfd' = "stdin" /\ engine' = FALSE /\ mutex' = FALSE
  /\ UNCHANGED <<path, states, engines, main>>

AllocFails ==
  /\ JuiceGoto("alloc", "greet")
  /\ UNCHANGED <<context, path, states, engines, main>>

\* xquic_ice_ctx_init, with or without memory for the mutex.
InitContext ==
  /\ ctx = "live"
  /\ JuiceGoto("init", "pipe")
  /\ rfd' = "none"
  /\ mutex' \in BOOLEAN
  /\ UNCHANGED <<ctx, engine, path, states, engines, main>>

\* on_ice_connected: the pipe.
OpenPipe ==
  /\ ctx = "live"
  /\ JuiceGoto("pipe", "create")
  /\ rfd' \in PipeModes
  /\ UNCHANGED <<ctx, engine, mutex, path, states, engines, main>>

\* Mutant: the engine is published as soon as it exists.
CreateEngineEarly ==
  /\ ctx = "live"
  /\ JuiceGoto("create", "connect")
  /\ engines' = engines + 1
  /\ engine' = TRUE
  /\ UNCHANGED <<ctx, rfd, mutex, path, states, main>>

\* on_ice_connected: the engine is created; only a local variable knows it.
CreateEngine ==
  /\ ctx = "live"
  /\ JuiceGoto("create", "connect")
  /\ engines' = engines + 1
  /\ UNCHANGED <<context, path, states, main>>

\* The client's on_ice_connected: no session or no connection, and the
\* engine is destroyed again.
ConnectFails ==
  /\ Client
  /\ ctx = "live"
  /\ JuiceGoto("connect", "greet")
  /\ engines' = engines - 1
  /\ UNCHANGED <<context, path, states, main>>

\* pipe(), the engine's configuration or the engine fails: return.
ConnectedGivesUp(from) ==
  /\ ctx = "live"
  /\ JuiceGoto(from, "greet")
  /\ UNCHANGED <<context, path, states, engines, main>>

\* The last thing on_ice_connected does: the main thread may use the engine.
PublishEngine ==
  /\ ctx = "live"
  /\ JuiceGoto("connect", "greet")
  /\ engine' = TRUE
  /\ UNCHANGED <<ctx, rfd, mutex, path, states, engines, main>>

\* The end of on_state_changed: without an engine, a text is sent instead.
Greet ==
  /\ ctx # "freed"
  /\ JuiceGoto("greet", "idle")
  /\ UNCHANGED <<context, path, states, engines, main>>

\* on_recv: a packet is for the engine once there is one.
RecvPacket ==
  /\ ctx # "null"
  /\ engine
  /\ JuiceGoto("idle", "recv")
  /\ UNCHANGED <<context, path, states, engines, main>>

\* Mutant: a full list takes another packet.
EnqueueUnbounded ==
  /\ ctx = "live"
  /\ JuiceGoto("recv", IF mutex THEN "wake" ELSE "idle")
  /\ packets' = IF mutex THEN packets + 1 ELSE packets
  /\ UNCHANGED <<context, byte, states, engines, main>>

\* xquic_ice_on_recv: the list, then the pipe.
EnqueuePacket ==
  /\ ctx = "live"
  /\ JuiceGoto("recv", IF mutex THEN "wake" ELSE "idle")
  /\ packets' = IF mutex /\ packets < MaxPackets THEN packets + 1 ELSE packets
  /\ UNCHANGED <<context, byte, states, engines, main>>

Wake ==
  /\ ctx = "live"
  /\ JuiceGoto("wake", "idle")
  /\ byte' = TRUE
  /\ UNCHANGED <<context, packets, states, engines, main>>

\* The steps of libjuice's thread that read or write the context.
UsesContext == {"init", "pipe", "create", "connect", "greet", "recv", "wake"}

\* The context was freed under the thread's hands.  What it reads may let it
\* carry on, or the process ends.
UseFreed ==
  /\ ctx = "freed"
  /\ jpc \in UsesContext
  /\ \/ jpc' = "idle" /\ mpc' = mpc
     \/ jpc' = "gone" /\ mpc' = "crashed"
  /\ UNCHANGED <<context, path, states, engines, watched, ready, eof>>

-----------------------------------------------------------------------------
(* The main thread.                                                        *)

MainGoto(from, to) ==
  /\ mpc = from
  /\ mpc' = to

SignallingEnds ==
  /\ ~eof
  /\ eof' = TRUE
  /\ UNCHANGED <<context, path, juice, mpc, watched, ready>>

\* Mutant: the descriptor is watched only if it was set from the start.
FdsToWatchAtStart == {"signal"}

\* read_fds, from what the context holds now.
FdsToWatch ==
  {"signal"} \cup (IF ctx # "null" /\ rfd # "none" THEN {rfd} ELSE {})

Prepare ==
  /\ MainGoto("prepare", "select")
  /\ watched' = FdsToWatch
  /\ UNCHANGED <<context, path, juice, ready, eof>>

\* select() returns; signalling input and input on stdin may be there or not.
Select ==
  /\ MainGoto("select", "check")
  /\ \E fds \in SUBSET watched :
       /\ byte => watched \cap PipeModes \subseteq fds
       /\ fds \cap PipeModes # {} => byte
       /\ eof => "signal" \in fds
       /\ ready' = fds
  /\ UNCHANGED <<context, path, juice, watched, eof>>

SelectFails ==
  /\ MainGoto("select", "teardown")
  /\ UNCHANGED <<context, path, juice, watched, ready, eof>>

\* Mutant: the engine is served as soon as there is a context.
MayServeAnyContext == ctx # "null"

\* The context has its engine, as the main thread sees it.
MayServe == ctx # "null" /\ engine

\* Where the loop goes when the engine has had its turn, or there is none.
AfterEngine == IF "signal" \in ready THEN "signal" ELSE "prepare"

\* The engine is there, and the pipe is readable or select() timed out: the
\* test of the descriptor is made on what the context holds now.
CheckAndDrain ==
  /\ MainGoto("check", IF rfd = "none" THEN "drain" ELSE "clear")
  /\ MayServe
  /\ ready = {} \/ (rfd # "none" /\ rfd \in ready)
  /\ UNCHANGED <<context, path, juice, watched, ready, eof>>

CheckOnly ==
  /\ MainGoto("check", AfterEngine)
  /\ \/ ~MayServe
     \/ ready # {} /\ rfd \notin ready
  /\ UNCHANGED <<context, path, juice, watched, ready, eof>>

\* xquic_ice_clear_wakeup: a read() that returns bytes, and is followed by
\* another one ...
ClearByte ==
  /\ mpc = "clear"
  /\ byte
  /\ byte' = FALSE
  /\ UNCHANGED <<context, packets, juice, main>>

\* ... until one finds nothing, which comes back only on a descriptor that
\* does not block.  On one that does, the thread sleeps for good: the next
\* byte only lets it go round once more.
ClearReturns ==
  /\ MainGoto("clear", "drain")
  /\ ~byte
  /\ rfd = "nonblocking"
  /\ UNCHANGED <<context, path, juice, watched, ready, eof>>

\* One round of xquic_ice_drain_and_feed, which calls the engine.
Feed ==
  /\ mpc = "drain"
  /\ mutex
  /\ packets > 0
  /\ packets' = packets - 1
  /\ UNCHANGED <<context, byte, juice, main>>

\* The rest of the engine's turn: main logic and post_main_logic.
DrainDone ==
  /\ MainGoto("drain", AfterEngine)
  /\ ~mutex \/ packets = 0
  /\ UNCHANGED <<context, path, juice, watched, ready, eof>>

RecvSignal ==
  /\ MainGoto("signal", "prepare")
  /\ UNCHANGED <<context, path, juice, watched, ready, eof>>

RecvEof ==
  /\ eof
  /\ MainGoto("signal", "teardown")
  /\ UNCHANGED <<context, path, juice, watched, ready, eof>>

\* After the loop: no context, nothing to free ...
NothingToFree ==
  /\ ctx = "null"
  /\ MainGoto("teardown", "destroy")
  /\ UNCHANGED <<context, path, juice, watched, ready, eof>>

\* ... or xquic_ice_ctx_cleanup ...
Cleanup ==
  /\ ctx = "live"
  /\ MainGoto("teardown", "free")
  /\ packets' = IF mutex THEN 0 ELSE packets
  /\ mutex' = FALSE
  /\ UNCHANGED <<ctx, rfd, engine, byte, juice, watched, ready, eof>>

\* ... and free.
FreeContext ==
  /\ MainGoto("free", "destroy")
  /\ ctx' = "freed"
  /\ UNCHANGED <<rfd, engine, mutex, path, juice, watched, ready, eof>>

\* juice_destroy ends libjuice's thread, once it has returned from its
\* callback.
DestroyAgent ==
  /\ MainGoto("destroy", "returned")
  /\ JuiceGoto("idle", "gone")
  /\ UNCHANGED <<context, path, states, engines, watched, ready, eof>>

Callback ==
  \/ AllocContext
  \/ AllocFails
  \/ InitContext
  \/ OpenPipe
  \/ CreateEngine
  \/ ConnectFails
  \/ \E from \in {"pipe", "create"} : ConnectedGivesUp(from)
  \/ PublishEngine
  \/ Greet
  \/ EnqueuePacket
  \/ Wake
  \/ UseFreed

JuiceThread == StateChanged \/ RecvPacket \/ Callback

MainThread ==
  \/ Prepare
  \/ Select
  \/ SelectFails
  \/ CheckAndDrain
  \/ CheckOnly
  \/ ClearByte
  \/ ClearReturns
  \/ Feed
  \/ DrainDone
  \/ RecvSignal
  \/ RecvEof
  \/ NothingToFree
  \/ Cleanup
  \/ FreeContext
  \/ DestroyAgent

Next == JuiceThread \/ MainThread \/ SignallingEnds

Spec == Init /\ [][Next]_vars

\* Both threads are scheduled; ICE, packets and the server owe nothing.
FairSpec == Spec /\ WF_vars(MainThread) /\ WF_vars(Callback)

-----------------------------------------------------------------------------
TypeOK ==
  /\ ctx \in {"null", "live", "freed"}
  /\ rfd \in {"none", "stdin"} \cup PipeModes
  /\ engine \in BOOLEAN
  /\ mutex \in BOOLEAN
  /\ packets \in 0..MaxPackets
  /\ byte \in BOOLEAN
  /\ jpc \in {"idle", "alloc", "gone"} \cup UsesContext
  /\ states \in 0..MaxStates
  /\ engines \in Nat
  /\ mpc \in {"prepare", "select", "check", "clear", "drain", "signal",
               "teardown", "free", "destroy", "returned", "crashed"}
  /\ watched \subseteq {"signal", "stdin"} \cup PipeModes
  /\ ready \subseteq {"signal", "stdin"} \cup PipeModes
  /\ eof \in BOOLEAN

\* The main thread serves only a context that is complete: it never clears a
\* descriptor that is not the pipe's (0 is standard input until
\* xquic_ice_ctx_init has run), and never drains without an engine.
ServesCompleteContext ==
  mpc \in {"clear", "drain"} => engine /\ rfd \in PipeModes

\* The main thread is in the engine: packets, main logic, or post_main_logic,
\* which every iteration calls.
MainInEngine == mpc \in {"clear", "drain"} \/ (mpc = "check" /\ MayServe)

\* The engine is not made for two threads, and no lock protects it:
\* on_ice_connected is through with it (xqc_connect runs it) before the main
\* thread enters it.
EngineOneThread == ~(jpc = "connect" /\ MainInEngine)

\* However often ICE reports a connection, there is one engine, and the one
\* that the main thread was given exists.
OneEngine == engines <= 1 /\ (engine => engines = 1)

\* A packet on the list brings the main thread to drain it, unless the loop
\* ends: the loop looks at the context anew each time, so that a pipe that
\* appears while it runs is watched, even if signalling input never ends.
\* With the blocking pipe that both programs open, the packet gets it no
\* further than xquic_ice_clear_wakeup; with one that does not block, it goes
\* on from there unless new packets fill the pipe as fast as it is read.
PacketReachesDrain ==
  \/ []<>(mpc = "clear" /\ jpc = "wake")
  \/ packets > 0 ~>
       \/ mpc \in {"drain", "teardown", "free", "destroy", "returned",
                   "crashed"}
       \/ mpc = "clear" /\ rfd = "blocking"

-----------------------------------------------------------------------------
(* What the repository says and the code does not do.                      *)

\* libjuice's thread never uses a context that was freed.
NotUsedAfterFree == ctx = "freed" => jpc \notin UsesContext
=============================================================================
