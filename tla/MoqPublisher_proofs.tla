------------------------- MODULE MoqPublisher_proofs -------------------------
(***************************************************************************)
(* The publisher, for any number of connections and catalogs and any       *)
(* intervals: types, whom frames go to, key frames and pace.               *)
(***************************************************************************)
EXTENDS MoqPublisher, TLAPS

-----------------------------------------------------------------------------
(* Arithmetic of a counter that wraps.                                     *)

\* The number after the last one of a group is 0.
LEMMA WrapsAround ==
  ASSUME NEW k \in Nat \ {0}, NEW s \in 0..(k - 1)
  PROVE  (s + 1) % k = IF s + 1 = k THEN 0 ELSE s + 1
<1>1. CASE s + 1 = k
  BY <1>1
<1>2. CASE s + 1 # k
  BY <1>2
<1> QED BY <1>1, <1>2

-----------------------------------------------------------------------------
(* Types.                                                                  *)

LEMMA SubscriptionsType ==
  ASSUME NEW T \in SUBSET Tracks, NEW n \in Nat
  PROVE  Subscriptions(T, n) \in Seq(Ask)
<1> DEFINE ask(t, i) == [track |-> t, id |-> i]
<1>1. ask("video", n + 1) \in Ask /\ ask("audio", n + 1) \in Ask
      /\ ask("audio", n + 2) \in Ask
  BY DEF Ask, Tracks, NoSub
<1>2. CASE T = Tracks
  BY <1>1, <1>2 DEF Subscriptions
<1>3. CASE T # Tracks /\ T = {"video"}
  BY <1>1, <1>3 DEF Subscriptions
<1>4. CASE T # Tracks /\ T # {"video"} /\ T = {"audio"}
  BY <1>1, <1>4 DEF Subscriptions
<1>5. CASE T # Tracks /\ T # {"video"} /\ T # {"audio"}
  BY <1>5 DEF Subscriptions
<1> QED BY <1>2, <1>3, <1>4, <1>5

LEMMA RenewedType ==
  ASSUME NEW n \in [Tracks -> Nat], NEW new \in Seq(Ask)
  PROVE  Renewed(n, new) \in [Tracks -> Nat]
<1>1. ASSUME NEW t \in Tracks, \E i \in DOMAIN new : new[i].track = t
      PROVE  (CHOOSE a \in {new[i] : i \in DOMAIN new} : a.track = t).id \in Nat
  <2> DEFINE found == CHOOSE a \in {new[i] : i \in DOMAIN new} : a.track = t
  <2>1. found \in {new[i] : i \in DOMAIN new}
    BY <1>1
  <2>2. {new[i] : i \in DOMAIN new} \subseteq Ask
    OBVIOUS
  <2> HIDE DEF found
  <2>3. found \in Ask
    BY <2>1, <2>2
  <2> QED BY <2>3 DEF found, Ask
<1> QED BY <1>1 DEF Renewed

LEMMA TypeInit == Init => TypeOK
BY MoqPublisherAssumption
   DEF Init, TypeOK, Conns, NoConn, Tracks, NoSub, NoFrames, Fates

LEMMA OneChanged ==
  ASSUME NEW S, NEW f \in [Conns -> S], NEW c \in Conns, NEW v \in S
  PROVE  [f EXCEPT ![c] = v] \in [Conns -> S]
OBVIOUS

LEMMA TypeStep == TypeOK /\ [Next]_vars => TypeOK'
<1> SUFFICES ASSUME TypeOK, [Next]_vars PROVE TypeOK'
  OBVIOUS
<1> USE MoqPublisherAssumption
<1>1. CASE Tick
  <2>0. /\ wait \in [Conns -> 0..Interval]
        /\ gap \in [Conns -> 0..Interval]
    BY DEF TypeOK
  <2>1. /\ \A c \in Conns : (IF wait[c] = 0 THEN 0 ELSE wait[c] - 1) \in 0..Interval
        /\ \A c \in Conns :
             (IF gap[c] = Interval THEN Interval ELSE gap[c] + 1) \in 0..Interval
    BY <2>0
  <2>2. wait' \in [Conns -> 0..Interval] /\ gap' \in [Conns -> 0..Interval]
    BY <1>1, <2>1 DEF Tick
  <2> QED BY <1>1, <2>2 DEF TypeOK, Tick, subscriber, video
<1>2. ASSUME NEW c \in Conns, ClientStep(c) PROVE TypeOK'
  <2>1. CASE ClientCreate(c)
    BY <2>1 DEF TypeOK, ClientCreate, publisher, history, video
  <2>2. CASE OnCatalog(c)
    <3>1. PICK T \in SUBSET track[c] :
            /\ asks' = [asks EXCEPT ![c] = @ \o Subscriptions(T, LastId(c))]
            /\ newest' = [newest EXCEPT
                            ![c] = Renewed(@, Subscriptions(T, LastId(c)))]
      BY <2>2 DEF OnCatalog
    <3>2. Subscriptions(T, LastId(c)) \in Seq(Ask)
      <4>1. LastId(c) \in Nat
        BY DEF LastId, TypeOK, Tracks
      <4>2. T \in SUBSET Tracks
        BY DEF TypeOK
      <4> QED BY <4>1, <4>2, SubscriptionsType
    <3>3. asks' \in [Conns -> Seq(Ask)]
      BY <3>1, <3>2 DEF TypeOK
    <3>4. newest' \in [Conns -> [Tracks -> Nat]]
      <4>1. newest[c] \in [Tracks -> Nat]
        BY DEF TypeOK
      <4>2. Renewed(newest[c], Subscriptions(T, LastId(c))) \in [Tracks -> Nat]
        BY <3>2, <4>1, RenewedType
      <4> QED BY <3>1, <4>2 DEF TypeOK
    <3>5. catalogs' \in 0..MaxCatalogs
      BY <2>2 DEF OnCatalog, TypeOK
    <3> QED BY <2>2, <3>3, <3>4, <3>5 DEF TypeOK, OnCatalog, publisher, history, video
  <2>3. CASE ClientClose(c)
    BY <2>3 DEF TypeOK, ClientClose, publisher, history, video
  <2> QED BY <1>2, <2>1, <2>2, <2>3 DEF ClientStep
<1>3. ASSUME NEW c \in Conns, PeerStep(c) PROVE TypeOK'
  <2>1. CASE ServerAccept(c)
    <3>1. sent' \in [Conns -> [Tracks -> Fates]]
      BY <2>1 DEF ServerAccept, NoFrames, Fates
    <3> QED BY <2>1, <3>1 DEF TypeOK, ServerAccept, subscriber, video
  <2>2. CASE ServerAcceptFails(c)
    BY <2>2 DEF TypeOK, ServerAcceptFails, subscriber, history, video
  <2>3. CASE OnSessionSetup(c)
    <3>1. sub' \in [Conns -> [Tracks -> Nat]]
      BY <2>3 DEF TypeOK, OnSessionSetup, NoSub
    <3>2. track' \in [Conns -> SUBSET Tracks]
      BY <2>3 DEF TypeOK, OnSessionSetup
    <3> QED BY <2>3, <3>1, <3>2
            DEF TypeOK, OnSessionSetup, subscriber, history, video
  <2>4. CASE OnSubscribe(c)
    <3>1. Head(asks[c]) \in Ask /\ Tail(asks[c]) \in Seq(Ask)
      BY <2>4 DEF OnSubscribe, TypeOK
    <3>2. /\ sub' = [sub EXCEPT ![c][Head(asks[c]).track] = Head(asks[c]).id]
          /\ sent' = [sent EXCEPT ![c][Head(asks[c]).track] = "none"]
      BY <2>4 DEF OnSubscribe
    <3>3. sub' \in [Conns -> [Tracks -> Nat]]
      BY <3>1, <3>2 DEF TypeOK, Ask
    <3>4. asks' \in [Conns -> Seq(Ask)]
      BY <2>4, <3>1 DEF TypeOK, OnSubscribe
    <3>5. sent' \in [Conns -> [Tracks -> Fates]]
      BY <3>1, <3>2 DEF TypeOK, Ask, Fates
    <3>6. wait' \in [Conns -> 0..Interval] /\ hurried' \in [Conns -> BOOLEAN]
      <4>1. /\ wait' = [wait EXCEPT ![c] = 0]
            /\ hurried' = [hurried EXCEPT ![c] = TRUE]
        BY <2>4 DEF OnSubscribe
      <4>2. wait \in [Conns -> 0..Interval] /\ hurried \in [Conns -> BOOLEAN]
        BY DEF TypeOK
      <4>3. 0 \in 0..Interval
        OBVIOUS
      <4> QED BY <4>1, <4>2, <4>3, OneChanged
    <3> QED BY <2>4, <3>3, <3>4, <3>5, <3>6 DEF TypeOK, OnSubscribe, video
  <2>5. CASE ServerClose(c)
    <3>1. /\ asks' = [asks EXCEPT ![c] = <<>>]
          /\ track' = [track EXCEPT ![c] = {}]
          /\ sub' = [sub EXCEPT ![c] = [t \in Tracks |-> NoSub]]
          /\ seq' = [seq EXCEPT ![c] = 0]
          /\ wait' = [wait EXCEPT ![c] = 0]
          /\ gap' = [gap EXCEPT ![c] = Interval]
          /\ hurried' = [hurried EXCEPT ![c] = FALSE]
          /\ deltas' = [deltas EXCEPT ![c] = KeyInterval - 1]
          /\ keysLost' = [keysLost EXCEPT ![c] = 0]
          /\ sent' = [sent EXCEPT ![c] = NoFrames]
      BY <2>5 DEF ServerClose, Freed
    <3>2. /\ <<>> \in Seq(Ask) /\ {} \in SUBSET Tracks
          /\ [t \in Tracks |-> NoSub] \in [Tracks -> Nat]
          /\ NoFrames \in [Tracks -> Fates]
      BY DEF NoSub, NoFrames, Fates
    <3>3. /\ 0 \in 0..(KeyInterval - 1) /\ KeyInterval - 1 \in Nat
          /\ 0 \in 0..Interval /\ Interval \in 0..Interval
          /\ 0 \in 0..MaxKeysLost
      OBVIOUS
    <3>4. sub' \in [Conns -> [Tracks -> Nat]]
      BY <3>1, <3>2, OneChanged DEF TypeOK
    <3>5. /\ seq' \in [Conns -> 0..(KeyInterval - 1)]
          /\ keysLost' \in [Conns -> 0..MaxKeysLost]
      BY <3>1, <3>3, OneChanged DEF TypeOK
    <3>6. wait' \in [Conns -> 0..Interval] /\ gap' \in [Conns -> 0..Interval]
      BY <3>1, <3>3, OneChanged DEF TypeOK
    <3>7. deltas' \in [Conns -> Nat] /\ hurried' \in [Conns -> BOOLEAN]
      BY <3>1, <3>3, OneChanged DEF TypeOK
    <3>8. asks' \in [Conns -> Seq(Ask)] /\ track' \in [Conns -> SUBSET Tracks]
      BY <3>1, <3>2, OneChanged DEF TypeOK
    <3>9. sent' \in [Conns -> [Tracks -> Fates]]
      BY <3>1, <3>2, OneChanged DEF TypeOK
    <3> QED BY <2>5, <3>4, <3>5, <3>6, <3>7, <3>8, <3>9 DEF TypeOK, ServerClose
  <2> QED BY <1>3, <2>1, <2>2, <2>3, <2>4, <2>5 DEF PeerStep
<1>4. ASSUME NEW c \in Conns, NEW written \in SUBSET Fed(c),
             SendFrames(c, written)
      PROVE  TypeOK'
  <2>1. /\ seq' \in [Conns -> 0..(KeyInterval - 1)]
        /\ deltas' \in [Conns -> Nat]
        /\ keysLost' \in [Conns -> 0..MaxKeysLost]
    <3>0. /\ seq \in [Conns -> 0..(KeyInterval - 1)]
          /\ deltas \in [Conns -> Nat]
          /\ keysLost \in [Conns -> 0..MaxKeysLost]
      BY DEF TypeOK
    <3>1. ASSUME NEW ok \in BOOLEAN, VideoFrame(c, ok)
          PROVE  /\ seq' \in [Conns -> 0..(KeyInterval - 1)]
                 /\ deltas' \in [Conns -> Nat]
                 /\ keysLost' \in [Conns -> 0..MaxKeysLost]
      <4> DEFINE next == (seq[c] + 1) % KeyInterval
      <4>1. next \in 0..(KeyInterval - 1)
        <5>1. next = IF seq[c] + 1 = KeyInterval THEN 0 ELSE seq[c] + 1
          BY <3>0, WrapsAround
        <5> QED BY <3>0, <5>1
      <4>2. seq' = [seq EXCEPT ![c] = next]
        BY <3>1 DEF VideoFrame
      <4> HIDE DEF next
      <4>3. seq' \in [Conns -> 0..(KeyInterval - 1)]
        BY <3>0, <4>1, <4>2
      <4>4. \E n \in {0, deltas[c], deltas[c] + 1} :
              deltas' = [deltas EXCEPT ![c] = n]
        BY <3>1 DEF VideoFrame
      <4>5. \/ keysLost' = keysLost
            \/ keysLost' = [keysLost EXCEPT ![c] = 0]
            \/ /\ keysLost[c] < MaxKeysLost
               /\ keysLost' = [keysLost EXCEPT ![c] = keysLost[c] + 1]
        BY <3>1 DEF VideoFrame
      <4> QED BY <3>0, <4>3, <4>4, <4>5
    <3>2. CASE UNCHANGED <<seq, deltas, keysLost>>
      BY <3>0, <3>2
    <3>3. CASE "video" \in Fed(c)
      <4> DEFINE ok == "video" \in written
      <4>1. VideoFrame(c, ok)
        BY <1>4, <3>3 DEF SendFrames, Frames
      <4>2. ok \in BOOLEAN
        OBVIOUS
      <4> HIDE DEF ok
      <4> QED BY <3>1, <4>1, <4>2
    <3>4. CASE "video" \notin Fed(c)
      BY <1>4, <3>2, <3>4 DEF SendFrames, Frames, video
    <3> QED BY <3>3, <3>4
  <2>2. sent' \in [Conns -> [Tracks -> Fates]]
    <3> DEFINE fate == [t \in Tracks |->
                         IF t \notin Fed(c) THEN sent[c][t]
                         ELSE IF t \in written THEN "written" ELSE "failed"]
    <3>1. fate \in [Tracks -> Fates]
      BY DEF TypeOK, Fates
    <3>2. sent' = [sent EXCEPT ![c] = fate]
      BY <1>4 DEF SendFrames, Frames
    <3> HIDE DEF fate
    <3> QED BY <3>1, <3>2 DEF TypeOK
  <2>3. /\ wait' \in [Conns -> 0..Interval]
        /\ gap' \in [Conns -> 0..Interval]
        /\ hurried' \in [Conns -> BOOLEAN]
    BY <1>4 DEF TypeOK, SendFrames, Frames
  <2> QED BY <1>4, <2>1, <2>2, <2>3 DEF TypeOK, SendFrames, subscriber
<1>5. CASE LoopStops
  BY <1>5 DEF TypeOK, LoopStops, subscriber, history, video
<1>6. CASE UNCHANGED vars
  BY <1>6 DEF TypeOK, vars, subscriber, publisher, history, video
<1> QED BY <1>1, <1>2, <1>3, <1>4, <1>5, <1>6 DEF Next, FramesStep

\* Every variable keeps its type: app_ctx is a session or NULL, a number of
\* a frame stays below KeyInterval, and the time to the next frame never
\* wraps around.
THEOREM TypesKept == Spec => []TypeOK
BY TypeInit, TypeStep, PTL DEF Spec

-----------------------------------------------------------------------------
(* Whom frames go to.                                                      *)

LEMMA LatestStep ==
  TypeOK /\ FramesGoToLatest /\ [Next]_vars => FramesGoToLatest'
<1> SUFFICES ASSUME TypeOK, FramesGoToLatest, [Next]_vars
             PROVE  FramesGoToLatest'
  OBVIOUS
<1>0. /\ peer \in [Conns -> {"none", "accepted", "ready", "closed"}]
      /\ app \in Conns \cup {NoConn}
      /\ latest \in Conns \cup {NoConn}
      /\ NoConn \notin Conns
  BY DEF TypeOK, Conns, NoConn
<1>1. CASE UNCHANGED <<app, peer, latest>>
  BY <1>1 DEF FramesGoToLatest
<1>2. ASSUME NEW c \in Conns, ServerAccept(c) PROVE FramesGoToLatest'
  BY <1>0, <1>2 DEF FramesGoToLatest, ServerAccept
<1>3. ASSUME NEW c \in Conns, ServerAcceptFails(c) PROVE FramesGoToLatest'
  BY <1>0, <1>3 DEF FramesGoToLatest, ServerAcceptFails, history
<1>4. ASSUME NEW c \in Conns, OnSessionSetup(c) PROVE FramesGoToLatest'
  BY <1>0, <1>4 DEF FramesGoToLatest, OnSessionSetup, history
<1>5. ASSUME NEW c \in Conns, ServerClose(c) PROVE FramesGoToLatest'
  BY <1>0, <1>5 DEF FramesGoToLatest, ServerClose
<1>6. CASE Tick
  BY <1>1, <1>6 DEF Tick
<1>7. ASSUME NEW c \in Conns, ClientStep(c) PROVE FramesGoToLatest'
  BY <1>1, <1>7 DEF ClientStep, ClientCreate, OnCatalog, ClientClose,
                    publisher, history
<1>8. ASSUME NEW c \in Conns, OnSubscribe(c) \/ FramesStep(c)
      PROVE  FramesGoToLatest'
  BY <1>1, <1>8 DEF OnSubscribe, FramesStep, SendFrames
<1>9. CASE LoopStops \/ UNCHANGED vars
  BY <1>1, <1>9 DEF LoopStops, vars, publisher, history
<1> QED BY <1>2, <1>3, <1>4, <1>5, <1>6, <1>7, <1>8, <1>9 DEF Next, PeerStep

\* app_ctx is never a session that was freed, and the session of the
\* connection accepted last keeps it until it is closed itself, whatever the
\* other connections do (server_accept, server_conn_close_notify).
THEOREM AppIsLatest == Spec => []FramesGoToLatest
<1>1. Init => FramesGoToLatest
  BY DEF Init, FramesGoToLatest, NoConn
<1> QED BY <1>1, TypesKept, LatestStep, PTL DEF Spec

-----------------------------------------------------------------------------
(* Key frames.  KeyFrameWithin is not inductive: the number of the next     *)
(* frame has to bound the delta frames as well.                            *)

KeyBound(n, d, lost) ==
  d < KeyInterval * lost + (IF n = 0 THEN KeyInterval ELSE n)

KeyInv == \A c \in Conns : KeyBound(seq[c], deltas[c], keysLost[c])

\* One frame keeps the bound: a key frame that is written starts over, one
\* that is lost allows for another interval, and a delta frame that is
\* written is one more, as is its number.
LEMMA KeyBoundFrame ==
  ASSUME NEW n \in 0..(KeyInterval - 1), NEW d \in Nat, NEW lost \in Nat,
         NEW n1, NEW d1, NEW lost1,
         KeyBound(n, d, lost),
         n1 = (n + 1) % KeyInterval,
         \/ n = 0 /\ d1 = 0 /\ lost1 = 0
         \/ n = 0 /\ d1 = d /\ lost1 = lost + 1
         \/ n # 0 /\ d1 \in {d, d + 1} /\ lost1 = lost
  PROVE  KeyBound(n1, d1, lost1)
<1>0. KeyInterval \in Nat \ {0}
  BY MoqPublisherAssumption
<1>1. n1 = IF n + 1 = KeyInterval THEN 0 ELSE n + 1
  BY <1>0, WrapsAround
<1>2. PICK m \in Nat : m = KeyInterval * lost
  BY <1>0
<1>3. d < m + (IF n = 0 THEN KeyInterval ELSE n)
  BY <1>2 DEF KeyBound
<1>4. CASE n = 0 /\ d1 = 0 /\ lost1 = 0
  <2>1. KeyInterval * lost1 = 0
    BY <1>0, <1>4
  <2> QED BY <1>0, <1>1, <1>4, <2>1 DEF KeyBound
<1>5. CASE n = 0 /\ d1 = d /\ lost1 = lost + 1
  <2>1. KeyInterval * lost1 = m + KeyInterval
    BY <1>0, <1>2, <1>5
  <2> QED BY <1>0, <1>1, <1>3, <1>5, <2>1 DEF KeyBound
<1>6. CASE n # 0 /\ d1 \in {d, d + 1} /\ lost1 = lost
  <2>1. d1 < m + n + 1
    BY <1>3, <1>6
  <2> QED BY <1>0, <1>1, <1>2, <1>6, <2>1 DEF KeyBound
<1> QED BY <1>4, <1>5, <1>6

LEMMA KeyStep == TypeOK /\ KeyInv /\ [Next]_vars => KeyInv'
<1> SUFFICES ASSUME TypeOK, KeyInv, [Next]_vars, NEW d \in Conns
             PROVE  KeyBound(seq'[d], deltas'[d], keysLost'[d])
  BY DEF KeyInv, KeyBound
<1> USE MoqPublisherAssumption
<1>0. /\ seq \in [Conns -> 0..(KeyInterval - 1)]
      /\ deltas \in [Conns -> Nat]
      /\ keysLost \in [Conns -> 0..MaxKeysLost]
      /\ KeyBound(seq[d], deltas[d], keysLost[d])
  BY DEF TypeOK, KeyInv
<1>1. CASE UNCHANGED <<seq, deltas, keysLost>>
  BY <1>0, <1>1
<1>2. ASSUME NEW c \in Conns, ServerClose(c)
      PROVE  KeyBound(seq'[d], deltas'[d], keysLost'[d])
  <2>1. /\ seq' = [seq EXCEPT ![c] = 0]
        /\ deltas' = [deltas EXCEPT ![c] = KeyInterval - 1]
        /\ keysLost' = [keysLost EXCEPT ![c] = 0]
    BY <1>2 DEF ServerClose, Freed
  <2>2. CASE c # d
    BY <1>0, <2>1, <2>2
  <2>3. CASE c = d
    <3>1. seq'[d] = 0 /\ deltas'[d] = KeyInterval - 1 /\ keysLost'[d] = 0
      BY <1>0, <2>1, <2>3
    <3>2. KeyInterval - 1 < KeyInterval * 0 + KeyInterval
      OBVIOUS
    <3> QED BY <3>1, <3>2 DEF KeyBound
  <2> QED BY <2>2, <2>3
<1>3. ASSUME NEW c \in Conns, NEW ok \in BOOLEAN, VideoFrame(c, ok)
      PROVE  KeyBound(seq'[d], deltas'[d], keysLost'[d])
  <2>1. CASE c # d
    <3>1. seq'[d] = seq[d] /\ deltas'[d] = deltas[d] /\ keysLost'[d] = keysLost[d]
      BY <1>0, <1>3, <2>1 DEF VideoFrame
    <3> QED BY <1>0, <3>1
  <2>2. CASE c = d
    <3>1. seq'[d] = (seq[d] + 1) % KeyInterval
      <4>1. seq' = [seq EXCEPT ![c] = (seq[c] + 1) % KeyInterval]
        BY <1>3 DEF VideoFrame
      <4> QED BY <1>0, <2>2, <4>1
    <3>2. \/ seq[d] = 0 /\ deltas'[d] = 0 /\ keysLost'[d] = 0
          \/ /\ seq[d] = 0 /\ deltas'[d] = deltas[d]
             /\ keysLost'[d] = keysLost[d] + 1
          \/ /\ seq[d] # 0 /\ deltas'[d] \in {deltas[d], deltas[d] + 1}
             /\ keysLost'[d] = keysLost[d]
      BY <1>0, <1>3, <2>2 DEF VideoFrame, IsKeyFrame
    <3>3. /\ seq[d] \in 0..(KeyInterval - 1)
          /\ deltas[d] \in Nat
          /\ keysLost[d] \in Nat
      BY <1>0
    <3> QED BY <1>0, <3>1, <3>2, <3>3, KeyBoundFrame
  <2> QED BY <2>1, <2>2
<1>4. CASE Tick \/ LoopStops
  BY <1>1, <1>4 DEF Tick, LoopStops, history, video
<1>5. ASSUME NEW c \in Conns, ClientStep(c)
      PROVE  UNCHANGED <<seq, deltas, keysLost>>
  BY <1>5 DEF ClientStep, ClientCreate, OnCatalog, ClientClose,
              publisher, history, video
<1>6. ASSUME NEW c \in Conns, FramesStep(c)
      PROVE  \/ \E ok \in BOOLEAN : VideoFrame(c, ok)
             \/ UNCHANGED <<seq, deltas, keysLost>>
  <2>1. PICK written \in SUBSET Fed(c) : Frames(c, written)
    BY <1>6 DEF FramesStep, SendFrames
  <2>2. CASE "video" \in Fed(c)
    <3> DEFINE ok == "video" \in written
    <3>1. VideoFrame(c, ok)
      BY <2>1, <2>2 DEF Frames
    <3>2. ok \in BOOLEAN
      OBVIOUS
    <3> HIDE DEF ok
    <3> QED BY <3>1, <3>2
  <2>3. CASE "video" \notin Fed(c)
    BY <2>1, <2>3 DEF Frames, video
  <2> QED BY <2>2, <2>3
<1>7. ASSUME NEW c \in Conns, \/ ServerAccept(c)
                              \/ ServerAcceptFails(c)
                              \/ OnSessionSetup(c)
                              \/ OnSubscribe(c)
      PROVE  UNCHANGED <<seq, deltas, keysLost>>
  BY <1>7 DEF ServerAccept, ServerAcceptFails, OnSessionSetup, OnSubscribe,
              history, video
<1>8. CASE UNCHANGED vars
  BY <1>1, <1>8 DEF vars, publisher, history, video
<1> QED BY <1>1, <1>2, <1>3, <1>4, <1>5, <1>6, <1>7, <1>8 DEF Next, PeerStep

\* Between two key frames that reach a subscriber, and before its first one,
\* there are fewer than KeyInterval delta frames for the one interval and for
\* each key frame whose write failed, however the other writes end and the
\* subscriptions come and go (peer_send_frames_if_due).
THEOREM KeyFramesComeRound == Spec => []KeyFrameWithin
<1>1. Init => KeyInv
  <2> SUFFICES ASSUME Init, NEW c \in Conns
               PROVE  KeyBound(seq[c], deltas[c], keysLost[c])
    BY DEF KeyInv
  <2>1. seq[c] = 0 /\ deltas[c] = KeyInterval - 1 /\ keysLost[c] = 0
    BY DEF Init
  <2>2. KeyInterval - 1 < KeyInterval * 0 + KeyInterval
    BY MoqPublisherAssumption
  <2> QED BY <2>1, <2>2 DEF KeyBound
<1>2. TypeOK /\ KeyInv => KeyFrameWithin
  <2> SUFFICES ASSUME TypeOK, KeyInv, NEW c \in Conns
               PROVE  deltas[c] < KeyInterval * (1 + keysLost[c])
    BY DEF KeyFrameWithin
  <2>0. /\ KeyInterval \in Nat \ {0} /\ keysLost[c] \in Nat
        /\ seq[c] \in 0..(KeyInterval - 1) /\ deltas[c] \in Nat
    BY MoqPublisherAssumption DEF TypeOK
  <2>1. PICK m \in Nat : m = KeyInterval * keysLost[c]
    BY <2>0
  <2>2. KeyInterval * (1 + keysLost[c]) = m + KeyInterval
    BY <2>0, <2>1
  <2>3. deltas[c] < m + KeyInterval
    BY <2>0, <2>1 DEF KeyInv, KeyBound
  <2> QED BY <2>2, <2>3
<1> QED BY <1>1, <1>2, TypesKept, KeyStep, PTL DEF Spec

-----------------------------------------------------------------------------
(* Pace: without a subscription in between, what has passed since the last *)
(* frames and what is left to wait add up to an interval.                  *)

PaceInv == \A c \in Conns : hurried[c] \/ gap[c] + wait[c] >= Interval

LEMMA PaceStep == TypeOK /\ PaceInv /\ [Next]_vars => PaceInv'
<1> SUFFICES ASSUME TypeOK, PaceInv, [Next]_vars, NEW d \in Conns
             PROVE  hurried'[d] \/ gap'[d] + wait'[d] >= Interval
  BY DEF PaceInv
<1> USE MoqPublisherAssumption
<1>0. /\ gap \in [Conns -> 0..Interval]
      /\ wait \in [Conns -> 0..Interval]
      /\ hurried \in [Conns -> BOOLEAN]
      /\ hurried[d] \/ gap[d] + wait[d] >= Interval
  BY DEF TypeOK, PaceInv
<1>1. CASE UNCHANGED <<gap, wait, hurried>>
  BY <1>0, <1>1
<1>2. CASE Tick
  <2>1. /\ wait'[d] = IF wait[d] = 0 THEN 0 ELSE wait[d] - 1
        /\ gap'[d] = IF gap[d] = Interval THEN Interval ELSE gap[d] + 1
        /\ hurried' = hurried
    BY <1>2 DEF Tick
  <2> QED BY <1>0, <2>1
<1>3. ASSUME NEW c \in Conns, ServerClose(c)
      PROVE  hurried'[d] \/ gap'[d] + wait'[d] >= Interval
  <2>1. /\ wait' = [wait EXCEPT ![c] = 0]
        /\ gap' = [gap EXCEPT ![c] = Interval]
        /\ hurried' = [hurried EXCEPT ![c] = FALSE]
    BY <1>3 DEF ServerClose, Freed
  <2> QED BY <1>0, <2>1
<1>4. ASSUME NEW c \in Conns, OnSubscribe(c)
      PROVE  hurried'[d] \/ gap'[d] + wait'[d] >= Interval
  <2>1. /\ wait' = [wait EXCEPT ![c] = 0]
        /\ gap' = gap
        /\ hurried' = [hurried EXCEPT ![c] = TRUE]
    BY <1>4 DEF OnSubscribe
  <2> QED BY <1>0, <2>1
<1>5. ASSUME NEW c \in Conns, FramesStep(c)
      PROVE  hurried'[d] \/ gap'[d] + wait'[d] >= Interval
  <2>1. PICK written \in SUBSET Fed(c) :
          /\ wait' = [wait EXCEPT ![c] = Interval]
          /\ gap' = [gap EXCEPT ![c] = IF written = {} THEN gap[c] ELSE 0]
          /\ hurried' = [hurried EXCEPT ![c] = FALSE]
    BY <1>5 DEF FramesStep, SendFrames, Frames
  <2> QED BY <1>0, <2>1
<1>6. ASSUME NEW c \in Conns, ClientStep(c)
      PROVE  UNCHANGED <<gap, wait, hurried>>
  BY <1>6 DEF ClientStep, ClientCreate, OnCatalog, ClientClose,
              publisher, history
<1>7. ASSUME NEW c \in Conns, \/ ServerAccept(c)
                              \/ ServerAcceptFails(c)
                              \/ OnSessionSetup(c)
      PROVE  UNCHANGED <<gap, wait, hurried>>
  BY <1>7 DEF ServerAccept, ServerAcceptFails, OnSessionSetup, history
<1>8. CASE LoopStops \/ UNCHANGED vars
  BY <1>1, <1>8 DEF LoopStops, vars, publisher, history
<1> QED BY <1>1, <1>2, <1>3, <1>4, <1>5, <1>6, <1>7, <1>8 DEF Next, PeerStep

\* Written frames of a connection are an interval apart unless a subscription
\* brought them forward: the 33 ms of peer_send_frames_if_due hold whatever
\* wakes the loop up in between, and whichever writes fail.
THEOREM FramesArePaced == Spec => Paced
<1>1. Init => PaceInv
  BY MoqPublisherAssumption DEF Init, PaceInv
<1>2. TypeOK /\ PaceInv => [FramesApart]_vars
  <2> SUFFICES ASSUME TypeOK, PaceInv, NEW c \in Conns,
                      NEW written \in SUBSET Fed(c) \ {{}},
                      SendFrames(c, written)
               PROVE  gap[c] = Interval \/ hurried[c]
    BY DEF FramesApart
  <2>1. /\ gap[c] \in 0..Interval
        /\ wait[c] = 0
        /\ hurried[c] \/ gap[c] + wait[c] >= Interval
    BY DEF TypeOK, PaceInv, SendFrames
  <2> QED BY <2>1, MoqPublisherAssumption
<1> QED BY <1>1, <1>2, TypesKept, PaceStep, PTL DEF Spec, Paced

-----------------------------------------------------------------------------
(* Both ends mean the same subscription.  While SUBSCRIBE messages are on  *)
(* their way, the last one of a track is the client's newest, and a track  *)
(* without one is settled.                                                 *)

NoneFor(q, t) == \A i \in 1..Len(q) : q[i].track # t

LastFor(q, t, i) ==
  /\ i \in 1..Len(q)
  /\ q[i].track = t
  /\ \A j \in 1..Len(q) : q[j].track = t => j <= i

Settling(q, s, n) ==
  \A t \in Tracks : /\ NoneFor(q, t) => s[t] = n[t]
                    /\ \A i : LastFor(q, t, i) => q[i].id = n[t]

OnePerTrack(new) ==
  \A i, j \in 1..Len(new) : new[i].track = new[j].track => i = j

AgreeInv ==
  \A c \in Conns :
    /\ peer[c] \in {"none", "accepted"} =>
         asks[c] = <<>> /\ newest[c] = [t \in Tracks |-> NoSub]
    /\ peer[c] = "ready" => Settling(asks[c], sub[c], newest[c])

\* Handling the first message keeps the rest in agreement.
LEMMA SettlingTail ==
  ASSUME NEW q \in Seq(Ask), q # <<>>, NEW s \in [Tracks -> Nat],
         NEW n \in [Tracks -> Nat], Settling(q, s, n)
  PROVE  Settling(Tail(q), [s EXCEPT ![Head(q).track] = Head(q).id], n)
<1> DEFINE r == Tail(q)
<1>0. /\ Len(q) \in Nat \ {0}
      /\ Len(r) = Len(q) - 1
      /\ \A i \in 1..Len(r) : r[i] = q[i + 1]
      /\ Head(q) = q[1]
      /\ q[1] \in Ask
  OBVIOUS
<1> HIDE DEF r
<1> SUFFICES ASSUME NEW t \in Tracks
             PROVE  /\ NoneFor(r, t) =>
                         [s EXCEPT ![q[1].track] = q[1].id][t] = n[t]
                    /\ \A i : LastFor(r, t, i) => r[i].id = n[t]
  BY <1>0 DEF Settling, r
<1>1. ASSUME NEW i, LastFor(r, t, i) PROVE r[i].id = n[t]
  <2>1. i \in 1..Len(r) /\ i + 1 \in 1..Len(q) /\ r[i] = q[i + 1]
    BY <1>0, <1>1 DEF LastFor
  <2>2. ASSUME NEW j \in 1..Len(q), q[j].track = t PROVE j <= i + 1
    <3>1. CASE j = 1
      BY <2>1, <3>1
    <3>2. CASE j # 1
      <4>1. j - 1 \in 1..Len(r) /\ r[j - 1] = q[j]
        BY <1>0, <3>2
      <4>2. j - 1 <= i
        BY <1>1, <2>2, <4>1 DEF LastFor
      <4> QED BY <2>1, <4>2
    <3> QED BY <3>1, <3>2
  <2>3. LastFor(q, t, i + 1)
    BY <1>1, <2>1, <2>2 DEF LastFor
  <2> QED BY <2>1, <2>3 DEF Settling
<1>2. ASSUME NoneFor(r, t)
      PROVE  [s EXCEPT ![q[1].track] = q[1].id][t] = n[t]
  <2>1. ASSUME NEW j \in 1..Len(q), q[j].track = t PROVE j = 1
    <3> SUFFICES ASSUME j # 1 PROVE FALSE
      OBVIOUS
    <3>1. j - 1 \in 1..Len(r) /\ r[j - 1] = q[j]
      BY <1>0
    <3> QED BY <1>2, <2>1, <3>1 DEF NoneFor
  <2>2. CASE q[1].track = t
    <3>1. LastFor(q, t, 1)
      BY <1>0, <2>1, <2>2 DEF LastFor
    <3> QED BY <2>2, <3>1 DEF Settling
  <2>3. CASE q[1].track # t
    <3>1. NoneFor(q, t)
      BY <2>1, <2>3 DEF NoneFor
    <3> QED BY <2>3, <3>1 DEF Settling
  <2> QED BY <2>2, <2>3
<1> QED BY <1>1, <1>2

\* At most one of the messages of a catalog is for a track.
LEMMA SubscriptionsOnce ==
  ASSUME NEW T \in SUBSET Tracks, NEW k \in Nat,
         NEW i \in 1..Len(Subscriptions(T, k)),
         NEW j \in 1..Len(Subscriptions(T, k)),
         Subscriptions(T, k)[i].track = Subscriptions(T, k)[j].track
  PROVE  i = j
<1> DEFINE ask(t, n) == [track |-> t, id |-> n]
<1>1. CASE T = Tracks
  <2>1. Subscriptions(T, k) = <<ask("video", k + 1), ask("audio", k + 2)>>
    BY <1>1 DEF Subscriptions
  <2>2. ASSUME i # j PROVE FALSE
    <3>1. (i = 1 /\ j = 2) \/ (i = 2 /\ j = 1)
      BY <2>1, <2>2
    <3> QED BY <2>1, <3>1
  <2> QED BY <2>2
<1>2. CASE T # Tracks
  <2>1. \/ Subscriptions(T, k) = <<ask("video", k + 1)>>
        \/ Subscriptions(T, k) = <<ask("audio", k + 1)>>
        \/ Subscriptions(T, k) = <<>>
    BY <1>2 DEF Subscriptions
  <2> HIDE DEF ask
  <2>2. \/ Len(Subscriptions(T, k)) = 1
        \/ Len(Subscriptions(T, k)) = 0
    BY <2>1
  <2> QED BY <2>2
<1> QED BY <1>1, <1>2

\* Sending the messages of a catalog keeps the agreement.
LEMMA SettlingAppend ==
  ASSUME NEW q \in Seq(Ask), NEW s \in [Tracks -> Nat],
         NEW n \in [Tracks -> Nat], NEW new \in Seq(Ask), Settling(q, s, n),
         OnePerTrack(new)
  PROVE  Settling(q \o new, s, Renewed(n, new))
<1> DEFINE r == q \o new
           found(t) == CHOOSE a \in {new[i] : i \in DOMAIN new} : a.track = t
<1>0. /\ Len(q) \in Nat /\ Len(new) \in Nat
      /\ Len(r) = Len(q) + Len(new)
      /\ \A i \in 1..Len(q) : r[i] = q[i]
      /\ \A i \in 1..Len(new) : r[Len(q) + i] = new[i]
      /\ DOMAIN new = 1..Len(new)
  OBVIOUS
<1> HIDE DEF r
<1> SUFFICES ASSUME NEW t \in Tracks
             PROVE  LET m == IF \E i \in DOMAIN new : new[i].track = t
                             THEN found(t).id ELSE n[t]
                    IN  /\ NoneFor(r, t) => s[t] = m
                        /\ \A i : LastFor(r, t, i) => r[i].id = m
  BY DEF Settling, Renewed, r
<1>1. CASE \E i \in DOMAIN new : new[i].track = t
  <2>1. PICK k \in 1..Len(new) : new[k].track = t
    BY <1>0, <1>1
  <2>2. found(t) = new[k]
    <3>0. new[k] \in {new[i] : i \in DOMAIN new}
      BY <1>0, <2>1
    <3>1. found(t) \in {new[i] : i \in DOMAIN new} /\ found(t).track = t
      BY <2>1, <3>0
    <3>2. PICK j \in 1..Len(new) : found(t) = new[j]
      BY <1>0, <3>1
    <3> QED BY <2>1, <3>1, <3>2 DEF OnePerTrack
  <2>3. ~NoneFor(r, t)
    BY <1>0, <2>1 DEF NoneFor
  <2>4. ASSUME NEW i, LastFor(r, t, i) PROVE r[i] = new[k]
    <3>1. Len(q) + k \in 1..Len(r) /\ r[Len(q) + k].track = t
      BY <1>0, <2>1
    <3>2. i \in 1..Len(r) /\ Len(q) + k <= i /\ r[i].track = t
      BY <2>4, <3>1 DEF LastFor
    <3>3. i - Len(q) \in 1..Len(new)
      BY <1>0, <3>2
    <3>4. r[i] = new[i - Len(q)]
      <4>1. i = Len(q) + (i - Len(q))
        BY <1>0, <3>2
      <4> QED BY <1>0, <3>3, <4>1
    <3> QED BY <2>1, <3>2, <3>3, <3>4 DEF OnePerTrack
  <2> QED BY <1>1, <2>2, <2>3, <2>4
<1>2. CASE ~ \E i \in DOMAIN new : new[i].track = t
  <2>1. ASSUME NoneFor(r, t) PROVE s[t] = n[t]
    <3>1. NoneFor(q, t)
      BY <1>0, <2>1 DEF NoneFor
    <3> QED BY <3>1 DEF Settling
  <2>2. ASSUME NEW i, LastFor(r, t, i) PROVE r[i].id = n[t]
    <3>1. i \in 1..Len(r) /\ r[i].track = t
      BY <2>2 DEF LastFor
    <3>2. i \in 1..Len(q)
      <4> SUFFICES ASSUME i \notin 1..Len(q) PROVE FALSE
        OBVIOUS
      <4>1. i - Len(q) \in 1..Len(new) /\ i = Len(q) + (i - Len(q))
        BY <1>0, <3>1
      <4> QED BY <1>0, <1>2, <3>1, <4>1
    <3>3. LastFor(q, t, i)
      BY <1>0, <2>2, <3>1, <3>2 DEF LastFor
    <3> QED BY <1>0, <3>2, <3>3 DEF Settling
  <2> QED BY <1>2, <2>1, <2>2
<1> QED BY <1>1, <1>2

LEMMA AgreeStep == TypeOK /\ AgreeInv /\ [Next]_vars => AgreeInv'
<1> SUFFICES ASSUME TypeOK, AgreeInv, [Next]_vars PROVE AgreeInv'
  OBVIOUS
<1>0. /\ peer \in [Conns -> {"none", "accepted", "ready", "closed"}]
      /\ asks \in [Conns -> Seq(Ask)]
      /\ newest \in [Conns -> [Tracks -> Nat]]
      /\ sub \in [Conns -> [Tracks -> Nat]]
      /\ track \in [Conns -> SUBSET Tracks]
  BY DEF TypeOK
<1>1. CASE UNCHANGED <<peer, asks, newest, sub>>
  BY <1>1 DEF AgreeInv
<1>2. ASSUME NEW c \in Conns, OnCatalog(c) PROVE AgreeInv'
  <2>1. PICK T \in SUBSET track[c] :
          /\ asks' = [asks EXCEPT ![c] = @ \o Subscriptions(T, LastId(c))]
          /\ newest' = [newest EXCEPT
                          ![c] = Renewed(@, Subscriptions(T, LastId(c)))]
    BY <1>2 DEF OnCatalog
  <2> DEFINE new == Subscriptions(T, LastId(c))
  <2>2. LastId(c) \in Nat /\ T \in SUBSET Tracks
    <3>1. newest[c]["video"] \in Nat /\ newest[c]["audio"] \in Nat
      BY <1>0 DEF Tracks
    <3>2. track[c] \subseteq Tracks
      BY <1>0
    <3> QED BY <3>1, <3>2 DEF LastId
  <2>3. /\ new \in Seq(Ask)
        /\ OnePerTrack(new)
    BY <2>2, SubscriptionsType, SubscriptionsOnce DEF OnePerTrack
  <2>4. peer[c] = "ready" /\ peer' = peer /\ sub' = sub
    BY <1>2 DEF OnCatalog, publisher
  <2>5. Settling(asks[c], sub[c], newest[c])
    BY <2>4 DEF AgreeInv
  <2>6. Settling(asks'[c], sub[c], newest'[c])
    <3> HIDE DEF new
    <3>1. asks'[c] = asks[c] \o new
      BY <1>0, <2>1 DEF new
    <3>2. newest'[c] = Renewed(newest[c], new)
      BY <1>0, <2>1 DEF new
    <3>3. /\ asks[c] \in Seq(Ask)
          /\ sub[c] \in [Tracks -> Nat]
          /\ newest[c] \in [Tracks -> Nat]
      BY <1>0
    <3>4. Settling(asks[c] \o new, sub[c], Renewed(newest[c], new))
      BY <2>3, <2>5, <3>3, SettlingAppend
    <3> QED BY <3>1, <3>2, <3>4
  <2>7. ASSUME NEW d \in Conns, d # c
        PROVE  asks'[d] = asks[d] /\ newest'[d] = newest[d]
    BY <1>0, <2>1, <2>7
  <2> QED BY <2>4, <2>6, <2>7 DEF AgreeInv
<1>3. ASSUME NEW c \in Conns, OnSubscribe(c) PROVE AgreeInv'
  <2>1. /\ peer[c] = "ready" /\ peer' = peer /\ newest' = newest
        /\ asks[c] # <<>>
        /\ asks' = [asks EXCEPT ![c] = Tail(asks[c])]
        /\ sub' = [sub EXCEPT ![c][Head(asks[c]).track] = Head(asks[c]).id]
    BY <1>3 DEF OnSubscribe
  <2>2. Settling(asks[c], sub[c], newest[c])
    BY <2>1 DEF AgreeInv
  <2>3. asks[c] \in Seq(Ask) /\ sub[c] \in [Tracks -> Nat]
        /\ newest[c] \in [Tracks -> Nat]
    BY <1>0
  <2>4. Settling(Tail(asks[c]),
                 [sub[c] EXCEPT ![Head(asks[c]).track] = Head(asks[c]).id],
                 newest[c])
    BY <2>1, <2>2, <2>3, SettlingTail
  <2>5. asks'[c] = Tail(asks[c])
        /\ sub'[c] = [sub[c] EXCEPT ![Head(asks[c]).track] = Head(asks[c]).id]
    BY <1>0, <2>1
  <2>6. ASSUME NEW d \in Conns, d # c
        PROVE  asks'[d] = asks[d] /\ sub'[d] = sub[d]
    BY <1>0, <2>1, <2>6
  <2> QED BY <2>1, <2>4, <2>5, <2>6 DEF AgreeInv
<1>4. ASSUME NEW c \in Conns, OnSessionSetup(c) PROVE AgreeInv'
  <2>1. /\ peer[c] = "accepted"
        /\ peer' = [peer EXCEPT ![c] = "ready"]
        /\ sub' = [sub EXCEPT ![c] = [t \in Tracks |-> NoSub]]
        /\ asks' = asks /\ newest' = newest
    BY <1>4 DEF OnSessionSetup, subscriber
  <2>2. asks[c] = <<>> /\ newest[c] = [t \in Tracks |-> NoSub]
    BY <2>1 DEF AgreeInv
  <2>3. Settling(asks'[c], sub'[c], newest'[c])
    BY <1>0, <2>1, <2>2 DEF Settling, NoneFor, LastFor
  <2> QED BY <1>0, <2>1, <2>3 DEF AgreeInv
<1>5. ASSUME NEW c \in Conns, ServerAccept(c) \/ ServerAcceptFails(c)
      PROVE  AgreeInv'
  <2>1. /\ peer[c] = "none"
        /\ \E new \in {"accepted", "closed"} : peer' = [peer EXCEPT ![c] = new]
        /\ asks' = asks /\ newest' = newest /\ sub' = sub
    BY <1>5 DEF ServerAccept, ServerAcceptFails, subscriber
  <2> QED BY <1>0, <2>1 DEF AgreeInv
<1>6. ASSUME NEW c \in Conns, ServerClose(c) PROVE AgreeInv'
  <2>1. /\ peer' = [peer EXCEPT ![c] = "closed"]
        /\ newest' = newest
        /\ asks' = [asks EXCEPT ![c] = <<>>]
        /\ sub' = [sub EXCEPT ![c] = [t \in Tracks |-> NoSub]]
    BY <1>6 DEF ServerClose, Freed
  <2> QED BY <1>0, <2>1 DEF AgreeInv
<1>7. CASE Tick
  BY <1>1, <1>7 DEF Tick, subscriber
<1>8. ASSUME NEW c \in Conns, ClientCreate(c) \/ ClientClose(c) \/ FramesStep(c)
      PROVE  AgreeInv'
  BY <1>1, <1>8 DEF ClientCreate, ClientClose, FramesStep, SendFrames,
                    subscriber, publisher
<1>9. CASE LoopStops \/ UNCHANGED vars
  BY <1>1, <1>9 DEF LoopStops, vars, subscriber, publisher
<1> QED BY <1>2, <1>3, <1>4, <1>5, <1>6, <1>7, <1>8, <1>9
        DEF Next, ClientStep, PeerStep

\* Once the client's SUBSCRIBE messages have arrived, the peer sends with
\* the identifier the client used last for each track, however often the
\* client subscribed and whichever attempts failed (on_catalog,
\* on_session_setup, on_subscribe).
THEOREM SubscriptionsMeet == Spec => []SubscriptionsAgree
<1>1. Init => AgreeInv
  BY DEF Init, AgreeInv
<1>2. TypeOK /\ AgreeInv => SubscriptionsAgree
  <2> SUFFICES ASSUME TypeOK, AgreeInv, NEW c \in Conns,
                      peer[c] = "ready", asks[c] = <<>>
               PROVE  sub[c] = newest[c]
    BY DEF SubscriptionsAgree
  <2>1. \A t \in Tracks : sub[c][t] = newest[c][t]
    BY DEF AgreeInv, Settling, NoneFor
  <2>2. sub[c] \in [Tracks -> Nat] /\ newest[c] \in [Tracks -> Nat]
    BY DEF TypeOK
  <2> QED BY <2>1, <2>2
<1> QED BY <1>1, <1>2, TypesKept, AgreeStep, PTL DEF Spec
=============================================================================
