----------------------------- MODULE MoqPublisher -----------------------------
(***************************************************************************)
(* Media over QUIC between the peer, which publishes (src/src/peer/main.c, *)
(* 188-437), and its subscribers (src/src/client/main.c, 224-317).  All of *)
(* the peer's callbacks run on its main thread, between two calls of       *)
(* peer_send_frames_if_due, and so does one client's: a callback is a      *)
(* step.  The peer keeps a session for every QUIC connection, but sends    *)
(* frames to one only, ice_ctx->app_ctx.                                   *)
(*                                                                         *)
(* QUIC is external: SUBSCRIBE messages of a connection arrive in order    *)
(* until the connection ends, and the two ends may learn of the end one    *)
(* after the other; a write of a frame may fail.  Time is relative: what   *)
(* is kept of next_frame_us is how far it lies ahead of now.               *)
(*                                                                         *)
(* There is a connection only once packets reach the engine, which takes   *)
(* a wakeup pipe that does not block (XquicIce); with the pipe that both   *)
(* programs open, no ServerAccept ever happens.  Either way the peer's     *)
(* main thread may stop running its callbacks for good (LoopStops).        *)
(***************************************************************************)
EXTENDS Integers, Sequences

CONSTANTS
  MaxConns,      \* bound: QUIC connections the peer is offered
  MaxCatalogs,   \* bound: catalogs that reach the clients
  MaxKeysLost,   \* bound: key frames in a row that cannot be written
  KeyInterval,   \* every so many video frames one is a key frame (30)
  Interval       \* ticks between two frames (33 ms)

ASSUME MoqPublisherAssumption ==
  /\ MaxConns \in Nat
  /\ MaxCatalogs \in Nat
  /\ MaxKeysLost \in Nat
  /\ KeyInterval \in Nat \ {0}
  /\ Interval \in Nat \ {0}

VARIABLES
  client,    \* the client's end: "none", "open", "closed"
  catalogs,  \* catalogs delivered so far
  asks,      \* its SUBSCRIBE messages on their way to the peer
  newest,    \* its newest subscription to each track
  running,   \* the peer's main thread is in the loop of p2p_run_peer
  app,       \* ice_ctx->app_ctx
  peer,      \* the peer's end: "none", "accepted", "ready", "closed"
  track,     \* video_track and audio_track, those that are not NULL
  sub,       \* video_subscribe_id and audio_subscribe_id
  seq,       \* video_seq % KeyInterval
  wait,      \* next_frame_us - now, or 0 if that has passed
  latest,    \* history: the connection accepted last
  gap,       \* history: ticks since the last frames, up to Interval
  hurried,   \* history: a subscription arrived since the last frames
  deltas,    \* history: delta frames written since the last key frame was
  keysLost,  \* history: key frames since then that could not be written
  sent       \* history, of app's session: what became of the last frame of a
             \* track, and whether there was one since its last subscription

subscriber == <<client, catalogs, asks, newest>>
publisher == <<running, app, peer, track, sub, seq, wait>>
video == <<deltas, keysLost>>
history == <<latest, gap, hurried, video, sent>>
vars == <<subscriber, publisher, history>>

\* Connections are numbered in the order in which they are opened.
Conns == 1..MaxConns
NoConn == 0
Tracks == {"video", "audio"}
NoSub == 0      \* (uint64_t)-1: identifiers count from 1 here
Ask == [track : Tracks, id : Nat \ {NoSub}]
Fates == {"none", "written", "failed"}
NoFrames == [t \in Tracks |-> "none"]

Init ==
  /\ client = [c \in Conns |-> "none"]
  /\ catalogs = 0
  /\ asks = [c \in Conns |-> <<>>]
  /\ newest = [c \in Conns |-> [t \in Tracks |-> NoSub]]
  /\ running = TRUE
  /\ app = NoConn
  /\ peer = [c \in Conns |-> "none"]
  /\ track = [c \in Conns |-> {}]
  /\ sub = [c \in Conns |-> [t \in Tracks |-> NoSub]]
  /\ seq = [c \in Conns |-> 0]
  /\ wait = [c \in Conns |-> 0]
  /\ latest = NoConn
  /\ gap = [c \in Conns |-> Interval]
  /\ hurried = [c \in Conns |-> FALSE]
  /\ deltas = [c \in Conns |-> KeyInterval - 1]
  /\ keysLost = [c \in Conns |-> 0]
  /\ sent = [c \in Conns |-> NoFrames]

-----------------------------------------------------------------------------
(* The client's end (client/main.c).                                       *)

\* client_conn_create_notify; without a session it refuses the connection.
ClientCreate(c) ==
  /\ client[c] = "none"
  /\ \A d \in 1..(c - 1) : client[d] # "none"
  /\ \E end \in {"open", "closed"} : client' = [client EXCEPT ![c] = end]
  /\ UNCHANGED <<catalogs, asks, newest, publisher, history>>

\* The SUBSCRIBE messages for the tracks in T, video before audio; n is the
\* last identifier used.
Subscriptions(T, n) ==
  LET ask(t, i) == [track |-> t, id |-> i]
  IN  IF T = Tracks THEN <<ask("video", n + 1), ask("audio", n + 2)>>
      ELSE IF T = {"video"} THEN <<ask("video", n + 1)>>
      ELSE IF T = {"audio"} THEN <<ask("audio", n + 1)>>
      ELSE <<>>

\* The newest subscriptions, n before, after the messages in new.
Renewed(n, new) ==
  [t \in Tracks |->
     IF \E i \in DOMAIN new : new[i].track = t
     THEN (CHOOSE a \in {new[i] : i \in DOMAIN new} : a.track = t).id
     ELSE n[t]]

LastId(c) ==
  IF newest[c]["video"] > newest[c]["audio"]
  THEN newest[c]["video"]
  ELSE newest[c]["audio"]

\* on_catalog: every track is subscribed to, again if it was before.  The
\* subscriptions that fail are logged and left alone.  (A catalog that comes
\* when the peer's end is closed asks nobody for anything.)
OnCatalog(c) ==
  /\ client[c] = "open"
  /\ peer[c] = "ready"
  /\ catalogs < MaxCatalogs
  /\ catalogs' = catalogs + 1
  /\ \E T \in SUBSET track[c] :
       LET new == Subscriptions(T, LastId(c))
       IN  /\ asks' = [asks EXCEPT ![c] = @ \o new]
           /\ newest' = [newest EXCEPT ![c] = Renewed(@, new)]
  /\ UNCHANGED <<client, publisher, history>>

\* client_conn_close_notify.
ClientClose(c) ==
  /\ client[c] = "open"
  /\ client' = [client EXCEPT ![c] = "closed"]
  /\ UNCHANGED <<catalogs, asks, newest, publisher, history>>

-----------------------------------------------------------------------------
(* The peer's end (peer/main.c).                                           *)

\* The loop breaks (select() or recv() failed, the signalling server is
\* gone), or its thread sleeps in xquic_ice_clear_wakeup for good.
LoopStops ==
  /\ running
  /\ running' = FALSE
  /\ UNCHANGED <<subscriber, app, peer, track, sub, seq, wait, history>>

\* server_accept: the new session takes over app_ctx.
ServerAccept(c) ==
  /\ client[c] # "none"
  /\ peer[c] = "none"
  /\ peer' = [peer EXCEPT ![c] = "accepted"]
  /\ app' = c
  /\ latest' = c
  /\ sent' = [d \in Conns |-> NoFrames]
  /\ UNCHANGED <<subscriber, track, sub, seq, wait,
                 running, gap, hurried, video>>

\* No memory, or no session: -1, and the connection is no more.
ServerAcceptFails(c) ==
  /\ client[c] # "none"
  /\ peer[c] = "none"
  /\ peer' = [peer EXCEPT ![c] = "closed"]
  /\ UNCHANGED <<subscriber, running, app, track, sub, seq, wait, history>>

\* on_session_setup; a track that cannot be created is NULL.
OnSessionSetup(c) ==
  /\ peer[c] = "accepted"
  /\ peer' = [peer EXCEPT ![c] = "ready"]
  /\ sub' = [sub EXCEPT ![c] = [t \in Tracks |-> NoSub]]
  /\ \E T \in SUBSET Tracks : track' = [track EXCEPT ![c] = T]
  /\ UNCHANGED <<subscriber, running, app, seq, wait, history>>

\* Mutant: a track keeps the subscription it had first.
OnSubscribeOnce(c) ==
  /\ peer[c] = "ready"
  /\ asks[c] # <<>>
  /\ LET ask == Head(asks[c])
     IN  /\ sub' = [sub EXCEPT ![c][ask.track] = IF @ = NoSub THEN ask.id ELSE @]
         /\ sent' = [sent EXCEPT ![c][ask.track] = "none"]
  /\ asks' = [asks EXCEPT ![c] = Tail(@)]
  /\ wait' = [wait EXCEPT ![c] = 0]
  /\ hurried' = [hurried EXCEPT ![c] = TRUE]
  /\ UNCHANGED <<client, catalogs, newest, running, app, peer, track, seq,
                 latest, gap, video>>

\* on_subscribe: the identifier is kept by track, and frames are due now.
\* That SUBSCRIBE_OK cannot be written is logged only.
OnSubscribe(c) ==
  /\ peer[c] = "ready"
  /\ asks[c] # <<>>
  /\ LET ask == Head(asks[c])
     IN  /\ sub' = [sub EXCEPT ![c][ask.track] = ask.id]
         /\ sent' = [sent EXCEPT ![c][ask.track] = "none"]
  /\ asks' = [asks EXCEPT ![c] = Tail(@)]
  /\ wait' = [wait EXCEPT ![c] = 0]
  /\ hurried' = [hurried EXCEPT ![c] = TRUE]
  /\ UNCHANGED <<client, catalogs, newest, running, app, peer, track, seq,
                 latest, gap, video>>

\* free(user_session), and the histories that went with it.
Freed(c) ==
  /\ asks' = [asks EXCEPT ![c] = <<>>]
  /\ track' = [track EXCEPT ![c] = {}]
  /\ sub' = [sub EXCEPT ![c] = [t \in Tracks |-> NoSub]]
  /\ seq' = [seq EXCEPT ![c] = 0]
  /\ wait' = [wait EXCEPT ![c] = 0]
  /\ gap' = [gap EXCEPT ![c] = Interval]
  /\ hurried' = [hurried EXCEPT ![c] = FALSE]
  /\ deltas' = [deltas EXCEPT ![c] = KeyInterval - 1]
  /\ keysLost' = [keysLost EXCEPT ![c] = 0]
  /\ sent' = [sent EXCEPT ![c] = NoFrames]

\* Mutant: app_ctx is kept, whichever session closes.
ServerCloseKeepsApp(c) ==
  /\ peer[c] \in {"accepted", "ready"}
  /\ peer' = [peer EXCEPT ![c] = "closed"]
  /\ app' = app
  /\ Freed(c)
  /\ UNCHANGED <<client, catalogs, newest, running, latest>>

\* server_conn_close_notify: the session is freed, with all its fields; what
\* is still on its way to it is lost.
ServerClose(c) ==
  /\ peer[c] \in {"accepted", "ready"}
  /\ peer' = [peer EXCEPT ![c] = "closed"]
  /\ app' = IF app = c THEN NoConn ELSE app
  /\ Freed(c)
  /\ UNCHANGED <<client, catalogs, newest, running, latest>>

\* Mutant: audio is sent only along with video.
FedWithVideo(c) ==
  {t \in track[c] : sub[c][t] # NoSub /\ sub[c]["video"] # NoSub}

\* The tracks a frame is due for.
Fed(c) == {t \in track[c] : sub[c][t] # NoSub}

\* Mutant: the number is raised before it decides the type.
IsKeyFrameRaised(c) == (seq[c] + 1) % KeyInterval = 0

\* The next video frame of c is a key frame.
IsKeyFrame(c) == seq[c] = 0

\* One video frame, written or not: its number is used up either way, and a
\* key frame that cannot be written is not made up for.  (MaxKeysLost is only
\* the bound of keysLost.)
VideoFrame(c, written) ==
  /\ seq' = [seq EXCEPT ![c] = (@ + 1) % KeyInterval]
  /\ IF IsKeyFrame(c)
     THEN /\ written \/ keysLost[c] < MaxKeysLost
          /\ deltas' = [deltas EXCEPT ![c] = IF written THEN 0 ELSE @]
          /\ keysLost' = [keysLost EXCEPT ![c] = IF written THEN 0 ELSE @ + 1]
     ELSE /\ deltas' = [deltas EXCEPT ![c] = IF written THEN @ + 1 ELSE @]
          /\ UNCHANGED keysLost

\* The frames for Fed(c); those in written are, the writes of the others
\* fail, which nobody looks at.
Frames(c, written) ==
  /\ IF "video" \in Fed(c) THEN VideoFrame(c, "video" \in written)
                           ELSE UNCHANGED <<seq, video>>
  /\ sent' = [sent EXCEPT ![c] =
       [t \in Tracks |-> IF t \notin Fed(c) THEN @[t]
                         ELSE IF t \in written THEN "written" ELSE "failed"]]
  /\ gap' = [gap EXCEPT ![c] = IF written = {} THEN @ ELSE 0]

\* Mutant: whether the frames are due is not looked at.
SendFramesAlways(c, written) ==
  /\ app = c
  /\ wait' = [wait EXCEPT ![c] = Interval]
  /\ Frames(c, written)
  /\ hurried' = [hurried EXCEPT ![c] = FALSE]
  /\ UNCHANGED <<subscriber, running, app, peer, track, sub, latest>>

\* peer_send_frames_if_due, when they are due.
SendFrames(c, written) ==
  /\ app = c
  /\ wait[c] = 0
  /\ wait' = [wait EXCEPT ![c] = Interval]
  /\ Frames(c, written)
  /\ hurried' = [hurried EXCEPT ![c] = FALSE]
  /\ UNCHANGED <<subscriber, running, app, peer, track, sub, latest>>

\* Mutant: the time that is left is a difference, and not compared first.
TickWraps ==
  /\ \E c \in Conns : wait[c] > 0 \/ gap[c] < Interval
  /\ wait' = [c \in Conns |-> wait[c] - 1]
  /\ gap' = [c \in Conns |-> IF gap[c] = Interval THEN Interval ELSE gap[c] + 1]
  /\ UNCHANGED <<subscriber, running, app, peer, track, sub, seq,
                 latest, hurried, video, sent>>

\* Time passes; a frame whose time has come stays due (now >= next_frame_us).
Tick ==
  /\ \E c \in Conns : wait[c] > 0 \/ gap[c] < Interval
  /\ wait' = [c \in Conns |-> IF wait[c] = 0 THEN 0 ELSE wait[c] - 1]
  /\ gap' = [c \in Conns |-> IF gap[c] = Interval THEN Interval ELSE gap[c] + 1]
  /\ UNCHANGED <<subscriber, running, app, peer, track, sub, seq,
                 latest, hurried, video, sent>>

ClientStep(c) == ClientCreate(c) \/ OnCatalog(c) \/ ClientClose(c)

\* post_main_logic runs while the loop does.
FramesStep(c) == running /\ \E written \in SUBSET Fed(c) : SendFrames(c, written)

\* The peer's callbacks, all of which its main thread runs.
PeerStep(c) ==
  /\ running
  /\ \/ ServerAccept(c)
     \/ ServerAcceptFails(c)
     \/ OnSessionSetup(c)
     \/ OnSubscribe(c)
     \/ ServerClose(c)

Next ==
  \/ Tick
  \/ LoopStops
  \/ \E c \in Conns : ClientStep(c) \/ PeerStep(c) \/ FramesStep(c)

Spec == Init /\ [][Next]_vars

\* Time passes, and as long as the loop of p2p_run_peer goes on it calls
\* post_main_logic in every turn.
FairSpec ==
  Spec /\ WF_vars(Tick) /\ \A c \in Conns : WF_vars(FramesStep(c))

-----------------------------------------------------------------------------
TypeOK ==
  /\ client \in [Conns -> {"none", "open", "closed"}]
  /\ catalogs \in 0..MaxCatalogs
  /\ asks \in [Conns -> Seq(Ask)]
  /\ newest \in [Conns -> [Tracks -> Nat]]
  /\ running \in BOOLEAN
  /\ app \in Conns \cup {NoConn}
  /\ peer \in [Conns -> {"none", "accepted", "ready", "closed"}]
  /\ track \in [Conns -> SUBSET Tracks]
  /\ sub \in [Conns -> [Tracks -> Nat]]
  /\ seq \in [Conns -> 0..(KeyInterval - 1)]
  /\ wait \in [Conns -> 0..Interval]
  /\ latest \in Conns \cup {NoConn}
  /\ gap \in [Conns -> 0..Interval]
  /\ hurried \in [Conns -> BOOLEAN]
  /\ deltas \in [Conns -> Nat]
  /\ keysLost \in [Conns -> 0..MaxKeysLost]
  /\ sent \in [Conns -> [Tracks -> Fates]]

\* app_ctx is never a session that was freed, and frames go to the session
\* of the connection accepted last for as long as that one is there, whatever
\* the other connections do.
FramesGoToLatest ==
  IF app = NoConn
  THEN latest = NoConn \/ peer[latest] = "closed"
  ELSE app = latest /\ peer[app] \in {"accepted", "ready"}

\* A subscriber gets no more than KeyInterval - 1 delta frames before its
\* first key frame and between two, and as many intervals more as key frames
\* in a row could not be written, whichever other writes fail and however
\* often the subscriptions change in between.  While no key frame is lost,
\* the first video frame of a session is one.
KeyFrameWithin ==
  \A c \in Conns : deltas[c] < KeyInterval * (1 + keysLost[c])

\* Frames that are written keep their distance of Interval, except that a
\* subscription may bring one forward.
FramesApart ==
  \A c \in Conns : \A written \in SUBSET Fed(c) \ {{}} :
    SendFrames(c, written) => gap[c] = Interval \/ hurried[c]
Paced == [][FramesApart]_vars

\* When the client's messages have arrived, the peer sends with the
\* identifiers of the subscriptions the client made last.
SubscriptionsAgree ==
  \A c \in Conns : peer[c] = "ready" /\ asks[c] = <<>> => sub[c] = newest[c]

\* A subscription is followed by a frame of its track, or by one that could
\* not be written, unless frames now go to another connection, or to none,
\* or the peer's loop has come to an end.
SubscriberServed ==
  \A c \in Conns, t \in Tracks :
    (app = c /\ t \in track[c] /\ sub[c][t] # NoSub) ~>
      (sent[c][t] \in {"written", "failed"} \/ app # c \/ ~running)
=============================================================================
