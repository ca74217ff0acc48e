--------------------------- MODULE MC_Signaling ---------------------------
(* The signalling server with a few connections, each a model value.        *)
EXTENDS Signaling, TLC

CONSTANTS t1, t2, w1

TwoTcpConns == {t1, t2}
OneWsConn == {w1}
MixedConns == TwoTcpConns \cup OneWsConn

\* The WebSocket client repeats itself, so that its order shows.
TwoLinesFromWs == [c \in MixedConns |-> IF c = w1 THEN 2 ELSE 1]

OnlyWsSpeaks == [c \in MixedConns |-> IF c = w1 THEN 1 ELSE 0]

NobodySpeaks == [c \in MixedConns |-> 0]

NoLines == [c \in TwoTcpConns |-> 0]

\* TCP connections are interchangeable, and so are identifiers; used with
\* safety properties only.
Symmetry == Permutations(TcpConns) \cup Permutations(RoomIds)
=============================================================================
