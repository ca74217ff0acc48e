---------------------------- MODULE SignalCodec ----------------------------
(***************************************************************************)
(* The lines of the signalling protocol: how p2p_signal_send writes them   *)
(* (src/src/common/signal.c), how the receiver cuts its recv() buffers     *)
(* into lines (main() before the role, process_signal_input after it) and  *)
(* what the parser makes of a line.  The parser searches for a key         *)
(* wherever it stands, so text and keys are sequences of the same symbols: *)
(* a letter or mark is a symbol, and so is a whole word.                   *)
(***************************************************************************)
EXTENDS Naturals, Sequences

CONSTANTS
  Symbols,    \* what lines are made of
  Messages,   \* what is sent: records [type, text]
  Room,       \* the room identifier, a word
  Role,       \* the role in the server's role line, a word
  BufSize,    \* P2P_SIGNAL_BUFFER_SIZE
  SdpMax,     \* P2P_JUICE_MAX_SDP_LEN
  Cuts,       \* bound: the numbers of symbols that recv() may return
  MaxSends    \* bound: messages that are sent

Quote == "quote"
Backslash == "backslash"
NL == "newline"
CR == "return"

Marks == {Quote, Backslash, NL, CR}

\* The messages that p2p_run_peer sends and understands.
Types == {"offer", "answer", "candidate", "gathering_done"}

ASSUME SymbolsAssumption ==
  Marks \cup Types \cup {"{", "}", ":", ",", "n", "type", "sdp", "role", "room_id"}
    \cup {Room, Role} \subseteq Symbols

\* A room identifier and a role are words.  A full buffer is never cut: SDP
\* of up to SdpMax symbols, each escaped, fits (4096 and 16384 in the code).
ASSUME SignalCodecAssumption ==
  /\ Room \notin Marks
  /\ Role \in {"peer1", "peer2"}
  /\ Messages \subseteq [type : Types, text : Seq(Symbols)]
  /\ BufSize \in Nat
  /\ SdpMax \in Nat \ {0}
  /\ \A m \in Messages : /\ Len(m.text) < SdpMax
                         /\ 2 * Len(m.text) + 18 <= BufSize
  /\ Cuts \subseteq Nat \ {0}
  /\ MaxSends \in Nat

VARIABLES
  sent,       \* history: the messages sent
  wire,       \* the bytes on their way
  phase,      \* "role": main() waits for the role line; "run": p2p_run_peer
  line,       \* the line buffer
  role,       \* cfg.role
  handled,    \* history: the messages process_signal_input understood
  discarded   \* history: symbols left in main()'s buffer behind the role

receiver == <<phase, line, role, handled, discarded>>
vars == <<sent, wire, receiver>>

-----------------------------------------------------------------------------
(* Writing.                                                                *)

\* Mutant: quotes are not escaped.
EscapeNotQuote(acc, c, limit) ==
  IF Len(acc) >= limit \/ c = CR THEN acc
  ELSE IF c = NL THEN acc \o <<Backslash, "n">>
  ELSE IF c = Backslash THEN acc \o <<Backslash, c>>
  ELSE Append(acc, c)

\* One turn of the loop of p2p_signal_send, which stops at the limit.
EscapeSymbol(acc, c, limit) ==
  IF Len(acc) >= limit \/ c = CR THEN acc
  ELSE IF c = NL THEN acc \o <<Backslash, "n">>
  ELSE IF c \in {Quote, Backslash} THEN acc \o <<Backslash, c>>
  ELSE Append(acc, c)

Escape(text, limit) ==
  LET f[k \in 0..Len(text)] ==
        IF k = 0 THEN <<>> ELSE EscapeSymbol(f[k - 1], text[k], limit)
  IN  f[Len(text)]

Field(key, value) == <<Quote, key, Quote, ":", Quote>> \o value \o <<Quote>>

\* p2p_signal_send: the text is left out if it is empty.
Encode(m) ==
  LET type == <<"{">> \o Field("type", <<m.type>>)
      sdp == Field("sdp", Escape(m.text, BufSize - 4 - (Len(type) + 6)))
  IN  type \o (IF m.text = <<>> THEN <<>> ELSE <<",">> \o sdp) \o <<"}", NL>>

\* The server's role line: json.Marshal sorts the keys of a map.
RoleLine ==
  <<"{">> \o Field("role", <<Role>>) \o <<",">> \o Field("room_id", <<Room>>)
    \o <<",">> \o Field("type", <<"role">>) \o <<"}", NL>>

ASSUME RoleLineAssumption == Len(RoleLine) < BufSize

-----------------------------------------------------------------------------
(* Parsing.                                                                *)

NoText == <<>>

\* Mutant: the last place is taken.
FindLast(s, key) ==
  LET at == {i \in 1..(Len(s) - 2) : SubSeq(s, i, i + 2) = <<Quote, key, Quote>>}
  IN  IF at = {} THEN 0 ELSE CHOOSE i \in at : \A j \in at : i >= j

\* strstr(json, "\"key\""): where it first stands; 0 if it does not.
Find(s, key) ==
  LET at == {i \in 1..(Len(s) - 2) : SubSeq(s, i, i + 2) = <<Quote, key, Quote>>}
  IN  IF at = {} THEN 0 ELSE CHOOSE i \in at : \A j \in at : i <= j

\* Where the value of the key at position k begins, behind the colon (blanks
\* would be skipped, but nobody writes any) and a quotation mark; 0 if none
\* does.
ValueAt(s, k) ==
  LET j == CHOOSE j \in (k + 3)..(Len(s) + 1) :
             /\ j > Len(s) \/ s[j] # ":"
             /\ \A i \in (k + 3)..(j - 1) : s[i] = ":"
  IN  IF k = 0 \/ j > Len(s) \/ s[j] # Quote THEN 0 ELSE j + 1

\* The symbols from position i up to the next quotation mark.
UpToQuote(s, i) ==
  LET j == CHOOSE j \in i..(Len(s) + 1) :
             /\ j > Len(s) \/ s[j] = Quote
             /\ \A h \in i..(j - 1) : s[h] # Quote
  IN  SubSeq(s, i, j - 1)

\* Mutant: one symbol more than the buffer holds beside its end.
CopySymbolTooFar(s, r) ==
  LET escaped(c) == s[r.at] = Backslash /\ r.at < Len(s) /\ s[r.at + 1] = c
  IN  IF r.at > Len(s) \/ Len(r.out) >= SdpMax THEN r
      ELSE IF escaped("n") THEN [at |-> r.at + 2, out |-> Append(r.out, NL)]
      ELSE IF escaped(Quote) THEN [at |-> r.at + 2, out |-> Append(r.out, Quote)]
      ELSE IF s[r.at] = Quote THEN r
      ELSE [at |-> r.at + 1, out |-> Append(r.out, s[r.at])]

\* One turn of the loop that copies a text: \n and \" are undone, \\ is not.
\* It ends at the end of the line or of the buffer, or at a quotation mark.
CopySymbol(s, r) ==
  LET escaped(c) == s[r.at] = Backslash /\ r.at < Len(s) /\ s[r.at + 1] = c
  IN  IF r.at > Len(s) \/ Len(r.out) >= SdpMax - 1 THEN r
      ELSE IF escaped("n") THEN [at |-> r.at + 2, out |-> Append(r.out, NL)]
      ELSE IF escaped(Quote) THEN [at |-> r.at + 2, out |-> Append(r.out, Quote)]
      ELSE IF s[r.at] = Quote THEN r
      ELSE [at |-> r.at + 1, out |-> Append(r.out, s[r.at])]

\* The text from position i on.
Unescape(s, i) ==
  LET f[k \in 0..Len(s)] ==
        IF k = 0 THEN [at |-> i, out |-> <<>>] ELSE CopySymbol(s, f[k - 1])
  IN  f[Len(s)].out

\* p2p_signal_parse_message succeeds ...
Parses(s) == ValueAt(s, Find(s, "type")) # 0

\* ... with this type and this text.
TypeIn(s) == UpToQuote(s, ValueAt(s, Find(s, "type")))
TextIn(s) ==
  LET at == ValueAt(s, Find(s, "sdp")) IN IF at = 0 THEN NoText ELSE Unescape(s, at)

\* p2p_signal_parse_role
RoleIn(s) ==
  LET at == ValueAt(s, Find(s, "role")) IN IF at = 0 THEN NoText ELSE UpToQuote(s, at)

-----------------------------------------------------------------------------
(* Receiving.  A chunk is taken symbol by symbol.                          *)

\* The role loop of main(): every newline ends a line; the one with the role
\* ends the loop, and what follows in the chunk goes nowhere.
TakeBeforeRole(r, c) ==
  IF c \notin {NL, CR} THEN [r EXCEPT !.line = Append(@, c)]
  ELSE IF Parses(r.line) /\ TypeIn(r.line) = <<"role">>
  THEN [r EXCEPT !.line = <<>>, !.role = RoleIn(r.line), !.phase = "found"]
  ELSE [r EXCEPT !.line = <<>>]

\* process_signal_input: a line that is too long loses its end.
Take(r, c) ==
  IF c \notin {NL, CR}
  THEN IF Len(r.line) < BufSize - 1 THEN [r EXCEPT !.line = Append(@, c)] ELSE r
  ELSE IF r.line # <<>> /\ Parses(r.line)
  THEN [r EXCEPT !.line = <<>>,
                 !.handled = Append(@, [type |-> TypeIn(r.line), text |-> TextIn(r.line)])]
  ELSE [r EXCEPT !.line = <<>>]

\* Which of the two is at work; between the role and p2p_run_peer, neither.
TakeSymbol(r, c) ==
  IF r.phase = "role" THEN TakeBeforeRole(r, c)
  ELSE IF r.phase = "found" THEN [r EXCEPT !.discarded = Append(@, c)]
  ELSE Take(r, c)

\* Mutant: every call begins with an empty line buffer.
TakeChunkAlone(r, chunk) ==
  LET f[k \in 0..Len(chunk)] ==
        IF k = 0 THEN [r EXCEPT !.line = IF r.phase = "run" THEN <<>> ELSE @]
        ELSE TakeSymbol(f[k - 1], chunk[k])
  IN  f[Len(chunk)]

TakeChunk(r, chunk) ==
  LET f[k \in 0..Len(chunk)] ==
        IF k = 0 THEN r ELSE TakeSymbol(f[k - 1], chunk[k])
  IN  f[Len(chunk)]

Init ==
  /\ sent = <<>>
  /\ wire = RoleLine
  /\ phase = "role"
  /\ line = <<>>
  /\ role = <<>>
  /\ handled = <<>>
  /\ discarded = <<>>

Send(m) ==
  /\ Len(sent) < MaxSends
  /\ sent' = Append(sent, m)
  /\ wire' = wire \o Encode(m)
  /\ UNCHANGED receiver

\* recv() returns some of the bytes that are there.
Recv(n) ==
  /\ n <= Len(wire)
  /\ LET r == TakeChunk([phase |-> phase, line |-> line, role |-> role,
                         handled |-> handled, discarded |-> discarded],
                        SubSeq(wire, 1, n))
     IN  /\ phase' = IF r.phase = "role" THEN "role" ELSE "run"
         /\ line' = r.line
         /\ role' = r.role
         /\ handled' = r.handled
         /\ discarded' = r.discarded
  /\ wire' = SubSeq(wire, n + 1, Len(wire))
  /\ UNCHANGED sent

Next == (\E m \in Messages : Send(m)) \/ (\E n \in Cuts : Recv(n))

Spec == Init /\ [][Next]_vars

-----------------------------------------------------------------------------
TypeOK ==
  /\ sent \in Seq(Messages)
  /\ phase \in {"role", "run"}
  /\ Len(line) < BufSize
  /\ \A i \in 1..Len(handled) : Len(handled[i].text) < SdpMax

\* What becomes of a text on the way: carriage returns are left out.
Plain(text) ==
  LET f[k \in 0..Len(text)] ==
        IF k = 0 THEN <<>>
        ELSE IF text[k] # CR THEN Append(f[k - 1], text[k])
        ELSE f[k - 1]
  IN  f[Len(text)]

\* What is understood is what was sent.  A text with a backslash arrives
\* altered, because the parser does not undo \\; SDP and candidates have none.
Same(h, m) ==
  /\ h.type = <<m.type>>
  /\ (\A i \in 1..Len(m.text) : m.text[i] # Backslash) => h.text = Plain(m.text)

\* However recv() cuts the stream, quotation marks, newlines and keys in the
\* texts included: the messages understood are those sent, in order and
\* without a gap, from some message on; a line whose beginning was discarded
\* behind the role is never taken for another message.
LinesSurviveChunks ==
  \E k \in 0..Len(sent) :
    /\ k + Len(handled) <= Len(sent)
    /\ \A i \in 1..Len(handled) : Same(handled[i], sent[i + k])
    /\ wire = <<>> /\ phase = "run" => k + Len(handled) = Len(sent)

\* Messages are lost only to the chunk in which the role arrived: each that
\* lies behind it on the wire is understood.
NothingLostAfterRole ==
  wire = <<>> /\ phase = "run" /\ discarded = <<>> => Len(handled) = Len(sent)

\* The role is found, whatever else arrives, and is the one that was sent.
\* (A room called "type" is an exception: the parser takes the name for the
\* key, and the line for one without a type.)
RoleRead ==
  Room # "type" =>
    /\ phase = "run" => role = <<Role>>
    /\ wire = <<>> => phase = "run"
=============================================================================
