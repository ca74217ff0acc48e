--------------------------- MODULE MC_SignalCodec ---------------------------
(* Texts made of the symbols that the codec treats apart from others.       *)
EXTENDS SignalCodec, SequencesExt

TextSymbols == {Quote, Backslash, NL, CR, "n", "type"}

\* Line ends, escapes beside each other, what an escape could be taken for.
Pairs == {<<CR, NL>>, <<NL, Quote>>, <<Quote, Quote>>, <<Quote, "n">>,
          <<Backslash, "n">>, <<Backslash, Quote>>, <<"n", Backslash>>}

\* The text ends like a key; it holds a key; it ends in an escape.
LongTexts == {<<"n", Quote, "type">>, <<Quote, "type", Quote>>, <<"n", NL, Quote>>}

Offers == [type : {"offer"}, text : SeqOf(TextSymbols, 1) \cup Pairs \cup LongTexts]

SmallMessages == Offers \cup {[type |-> "gathering_done", text |-> <<>>]}

SmallAlphabet == Marks \cup Types \cup
  {"{", "}", ":", ",", "n", "type", "sdp", "role", "room_id", Room, Role}
=============================================================================
