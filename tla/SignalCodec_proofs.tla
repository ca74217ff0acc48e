------------------------- MODULE SignalCodec_proofs -------------------------
(***************************************************************************)
(* The lines of the signalling protocol, for texts of any length, any      *)
(* number of messages and any cuts.  The loops of the code are recursive   *)
(* functions of the model; what they compute is proved by induction over   *)
(* sets of numbers, which needs no theorem with an operator parameter.     *)
(***************************************************************************)
EXTENDS SignalCodec, SequenceTheorems, WellFoundedInduction, TLAPS

-----------------------------------------------------------------------------
(* Induction and loops.                                                    *)

LEMMA SetInduction ==
  ASSUME NEW S, 0 \in S, \A n \in Nat : n \in S => n + 1 \in S
  PROVE  Nat \subseteq S
<1> DEFINE R == OpToRel(<, Nat)
           T == Nat \ S
<1>1. SUFFICES ASSUME T # {} PROVE FALSE
  OBVIOUS
<1>2. IsWellFoundedOn(R, Nat)
  BY NatLessThanWellFounded
<1>3. T \subseteq Nat /\ \A x, y \in Nat : y < x => <<y, x>> \in R
  BY DEF OpToRel
<1> HIDE DEF R, T
<1>4. PICK x \in T : \A y \in T : ~ (<<y, x>> \in R)
  BY <1>1, <1>2, <1>3, WFMin
<1>5. x \in Nat /\ x # 0 /\ x \notin S
  BY <1>4 DEF T
<1>6. x - 1 \in Nat /\ x - 1 < x /\ x - 1 + 1 = x
  BY <1>5
<1>7. x - 1 \in S
  BY <1>3, <1>4, <1>5, <1>6 DEF T
<1> QED BY <1>5, <1>6, <1>7

LEMMA LeastExists ==
  ASSUME NEW T, T \subseteq Nat, T # {}
  PROVE  \E x \in T : \A y \in T : x <= y
<1> DEFINE R == OpToRel(<, Nat)
<1>1. IsWellFoundedOn(R, Nat)
  BY NatLessThanWellFounded
<1>2. \A x, y \in Nat : y < x => <<y, x>> \in R
  BY DEF OpToRel
<1> HIDE DEF R
<1>3. PICK x \in T : \A y \in T : ~ (<<y, x>> \in R)
  BY <1>1, WFMin
<1>4. ASSUME NEW y \in T PROVE x <= y
  <2>1. x \in Nat /\ y \in Nat
    OBVIOUS
  <2>2. ~(y < x)
    BY <1>2, <1>3, <2>1
  <2> QED BY <2>1, <2>2
<1> QED BY <1>3, <1>4

\* g is a loop of n turns: turn k makes F[g[k - 1], k] of g[k - 1].
IsLoop(g, X, b, n, F) ==
  /\ g \in [0..n -> X]
  /\ g[0] = b
  /\ \A k \in 1..n : g[k] = F[<<g[k - 1], k>>]

LEMMA LoopExists ==
  ASSUME NEW X, NEW b \in X, NEW n \in Nat, NEW F \in [X \X (1..n) -> X]
  PROVE  \E g : IsLoop(g, X, b, n, F)
<1> DEFINE Good(g, m) == /\ g[0] = b
                         /\ \A k \in 1..m : g[k] = F[<<g[k - 1], k>>]
           S == {m \in Nat : m <= n => \E g \in [0..m -> X] : Good(g, m)}
<1>1. 0 \in S
  <2> DEFINE g == [k \in 0..0 |-> b]
  <2>1. g \in [0..0 -> X] /\ Good(g, 0)
    OBVIOUS
  <2> QED BY <2>1
<1>2. ASSUME NEW m \in Nat, m \in S PROVE m + 1 \in S
  <2> SUFFICES ASSUME m + 1 <= n
               PROVE  \E g \in [0..(m + 1) -> X] : Good(g, m + 1)
    OBVIOUS
  <2>1. PICK g \in [0..m -> X] : Good(g, m)
    BY <1>2
  <2>2. g[m] \in X /\ m + 1 \in 1..n
    BY <2>1
  <2> DEFINE next == F[<<g[m], m + 1>>]
             h == [k \in 0..(m + 1) |-> IF k = m + 1 THEN next ELSE g[k]]
  <2>3. next \in X
    BY <2>2
  <2>4. h \in [0..(m + 1) -> X]
    BY <2>1, <2>3
  <2>5. (\A k \in 0..m : h[k] = g[k]) /\ h[m + 1] = F[<<g[m], m + 1>>]
    OBVIOUS
  <2> HIDE DEF h
  <2>6. Good(h, m + 1)
    <3>1. h[0] = b
      BY <2>1, <2>5
    <3>2. ASSUME NEW k \in 1..(m + 1) PROVE h[k] = F[<<h[k - 1], k>>]
      <4>1. CASE k = m + 1
        BY <2>5, <4>1
      <4>2. CASE k # m + 1
        <5>1. k \in 1..m /\ k \in 0..m /\ k - 1 \in 0..m
          BY <4>2
        <5>2. g[k] = F[<<g[k - 1], k>>]
          BY <2>1, <5>1
        <5> QED BY <2>5, <5>1, <5>2
      <4> QED BY <4>1, <4>2
    <3> QED BY <3>1, <3>2
  <2> QED BY <2>4, <2>6
<1> HIDE DEF S
<1>3. n \in S
  BY <1>1, <1>2, SetInduction
<1> QED BY <1>3 DEF S, IsLoop

\* A function that makes the same turns is that loop.
MakesTurns(f, X, b, n, F) ==
  /\ f[0] = b
  /\ \A k \in 1..n : f[k - 1] \in X => f[k] = F[<<f[k - 1], k>>]

LEMMA LoopIs ==
  ASSUME NEW X, NEW b, NEW n \in Nat, NEW F, NEW g, IsLoop(g, X, b, n, F),
         NEW f, MakesTurns(f, X, b, n, F)
  PROVE  \A k \in 0..n : f[k] = g[k]
<1> DEFINE S == {k \in Nat : k <= n => f[k] = g[k]}
<1>1. 0 \in S
  BY DEF IsLoop, MakesTurns
<1>2. ASSUME NEW k \in Nat, k \in S PROVE k + 1 \in S
  <2> SUFFICES ASSUME k + 1 <= n PROVE f[k + 1] = g[k + 1]
    OBVIOUS
  <2>1. k \in 0..n /\ k + 1 \in 1..n /\ k + 1 - 1 = k /\ f[k] = g[k]
    BY <1>2
  <2>2. g[k] \in X
    BY <2>1 DEF IsLoop
  <2>3. g[k + 1] = F[<<g[k + 1 - 1], k + 1>>]
    BY <2>1 DEF IsLoop
  <2>4. f[k + 1] = F[<<f[k + 1 - 1], k + 1>>]
    BY <2>1, <2>2 DEF MakesTurns
  <2> QED BY <2>1, <2>3, <2>4
<1> HIDE DEF S
<1>3. Nat \subseteq S
  BY <1>1, <1>2, SetInduction
<1> QED BY <1>3 DEF S

-----------------------------------------------------------------------------
(* Writing.                                                                *)

LEMMA EscapeSymbolTyped ==
  ASSUME NEW acc \in Seq(Symbols), NEW c \in Symbols, NEW limit
  PROVE  EscapeSymbol(acc, c, limit) \in Seq(Symbols)
<1>1. Backslash \in Symbols /\ "n" \in Symbols
  BY SymbolsAssumption DEF Marks
<1>2. <<Backslash, "n">> \in Seq(Symbols) /\ <<Backslash, c>> \in Seq(Symbols)
  BY <1>1
<1> QED BY <1>2, ConcatProperties, AppendProperties DEF EscapeSymbol

IsEscape(f, text, limit) ==
  /\ f \in [0..Len(text) -> Seq(Symbols)]
  /\ f[0] = <<>>
  /\ \A k \in 1..Len(text) : f[k] = EscapeSymbol(f[k - 1], text[k], limit)

\* The recursive function of Escape is well defined.
LEMMA EscapeLoop ==
  ASSUME NEW text \in Seq(Symbols), NEW limit
  PROVE  \E f : IsEscape(f, text, limit) /\ Escape(text, limit) = f[Len(text)]
<1> DEFINE n == Len(text)
           X == Seq(Symbols)
           b == <<>>
           F == [p \in X \X (1..n) |-> EscapeSymbol(p[1], text[p[2]], limit)]
           f == CHOOSE f : f = [k \in 0..n |->
                  IF k = 0 THEN b ELSE EscapeSymbol(f[k - 1], text[k], limit)]
<1>0. n \in Nat /\ b \in X
  OBVIOUS
<1>1. ASSUME NEW x \in X, NEW k \in 1..n
      PROVE  EscapeSymbol(x, text[k], limit) \in X
  BY EscapeSymbolTyped
<1>2. Escape(text, limit) = f[n]
  BY DEF Escape
<1> HIDE DEF X, b
<1>3. F \in [X \X (1..n) -> X]
  BY <1>1
<1>4. \A x \in X, k \in 1..n : F[<<x, k>>] = EscapeSymbol(x, text[k], limit)
  OBVIOUS
<1> HIDE DEF F, n
<1>5. PICK g : IsLoop(g, X, b, n, F)
  BY <1>0, <1>3, LoopExists
<1>6. ASSUME NEW k \in 1..n
      PROVE  g[k] = EscapeSymbol(g[k - 1], text[k], limit)
  <2>1. g[k - 1] \in X
    BY <1>0, <1>5 DEF IsLoop
  <2> QED BY <1>4, <1>5, <2>1 DEF IsLoop
<1>7. g = [k \in 0..n |-> IF k = 0 THEN b ELSE EscapeSymbol(g[k - 1], text[k], limit)]
  BY <1>0, <1>5, <1>6 DEF IsLoop
<1>8. f = [k \in 0..n |-> IF k = 0 THEN b ELSE EscapeSymbol(f[k - 1], text[k], limit)]
  BY <1>7
<1> HIDE DEF f
<1>9. f[0] = b /\ \A k \in 1..n : f[k] = EscapeSymbol(f[k - 1], text[k], limit)
  <2>1. f[0] = b
    BY <1>0, <1>8
  <2>2. ASSUME NEW k \in 1..n PROVE f[k] = EscapeSymbol(f[k - 1], text[k], limit)
    <3>1. k \in 0..n /\ k # 0
      BY <1>0
    <3> QED BY <1>8, <3>1
  <2> QED BY <2>1, <2>2
<1>10. \A k \in 0..n : f[k] = g[k]
  <2>1. MakesTurns(f, X, b, n, F)
    BY <1>4, <1>9 DEF MakesTurns
  <2> QED BY <1>0, <1>5, <2>1, LoopIs
<1>11. f = g
  BY <1>7, <1>8, <1>10
<1> QED BY <1>2, <1>5, <1>6, <1>11 DEF IsLoop, IsEscape, X, b, n

LEMMA MarksDiffer ==
  /\ Quote # Backslash /\ Quote # NL /\ Quote # CR /\ Backslash # NL
  /\ Backslash # CR /\ NL # CR
  /\ \A x \in {"{", "}", ":", ",", "n", "type", "sdp", "role", "room_id",
               "peer1", "peer2"} \cup Types : x \notin Marks
BY DEF Quote, Backslash, NL, CR, Marks, Types

\* What the loop appends for one symbol, as long as it is below the limit.
Piece(c) ==
  IF c = CR THEN <<>>
  ELSE IF c = NL THEN <<Backslash, "n">>
  ELSE IF c \in {Quote, Backslash} THEN <<Backslash, c>>
  ELSE <<c>>

LEMMA PieceTyped ==
  ASSUME NEW c \in Symbols
  PROVE  /\ Piece(c) \in Seq(Symbols)
         /\ Len(Piece(c)) <= 2
         /\ c = CR => Len(Piece(c)) = 0
         /\ c = NL => /\ Len(Piece(c)) = 2
                      /\ Piece(c)[1] = Backslash /\ Piece(c)[2] = "n"
         /\ c \in {Quote, Backslash} => /\ Len(Piece(c)) = 2
                                        /\ Piece(c)[1] = Backslash
                                        /\ Piece(c)[2] = c
         /\ c \notin Marks => Len(Piece(c)) = 1 /\ Piece(c)[1] = c
<1>1. Backslash \in Symbols /\ "n" \in Symbols
  BY SymbolsAssumption DEF Marks
<1>2. CASE c = CR
  <2>1. Piece(c) = <<>> /\ c \notin {NL, Quote, Backslash}
    BY <1>2, MarksDiffer DEF Piece
  <2> QED BY <1>2, <2>1 DEF Marks
<1>3. CASE c = NL
  <2>1. Piece(c) = <<Backslash, "n">> /\ c \notin {CR, Quote, Backslash}
    BY <1>3, MarksDiffer DEF Piece
  <2>2. <<Backslash, "n">> \in Seq(Symbols)
    BY <1>1
  <2> QED BY <1>3, <2>1, <2>2 DEF Marks
<1>4. CASE c \in {Quote, Backslash}
  <2>1. Piece(c) = <<Backslash, c>> /\ c \notin {CR, NL}
    BY <1>4, MarksDiffer DEF Piece
  <2>2. <<Backslash, c>> \in Seq(Symbols)
    BY <1>1
  <2> QED BY <1>4, <2>1, <2>2 DEF Marks
<1>5. CASE c \notin Marks
  <2>1. Piece(c) = <<c>>
    BY <1>5 DEF Piece, Marks
  <2>2. <<c>> \in Seq(Symbols)
    OBVIOUS
  <2> QED BY <1>5, <2>1, <2>2 DEF Marks
<1> QED BY <1>2, <1>3, <1>4, <1>5 DEF Marks

LEMMA EscapeAppends ==
  ASSUME NEW acc \in Seq(Symbols), NEW c \in Symbols, NEW limit \in Int,
         Len(acc) < limit
  PROVE  EscapeSymbol(acc, c, limit) = acc \o Piece(c)
<1>1. ~(Len(acc) >= limit)
  OBVIOUS
<1>2. CASE c = CR
  BY <1>2, ConcatEmptySeq DEF EscapeSymbol, Piece
<1>3. CASE c # CR /\ c = NL
  BY <1>1, <1>3 DEF EscapeSymbol, Piece
<1>4. CASE c # CR /\ c # NL /\ c \in {Quote, Backslash}
  BY <1>1, <1>4 DEF EscapeSymbol, Piece
<1>5. CASE c # CR /\ c # NL /\ c \notin {Quote, Backslash}
  BY <1>1, <1>5, AppendIsConcat DEF EscapeSymbol, Piece
<1> QED BY <1>2, <1>3, <1>4, <1>5

\* No line ends, and before each quotation mark a backslash.
Clean(e) ==
  \A i \in 1..Len(e) :
    /\ e[i] \notin {NL, CR}
    /\ e[i] = Quote => i > 1 /\ e[i - 1] = Backslash

LEMMA CleanBefore ==
  ASSUME NEW e \in Seq(Symbols), Clean(e), NEW k \in Nat, NEW j \in 1..Len(e),
         j - 1 = k, e[j] = Quote
  PROVE  e[k] = Backslash
BY DEF Clean

LEMMA CleanGrows ==
  ASSUME NEW acc \in Seq(Symbols), NEW c \in Symbols, Clean(acc)
  PROVE  Clean(acc \o Piece(c))
<1> DEFINE p == Piece(c)  e == acc \o p
<1>1. /\ p \in Seq(Symbols) /\ Len(p) \in Nat /\ Len(p) <= 2 /\ Len(acc) \in Nat
      /\ Len(e) = Len(acc) + Len(p)
      /\ \A i \in 1..Len(acc) + Len(p) :
           e[i] = IF i <= Len(acc) THEN acc[i] ELSE p[i - Len(acc)]
  BY PieceTyped, ConcatProperties
<1>2. \A i \in 1..Len(p) : /\ p[i] \notin {NL, CR}
                           /\ p[i] = Quote => i = 2 /\ p[1] = Backslash
  <2>1. "n" \notin Marks
    BY MarksDiffer
  <2>2. CASE c = CR
    <3>1. Len(p) = 0
      BY <2>2, PieceTyped
    <3> QED BY <3>1
  <2>3. CASE c = NL
    <3>1. Len(p) = 2 /\ p[1] = Backslash /\ p[2] = "n"
      BY <2>3, PieceTyped
    <3>2. \A i \in 1..2 : i = 1 \/ i = 2
      OBVIOUS
    <3> QED BY <2>1, <3>1, <3>2, MarksDiffer DEF Marks
  <2>4. CASE c \in {Quote, Backslash}
    <3>1. Len(p) = 2 /\ p[1] = Backslash /\ p[2] = c
      BY <2>4, PieceTyped
    <3>2. \A i \in 1..2 : i = 1 \/ i = 2
      OBVIOUS
    <3> QED BY <2>4, <3>1, <3>2, MarksDiffer DEF Marks
  <2>5. CASE c \notin Marks
    <3>1. Len(p) = 1 /\ p[1] = c
      BY <2>5, PieceTyped
    <3>2. \A i \in 1..1 : i = 1
      OBVIOUS
    <3> QED BY <2>5, <3>1, <3>2 DEF Marks
  <2> QED BY <2>2, <2>3, <2>4, <2>5 DEF Marks
<1> HIDE DEF p, e
<1>3. ASSUME NEW i \in 1..Len(e)
      PROVE  e[i] \notin {NL, CR} /\ (e[i] = Quote => i > 1 /\ e[i - 1] = Backslash)
  <2>1. CASE i <= Len(acc)
    <3>1. i \in 1..Len(acc) /\ e[i] = acc[i]
      BY <1>1, <2>1
    <3>2. i > 1 => e[i - 1] = acc[i - 1]
      BY <1>1, <2>1
    <3> QED BY <3>1, <3>2 DEF Clean
  <2>2. CASE i > Len(acc)
    <3>1. i - Len(acc) \in 1..Len(p) /\ e[i] = p[i - Len(acc)]
      BY <1>1, <2>2
    <3>2. i - Len(acc) = 2 => i > 1 /\ i - 1 \in 1..Len(acc) + Len(p)
                              /\ ~(i - 1 <= Len(acc)) /\ i - 1 - Len(acc) = 1
      BY <1>1, <3>1
    <3>3. i - Len(acc) = 2 => e[i - 1] = p[1]
      BY <1>1, <3>2
    <3> QED BY <1>2, <3>1, <3>2, <3>3
  <2> QED BY <1>1, <2>1, <2>2
<1> QED BY <1>3 DEF Clean, e, p

\* What holds of the escaped text after each turn.
IsCat(e, a, b) == e = a \o b
Joins(f, text, k) == k > 0 => IsCat(f[k], f[k - 1], Piece(text[k]))

EscapedUpTo(f, text, k) ==
  /\ f[k] \in Seq(Symbols)
  /\ Len(f[k]) <= k + k
  /\ Clean(f[k])
  /\ Joins(f, text, k)

LEMMA EscapeTurns ==
  ASSUME NEW text \in Seq(Symbols), NEW limit \in Int, Len(text) + Len(text) <= limit,
         NEW f, IsEscape(f, text, limit)
  PROVE  \A k \in 0..Len(text) : EscapedUpTo(f, text, k)
<1> DEFINE n == Len(text)
           S == {k \in Nat : k <= n => EscapedUpTo(f, text, k)}
<1>0. n \in Nat /\ f \in [0..n -> Seq(Symbols)] /\ n + n <= limit
  BY DEF IsEscape
<1>1. 0 \in S
  <2>1. f[0] = <<>> /\ f[0] \in Seq(Symbols)
    BY DEF IsEscape
  <2>2. Len(f[0]) = 0
    BY <2>1
  <2>3. Clean(f[0])
    BY <2>2 DEF Clean
  <2>4. Joins(f, text, 0)
    BY DEF Joins
  <2>5. Len(f[0]) <= 0 + 0
    BY <2>2
  <2>6. EscapedUpTo(f, text, 0)
    BY <2>1, <2>3, <2>4, <2>5 DEF EscapedUpTo
  <2> QED BY <2>6
<1>2. ASSUME NEW k \in Nat, k \in S PROVE k + 1 \in S
  <2> SUFFICES ASSUME k + 1 <= n PROVE EscapedUpTo(f, text, k + 1)
    OBVIOUS
  <2>1. /\ k \in 0..n /\ k + 1 \in 0..n /\ k + 1 \in 1..n /\ k + 1 - 1 = k
        /\ text[k + 1] \in Symbols
    BY <1>0
  <2>2. /\ EscapedUpTo(f, text, k)
        /\ f[k + 1] = EscapeSymbol(f[k], text[k + 1], limit)
        /\ f[k] \in Seq(Symbols) /\ f[k + 1] \in Seq(Symbols)
    BY <1>0, <1>2, <2>1 DEF IsEscape
  <2> HIDE DEF n, S
  <2>3. Len(f[k]) \in Nat /\ Len(f[k]) <= k + k
    BY <2>2 DEF EscapedUpTo
  <2>4. Len(f[k]) < limit
    BY <1>0, <2>1, <2>3
  <2>5. f[k + 1] = f[k] \o Piece(text[k + 1])
    BY <2>1, <2>2, <2>4, EscapeAppends
  <2>6. /\ Piece(text[k + 1]) \in Seq(Symbols)
        /\ Len(Piece(text[k + 1])) \in Nat /\ Len(Piece(text[k + 1])) <= 2
    BY <2>1, PieceTyped
  <2>7. Len(f[k + 1]) = Len(f[k]) + Len(Piece(text[k + 1]))
    BY <2>2, <2>5, <2>6, ConcatProperties
  <2>8. Len(f[k + 1]) <= (k + 1) + (k + 1)
    <3>1. \A a, b \in Nat : a <= k + k /\ b <= 2 => a + b <= (k + 1) + (k + 1)
      OBVIOUS
    <3>2. Len(Piece(text[k + 1])) \in Nat /\ Len(Piece(text[k + 1])) <= 2
      BY <2>6
    <3> QED BY <2>3, <2>7, <3>1, <3>2
  <2>9. Clean(f[k + 1])
    BY <2>1, <2>2, <2>5, CleanGrows DEF EscapedUpTo
  <2>10. IsCat(f[k + 1], f[k], Piece(text[k + 1]))
    BY <2>5 DEF IsCat
  <2>11. Joins(f, text, k + 1)
    BY <2>1, <2>10 DEF Joins
  <2> QED BY <2>2, <2>8, <2>9, <2>11 DEF EscapedUpTo
<1> HIDE DEF S
<1>3. Nat \subseteq S
  BY <1>1, <1>2, SetInduction
<1> QED BY <1>3 DEF S

\* What stands in the escaped text after some turns stands there at the end.
Begins(e, a) == Len(a) <= Len(e) /\ \A i \in 1..Len(a) : e[i] = a[i]

LEMMA EscapePrefix ==
  ASSUME NEW text \in Seq(Symbols), NEW f,
         \A k \in 0..Len(text) : EscapedUpTo(f, text, k)
  PROVE  \A t, k \in 0..Len(text) : t <= k => Begins(f[k], f[t])
<1> DEFINE n == Len(text)
<1>0. n \in Nat
  OBVIOUS
<1> SUFFICES ASSUME NEW t \in 0..n PROVE \A k \in 0..n : t <= k => Begins(f[k], f[t])
  OBVIOUS
<1> DEFINE S == {k \in Nat : k <= n /\ t <= k => Begins(f[k], f[t])}
<1>1. \A k \in 0..n : f[k] \in Seq(Symbols) /\ Len(f[k]) \in Nat
  BY DEF EscapedUpTo
<1>2. Begins(f[t], f[t])
  BY <1>1 DEF Begins
<1>3. 0 \in S
  <2>1. t <= 0 => t = 0
    OBVIOUS
  <2> QED BY <1>2, <2>1
<1>4. ASSUME NEW k \in Nat, k \in S PROVE k + 1 \in S
  <2> SUFFICES ASSUME k + 1 <= n, t <= k + 1 PROVE Begins(f[k + 1], f[t])
    OBVIOUS
  <2>1. CASE t = k + 1
    BY <1>2, <2>1
  <2>2. CASE t # k + 1
    <3>1. t <= k /\ k <= n /\ k \in 0..n /\ k + 1 \in 0..n /\ k + 1 \in 1..n
      BY <1>0, <2>2
    <3>2. Begins(f[k], f[t])
      BY <1>4, <3>1
    <3>3. IsCat(f[k + 1], f[k], Piece(text[k + 1]))
      <4>1. EscapedUpTo(f, text, k + 1)
        BY <3>1
      <4>2. k + 1 > 0 /\ k + 1 - 1 = k
        OBVIOUS
      <4> QED BY <4>1, <4>2 DEF EscapedUpTo, Joins
    <3> DEFINE a == f[k]  p == Piece(text[k + 1])
    <3>4. a \in Seq(Symbols) /\ p \in Seq(Symbols) /\ Len(p) \in Nat /\ Len(a) \in Nat
      <4>1. text[k + 1] \in Symbols
        BY <3>1
      <4> QED BY <1>1, <3>1, <4>1, PieceTyped
    <3>5. f[k + 1] = a \o p
      BY <3>3 DEF IsCat
    <3> HIDE DEF a, p
    <3>6. /\ Len(f[k + 1]) = Len(a) + Len(p)
          /\ \A i \in 1..Len(a) : f[k + 1][i] = a[i]
      BY <3>4, <3>5, ConcatProperties
    <3>7. Len(f[t]) \in Nat
      BY <1>1
    <3> QED BY <3>2, <3>4, <3>6, <3>7 DEF Begins, a
  <2> QED BY <2>1, <2>2
<1> HIDE DEF S
<1>5. Nat \subseteq S
  BY <1>3, <1>4, SetInduction
<1> QED BY <1>5 DEF S

\* Where the piece of a symbol stands in the escaped text.
LEMMA PieceStands ==
  ASSUME NEW text \in Seq(Symbols), NEW f,
         \A k \in 0..Len(text) : EscapedUpTo(f, text, k),
         NEW t \in 1..Len(text)
  PROVE  LET e == f[Len(text)]  a == f[t - 1]  p == Piece(text[t])
         IN  /\ Len(f[t]) = Len(a) + Len(p)
             /\ Len(a) + Len(p) <= Len(e)
             /\ \A i \in 1..Len(p) : e[Len(a) + i] = p[i]
<1> DEFINE n == Len(text)  e == f[n]  a == f[t - 1]  p == Piece(text[t])
<1>1. n \in Nat /\ t - 1 \in 0..n /\ t \in 0..n /\ n \in 0..n /\ t <= n /\ t > 0
  OBVIOUS
<1>2. Begins(e, f[t])
  BY <1>1, EscapePrefix
<1>3. IsCat(f[t], a, p)
  <2>1. EscapedUpTo(f, text, t)
    BY <1>1
  <2> QED BY <1>1, <2>1 DEF EscapedUpTo, Joins
<1>4. a \in Seq(Symbols) /\ e \in Seq(Symbols) /\ Len(a) \in Nat
  BY <1>1 DEF EscapedUpTo
<1>5. p \in Seq(Symbols) /\ Len(p) \in Nat
  BY PieceTyped
<1>6. f[t] = a \o p
  BY <1>3 DEF IsCat
<1> HIDE DEF e, a, p
<1>7. /\ Len(f[t]) = Len(a) + Len(p)
      /\ \A i \in 1..Len(p) : f[t][Len(a) + i] = p[i]
  BY <1>4, <1>5, <1>6, ConcatProperties
<1>8. \A i \in 1..Len(p) : Len(a) + i \in 1..Len(f[t])
  BY <1>4, <1>5, <1>7
<1> QED BY <1>2, <1>7, <1>8 DEF Begins, e, a, p

\* Names for the literals, which the provers then take for plain values.
Open == "{"
Close == "}"
Colon == ":"
Comma == ","
TypeKey == "type"
SdpKey == "sdp"
RoleKey == "role"
RoomKey == "room_id"

LEMMA LiteralsTyped ==
  /\ Open \in Symbols /\ Close \in Symbols /\ Colon \in Symbols
  /\ Comma \in Symbols /\ TypeKey \in Symbols /\ SdpKey \in Symbols
  /\ RoleKey \in Symbols /\ RoomKey \in Symbols /\ Role \in Symbols
  /\ Room \in Symbols /\ Quote \in Symbols /\ Backslash \in Symbols
  /\ NL \in Symbols /\ CR \in Symbols
BY SymbolsAssumption
   DEF Marks, Open, Close, Colon, Comma, TypeKey, SdpKey, RoleKey, RoomKey

\* s is a and then b.
Glued(s, a, b) ==
  /\ s \in Seq(Symbols)
  /\ Len(s) = Len(a) + Len(b)
  /\ \A i \in 1..Len(a) : s[i] = a[i]
  /\ \A i \in 1..Len(b) : s[Len(a) + i] = b[i]

LEMMA GluedIs ==
  ASSUME NEW a \in Seq(Symbols), NEW b \in Seq(Symbols)
  PROVE  Glued(a \o b, a, b)
<1> DEFINE s == a \o b
<1>1. /\ s \in Seq(Symbols) /\ Len(s) = Len(a) + Len(b)
      /\ Len(a) \in Nat /\ Len(b) \in Nat
      /\ \A i \in 1..Len(a) + Len(b) :
           s[i] = IF i <= Len(a) THEN a[i] ELSE b[i - Len(a)]
  BY ConcatProperties
<1> HIDE DEF s
<1>2. \A i \in 1..Len(a) : s[i] = a[i]
  BY <1>1
<1>3. ASSUME NEW i \in 1..Len(b) PROVE s[Len(a) + i] = b[i]
  <2>1. /\ Len(a) + i \in 1..Len(a) + Len(b)
        /\ ~(Len(a) + i <= Len(a)) /\ Len(a) + i - Len(a) = i
    BY <1>1
  <2> QED BY <1>1, <2>1
<1> QED BY <1>1, <1>2, <1>3 DEF Glued, s

LEMMA FieldShape ==
  ASSUME NEW key \in Symbols, NEW value \in Seq(Symbols)
  PROVE  LET s == Field(key, value)
         IN  /\ s \in Seq(Symbols)
             /\ Len(value) \in Nat
             /\ Len(s) = 6 + Len(value)
             /\ s[1] = Quote /\ s[2] = key /\ s[3] = Quote /\ s[4] = Colon
             /\ s[5] = Quote
             /\ \A i \in 1..Len(value) : s[5 + i] = value[i]
             /\ s[6 + Len(value)] = Quote
<1> DEFINE a == <<Quote, key, Quote, Colon, Quote>>  b == <<Quote>>  c == a \o value
           s == Field(key, value)
<1>1. Quote \in Symbols /\ Colon \in Symbols
  BY LiteralsTyped
<1>2. /\ a \in Seq(Symbols) /\ Len(a) = 5 /\ a[1] = Quote /\ a[2] = key
      /\ a[3] = Quote /\ a[4] = Colon /\ a[5] = Quote
  BY <1>1
<1>3. b \in Seq(Symbols) /\ Len(b) = 1 /\ b[1] = Quote
  BY <1>1
<1>4. s = c \o b
  BY DEF Field, Colon
<1>5. Len(value) \in Nat
  OBVIOUS
<1> HIDE DEF a, b
<1>6. Glued(c, a, value)
  BY <1>2, GluedIs
<1>7. c \in Seq(Symbols)
  BY <1>6 DEF Glued
<1> HIDE DEF c, s
<1>8. Glued(s, c, b)
  BY <1>3, <1>4, <1>7, GluedIs
<1>9. /\ c[1] = Quote /\ c[2] = key /\ c[3] = Quote /\ c[4] = Colon /\ c[5] = Quote
      /\ Len(c) = 5 + Len(value)
      /\ \A i \in 1..Len(value) : c[5 + i] = value[i]
  BY <1>2, <1>5, <1>6 DEF Glued
<1>10. s \in Seq(Symbols) /\ Len(s) = 6 + Len(value)
  BY <1>3, <1>5, <1>8, <1>9 DEF Glued
<1>11. \A i \in 1..(5 + Len(value)) : s[i] = c[i]
  BY <1>8, <1>9 DEF Glued
<1>12. s[6 + Len(value)] = Quote
  <2>1. Len(c) + 1 = 6 + Len(value) /\ 1 \in 1..Len(b)
    BY <1>3, <1>5, <1>9
  <2> QED BY <1>3, <1>8, <2>1 DEF Glued
<1>13. /\ s[1] = Quote /\ s[2] = key /\ s[3] = Quote /\ s[4] = Colon /\ s[5] = Quote
       /\ \A i \in 1..Len(value) : s[5 + i] = value[i]
  BY <1>5, <1>9, <1>11
<1> QED BY <1>5, <1>10, <1>12, <1>13 DEF s

\* The field of a single word.
IsWordField(s, key, word) ==
  /\ s \in Seq(Symbols) /\ Len(s) = 7
  /\ s[1] = Quote /\ s[2] = key /\ s[3] = Quote /\ s[4] = Colon
  /\ s[5] = Quote /\ s[6] = word /\ s[7] = Quote

LEMMA WordFieldShape ==
  ASSUME NEW key \in Symbols, NEW word \in Symbols
  PROVE  IsWordField(Field(key, <<word>>), key, word)
<1> DEFINE o == <<word>>  t == Field(key, o)
<1>1. o \in Seq(Symbols) /\ Len(o) = 1 /\ o[1] = word /\ 1 \in 1..1
  OBVIOUS
<1> HIDE DEF o
<1>2. /\ t \in Seq(Symbols) /\ Len(t) = 6 + Len(o)
      /\ t[1] = Quote /\ t[2] = key /\ t[3] = Quote /\ t[4] = Colon
      /\ t[5] = Quote
      /\ \A i \in 1..Len(o) : t[5 + i] = o[i]
      /\ t[6 + Len(o)] = Quote
  BY <1>1, FieldShape
<1> HIDE DEF t
<1>3. IsWordField(t, key, word)
  BY <1>1, <1>2 DEF IsWordField
<1> QED BY <1>3 DEF t, o

LEMMA MessageTyped ==
  ASSUME NEW m \in Messages
  PROVE  /\ m.type \in Types /\ m.type \in Symbols
         /\ m.text \in Seq(Symbols) /\ Len(m.text) \in Nat
         /\ BufSize \in Nat
         /\ Len(m.text) + Len(m.text) + 18 <= BufSize
<1>1. m \in [type : Types, text : Seq(Symbols)] /\ BufSize \in Nat
      /\ 2 * Len(m.text) + 18 <= BufSize
  BY SignalCodecAssumption
<1>2. m.type \in Types /\ m.text \in Seq(Symbols)
  BY <1>1
<1>3. Len(m.text) \in Nat
  BY <1>2
<1>4. \A l \in Nat : 2 * l + 18 <= BufSize => l + l + 18 <= BufSize
  BY <1>1
<1>5. Types \subseteq Symbols
  BY SymbolsAssumption
<1> QED BY <1>1, <1>2, <1>3, <1>4, <1>5

\* The text of m as it is written.
Written(m) == Escape(m.text, BufSize - 18)

LEMMA WrittenBy ==
  ASSUME NEW m \in Messages
  PROVE  \E f : /\ IsEscape(f, m.text, BufSize - 18)
                /\ Written(m) = f[Len(m.text)]
                /\ \A k \in 0..Len(m.text) : EscapedUpTo(f, m.text, k)
<1>1. /\ m.text \in Seq(Symbols) /\ Len(m.text) \in Nat /\ BufSize - 18 \in Int
      /\ Len(m.text) + Len(m.text) <= BufSize - 18
  BY MessageTyped
<1>2. PICK f : /\ IsEscape(f, m.text, BufSize - 18)
               /\ Escape(m.text, BufSize - 18) = f[Len(m.text)]
  BY <1>1, EscapeLoop
<1>3. \A k \in 0..Len(m.text) : EscapedUpTo(f, m.text, k)
  BY <1>1, <1>2, EscapeTurns
<1> QED BY <1>2, <1>3 DEF Written

LEMMA WrittenTyped ==
  ASSUME NEW m \in Messages
  PROVE  /\ Written(m) \in Seq(Symbols) /\ Len(Written(m)) \in Nat
         /\ Len(Written(m)) <= Len(m.text) + Len(m.text)
         /\ Clean(Written(m))
<1>1. PICK f : /\ Written(m) = f[Len(m.text)]
               /\ \A k \in 0..Len(m.text) : EscapedUpTo(f, m.text, k)
  BY WrittenBy
<1>2. Len(m.text) \in 0..Len(m.text)
  BY MessageTyped
<1>3. EscapedUpTo(f, m.text, Len(m.text))
  BY <1>1, <1>2
<1> QED BY <1>1, <1>3 DEF EscapedUpTo

\* The beginning of a line that names its type first.
Headed(s, type) ==
  /\ s[1] = Open /\ s[2] = Quote /\ s[3] = TypeKey /\ s[4] = Quote
  /\ s[5] = Colon /\ s[6] = Quote /\ s[7] = type /\ s[8] = Quote

\* A line that carries the escaped text e, or none.
LineWithout(s) == Len(s) = 10 /\ s[9] = Close /\ s[10] = NL
LineWith(s, e) ==
  /\ Len(s) = 17 + Len(e)
  /\ s[9] = Comma /\ s[10] = Quote /\ s[11] = SdpKey /\ s[12] = Quote
  /\ s[13] = Colon /\ s[14] = Quote
  /\ \A i \in 1..Len(e) : s[14 + i] = e[i]
  /\ s[15 + Len(e)] = Quote /\ s[16 + Len(e)] = Close /\ s[17 + Len(e)] = NL

LEMMA EncodeShape ==
  ASSUME NEW m \in Messages
  PROVE  /\ Encode(m) \in Seq(Symbols)
         /\ Headed(Encode(m), m.type)
         /\ m.text = <<>> => LineWithout(Encode(m))
         /\ m.text # <<>> => LineWith(Encode(m), Written(m))
<1> DEFINE b == <<Open>>  t == Field(TypeKey, <<m.type>>)  h == b \o t
           e == Written(m)  v == Field(SdpKey, e)  z == <<Close, NL>>
           w == <<Comma>>  x == w \o v  y == IF m.text = <<>> THEN <<>> ELSE x
           q == h \o y  s == Encode(m)
<1>1. /\ Open \in Symbols /\ Close \in Symbols /\ Comma \in Symbols
      /\ NL \in Symbols /\ TypeKey \in Symbols /\ SdpKey \in Symbols
  BY LiteralsTyped
<1>2. m.type \in Symbols /\ <<m.type>> \in Seq(Symbols) /\ Len(<<m.type>>) = 1
      /\ <<m.type>>[1] = m.type
  BY MessageTyped
<1>3. b \in Seq(Symbols) /\ Len(b) = 1 /\ b[1] = Open
  BY <1>1
<1>4. w \in Seq(Symbols) /\ Len(w) = 1 /\ w[1] = Comma
  BY <1>1
<1>5. z \in Seq(Symbols) /\ Len(z) = 2 /\ z[1] = Close /\ z[2] = NL
  BY <1>1
<1>6. IsWordField(t, TypeKey, m.type)
  BY <1>1, <1>2, WordFieldShape
<1>7. /\ e \in Seq(Symbols) /\ Len(e) \in Nat
  BY WrittenTyped
<1>8. /\ v \in Seq(Symbols)
      /\ Len(v) = 6 + Len(e)
      /\ v[1] = Quote /\ v[2] = SdpKey /\ v[3] = Quote /\ v[4] = Colon
      /\ v[5] = Quote
      /\ \A i \in 1..Len(e) : v[5 + i] = e[i]
      /\ v[6 + Len(e)] = Quote
  BY <1>1, <1>7, FieldShape
<1> HIDE DEF b, t, w, z, e
<1>9. Glued(h, b, t)
  BY <1>3, <1>6, GluedIs DEF IsWordField
<1> HIDE DEF v
<1>10. Glued(x, w, v)
  BY <1>4, <1>8, GluedIs
<1> HIDE DEF h, x
<1>11. /\ h \in Seq(Symbols) /\ Len(h) = 8 /\ Headed(h, m.type)
  BY <1>3, <1>6, <1>9 DEF Glued, Headed, IsWordField
<1>12. s = q \o z
  <2>1. Len(h) + 6 = 14 /\ BufSize - 4 - (Len(h) + 6) = BufSize - 18
    BY <1>11, MessageTyped
  <2> QED BY <2>1
              DEF Encode, y, h, b, t, e, v, w, x, z, Written,
                  Open, Close, Comma, TypeKey, SdpKey
<1>13. y \in Seq(Symbols)
  BY <1>10 DEF Glued
<1> HIDE DEF s, y
<1>14. Glued(q, h, y)
  BY <1>11, <1>13, GluedIs
<1>15. q \in Seq(Symbols)
  BY <1>14 DEF Glued
<1> HIDE DEF q
<1>16. Glued(s, q, z)
  BY <1>5, <1>12, <1>15, GluedIs
<1>17. s \in Seq(Symbols) /\ Headed(s, m.type)
  <2>1. Len(y) \in Nat
    BY <1>13
  <2>2. \A i \in 1..8 : q[i] = h[i]
    BY <1>11, <1>14 DEF Glued
  <2>3. \A i \in 1..8 : i \in 1..Len(q)
    BY <1>11, <1>14, <2>1 DEF Glued
  <2>4. \A i \in 1..8 : s[i] = h[i]
    BY <1>16, <2>2, <2>3 DEF Glued
  <2> QED BY <1>11, <1>16, <2>4 DEF Glued, Headed
<1>18. ASSUME m.text = <<>> PROVE LineWithout(s)
  <2>1. Len(y) = 0
    BY <1>18 DEF y
  <2>2. Len(q) = 8
    BY <1>11, <1>14, <2>1 DEF Glued
  <2> QED BY <1>5, <1>16, <2>2 DEF Glued, LineWithout
<1>19. ASSUME m.text # <<>> PROVE LineWith(s, e)
  <2>1. y = x
    BY <1>19 DEF y
  <2>2. /\ Len(x) = 7 + Len(e)
        /\ x[1] = Comma /\ x[2] = Quote /\ x[3] = SdpKey /\ x[4] = Quote
        /\ x[5] = Colon /\ x[6] = Quote
        /\ \A i \in 1..Len(e) : x[6 + i] = e[i]
        /\ x[7 + Len(e)] = Quote
    <3>1. Len(x) = 7 + Len(e) /\ x[1] = Comma
      BY <1>4, <1>7, <1>8, <1>10 DEF Glued
    <3>2. \A i \in 1..(6 + Len(e)) : x[1 + i] = v[i]
      BY <1>4, <1>8, <1>10 DEF Glued
    <3>3. x[2] = v[1] /\ x[3] = v[2] /\ x[4] = v[3] /\ x[5] = v[4] /\ x[6] = v[5]
      BY <1>7, <3>2
    <3>4. x[7 + Len(e)] = v[6 + Len(e)]
      <4>1. 6 + Len(e) \in 1..(6 + Len(e)) /\ 1 + (6 + Len(e)) = 7 + Len(e)
        BY <1>7
      <4> QED BY <3>2, <4>1
    <3>5. ASSUME NEW i \in 1..Len(e) PROVE x[6 + i] = e[i]
      <4>1. 5 + i \in 1..(6 + Len(e)) /\ 1 + (5 + i) = 6 + i
        BY <1>7
      <4>2. x[6 + i] = v[5 + i]
        BY <3>2, <4>1
      <4> QED BY <1>8, <4>2
    <3> QED BY <1>8, <3>1, <3>3, <3>4, <3>5
  <2>3. Len(q) = 15 + Len(e)
    BY <1>7, <1>11, <1>14, <2>1, <2>2 DEF Glued
  <2>4. \A i \in 1..(7 + Len(e)) : s[8 + i] = x[i]
    <3>1. \A i \in 1..(7 + Len(e)) : q[8 + i] = x[i]
      BY <1>11, <1>14, <2>1, <2>2 DEF Glued
    <3>2. \A i \in 1..(7 + Len(e)) : 8 + i \in 1..Len(q)
      BY <1>7, <2>3
    <3> QED BY <1>16, <3>1, <3>2 DEF Glued
  <2>5. /\ s[9] = x[1] /\ s[10] = x[2] /\ s[11] = x[3] /\ s[12] = x[4]
        /\ s[13] = x[5] /\ s[14] = x[6]
    BY <1>7, <2>4
  <2>6. s[15 + Len(e)] = x[7 + Len(e)]
    <3>1. 7 + Len(e) \in 1..(7 + Len(e)) /\ 8 + (7 + Len(e)) = 15 + Len(e)
      BY <1>7
    <3> QED BY <2>4, <3>1
  <2>7. ASSUME NEW i \in 1..Len(e) PROVE s[14 + i] = e[i]
    <3>1. 6 + i \in 1..(7 + Len(e)) /\ 8 + (6 + i) = 14 + i
      BY <1>7
    <3>2. s[14 + i] = x[6 + i]
      BY <2>4, <3>1
    <3> QED BY <2>2, <3>2
  <2>8. Len(s) = 17 + Len(e) /\ s[16 + Len(e)] = Close /\ s[17 + Len(e)] = NL
    <3>1. 15 + Len(e) + 1 = 16 + Len(e) /\ 15 + Len(e) + 2 = 17 + Len(e)
      BY <1>7
    <3>2. s[Len(q) + 1] = z[1] /\ s[Len(q) + 2] = z[2] /\ Len(s) = Len(q) + 2
      BY <1>5, <1>16 DEF Glued
    <3> QED BY <1>5, <2>3, <3>1, <3>2
  <2> QED BY <2>2, <2>5, <2>6, <2>7, <2>8 DEF LineWith
<1> QED BY <1>17, <1>18, <1>19 DEF s, e

RoleLineShaped(s) ==
  /\ s \in Seq(Symbols) /\ Len(s) = 26
  /\ s[1] = Open /\ s[2] = Quote /\ s[3] = RoleKey /\ s[4] = Quote
  /\ s[5] = Colon /\ s[6] = Quote /\ s[7] = Role /\ s[8] = Quote /\ s[9] = Comma
  /\ s[10] = Quote /\ s[11] = RoomKey /\ s[12] = Quote
  /\ s[13] = Colon /\ s[14] = Quote /\ s[15] = Room /\ s[16] = Quote /\ s[17] = Comma
  /\ s[18] = Quote /\ s[19] = TypeKey /\ s[20] = Quote
  /\ s[21] = Colon /\ s[22] = Quote /\ s[23] = RoleKey /\ s[24] = Quote
  /\ s[25] = Close /\ s[26] = NL

LEMMA RoleLineShape == RoleLineShaped(RoleLine)
<1> DEFINE a == <<Open>>  c == <<Comma>>  z == <<Close, NL>>
           f == Field(RoleKey, <<Role>>)  g == Field(RoomKey, <<Room>>)
           h == Field(TypeKey, <<RoleKey>>)
           s1 == a \o f  s2 == s1 \o c  s3 == s2 \o g  s4 == s3 \o c  s5 == s4 \o h
           s == s5 \o z
<1>1. /\ a \in Seq(Symbols) /\ Len(a) = 1 /\ a[1] = Open
      /\ c \in Seq(Symbols) /\ Len(c) = 1 /\ c[1] = Comma
  BY LiteralsTyped
<1>2. z \in Seq(Symbols) /\ Len(z) = 2 /\ z[1] = Close /\ z[2] = NL
  BY LiteralsTyped
<1>3. IsWordField(f, RoleKey, Role)
  BY LiteralsTyped, WordFieldShape
<1>4. IsWordField(g, RoomKey, Room)
  BY LiteralsTyped, WordFieldShape
<1>5. IsWordField(h, TypeKey, RoleKey)
  BY LiteralsTyped, WordFieldShape
<1>6. RoleLine = s
  BY DEF RoleLine, Open, Comma, Close, RoleKey, RoomKey, TypeKey
<1> HIDE DEF a, c, z, f, g, h
<1>7. Glued(s1, a, f)
  BY <1>1, <1>3, GluedIs DEF IsWordField
<1> HIDE DEF s1
<1>8. Glued(s2, s1, c)
  BY <1>1, <1>7, GluedIs DEF Glued
<1> HIDE DEF s2
<1>9. Glued(s3, s2, g)
  <2>1. s2 \in Seq(Symbols) /\ g \in Seq(Symbols)
    BY <1>4, <1>8 DEF Glued, IsWordField
  <2> QED BY <2>1, GluedIs
<1> HIDE DEF s3
<1>10. Glued(s4, s3, c)
  <2>1. s3 \in Seq(Symbols)
    BY <1>9 DEF Glued
  <2> QED BY <1>1, <2>1, GluedIs
<1> HIDE DEF s4
<1>11. Glued(s5, s4, h)
  <2>1. s4 \in Seq(Symbols) /\ h \in Seq(Symbols)
    BY <1>5, <1>10 DEF Glued, IsWordField
  <2> QED BY <2>1, GluedIs
<1> HIDE DEF s5
<1>12. Glued(s, s5, z)
  <2>1. s5 \in Seq(Symbols)
    BY <1>11 DEF Glued
  <2> QED BY <1>2, <2>1, GluedIs
<1> HIDE DEF s
<1>13. /\ Len(s1) = 8 /\ s1[1] = Open /\ \A i \in 1..7 : s1[1 + i] = f[i]
  BY <1>1, <1>3, <1>7 DEF Glued, IsWordField
<1>14. /\ Len(s2) = 9 /\ s2[9] = Comma /\ \A i \in 1..8 : s2[i] = s1[i]
  BY <1>1, <1>8, <1>13 DEF Glued
<1>15. /\ Len(s3) = 16 /\ \A i \in 1..9 : s3[i] = s2[i]
       /\ \A i \in 1..7 : s3[9 + i] = g[i]
  BY <1>4, <1>9, <1>14 DEF Glued, IsWordField
<1>16. /\ Len(s4) = 17 /\ s4[17] = Comma /\ \A i \in 1..16 : s4[i] = s3[i]
  BY <1>1, <1>10, <1>15 DEF Glued
<1>17. /\ Len(s5) = 24 /\ \A i \in 1..17 : s5[i] = s4[i]
       /\ \A i \in 1..7 : s5[17 + i] = h[i]
  BY <1>5, <1>11, <1>16 DEF Glued, IsWordField
<1>18. /\ s \in Seq(Symbols) /\ Len(s) = 26 /\ s[25] = Close /\ s[26] = NL
       /\ \A i \in 1..24 : s[i] = s5[i]
  BY <1>2, <1>12, <1>17 DEF Glued
<1>19. /\ \A i \in 1..8 : s[i] = s1[i]
       /\ \A i \in 1..9 : s[i] = s2[i]
       /\ \A i \in 1..16 : s[i] = s3[i]
       /\ \A i \in 1..17 : s[i] = s4[i]
  BY <1>14, <1>15, <1>16, <1>17, <1>18
<1>20. /\ s[1] = Open
       /\ s[2] = f[1] /\ s[3] = f[2] /\ s[4] = f[3] /\ s[5] = f[4]
       /\ s[6] = f[5] /\ s[7] = f[6] /\ s[8] = f[7] /\ s[9] = Comma
  BY <1>13, <1>14, <1>19
<1>21. /\ s[10] = g[1] /\ s[11] = g[2] /\ s[12] = g[3] /\ s[13] = g[4]
       /\ s[14] = g[5] /\ s[15] = g[6] /\ s[16] = g[7] /\ s[17] = Comma
  BY <1>15, <1>16, <1>19
<1>22. /\ s[18] = h[1] /\ s[19] = h[2] /\ s[20] = h[3] /\ s[21] = h[4]
       /\ s[22] = h[5] /\ s[23] = h[6] /\ s[24] = h[7]
  BY <1>17, <1>18
<1>23. RoleLineShaped(s)
  BY <1>3, <1>4, <1>5, <1>18, <1>20, <1>21, <1>22 DEF IsWordField, RoleLineShaped
<1> QED BY <1>6, <1>23

-----------------------------------------------------------------------------
(* Parsing.                                                                *)

LEMMA AtomsDiffer ==
  /\ Quote # Backslash /\ Quote # NL /\ Quote # CR /\ Backslash # NL
  /\ Backslash # CR /\ NL # CR
  /\ \A x \in {Open, Close, Colon, Comma, TypeKey, SdpKey, RoleKey, RoomKey}
              \cup Types \cup {Role, Room} : x \notin Marks
  /\ TypeKey \notin {Open, Close, Colon, Comma, SdpKey, RoleKey, RoomKey, Role} \cup Types
  /\ SdpKey \notin {Open, Close, Colon, Comma} \cup Types
  /\ RoleKey \notin {Open, Close, Colon, Comma} \cup Types
  /\ Colon \notin {Quote, Close, Comma}
<1>1. Room \notin Marks /\ Role \in {"peer1", "peer2"}
  BY SignalCodecAssumption
<1>2. \A x \in {Open, Close, Colon, Comma, TypeKey, SdpKey, RoleKey, RoomKey}
               \cup Types \cup {Role} : x \notin Marks
  BY <1>1, MarksDiffer
     DEF Open, Close, Colon, Comma, TypeKey, SdpKey, RoleKey, RoomKey
<1>3. /\ TypeKey \notin {Open, Close, Colon, Comma, SdpKey, RoleKey, RoomKey, Role} \cup Types
      /\ SdpKey \notin {Open, Close, Colon, Comma} \cup Types
      /\ RoleKey \notin {Open, Close, Colon, Comma} \cup Types
      /\ Colon \notin {Quote, Close, Comma}
  BY <1>1 DEF Quote, Open, Close, Colon, Comma, TypeKey, SdpKey, RoleKey, RoomKey, Types
<1> QED BY <1>1, <1>2, <1>3, MarksDiffer

\* The key in quotation marks stands at position i of x.
KeyAt(x, i, key) ==
  i \in 1..(Len(x) - 2) /\ x[i] = Quote /\ x[i + 1] = key /\ x[i + 2] = Quote

LEMMA ThreeSymbols ==
  ASSUME NEW x \in Seq(Symbols), NEW i \in 1..(Len(x) - 2), NEW key
  PROVE  SubSeq(x, i, i + 2) = <<Quote, key, Quote>> <=> KeyAt(x, i, key)
<1> DEFINE u == SubSeq(x, i, i + 2)  v == <<Quote, key, Quote>>
<1>1. Len(x) \in Nat /\ i \in Nat /\ i >= 1 /\ i + 2 <= Len(x)
  OBVIOUS
<1>2. u \in Seq(Symbols) /\ Len(u) = 3 /\ u[1] = x[i] /\ u[2] = x[i + 1] /\ u[3] = x[i + 2]
  <2>1. u = [h \in 1..(i + 2 - i + 1) |-> x[i + h - 1]]
    BY <1>1 DEF SubSeq
  <2>2. i + 2 - i + 1 = 3 /\ i + 1 - 1 = i /\ i + 2 - 1 = i + 1 /\ i + 3 - 1 = i + 2
    BY <1>1
  <2>3. u = [h \in 1..3 |-> x[i + h - 1]]
    BY <2>1, <2>2
  <2>4. \A h \in 1..3 : x[i + h - 1] \in Symbols
    BY <1>1
  <2> HIDE DEF u
  <2>5. u \in Seq(Symbols) /\ Len(u) = 3
    BY <2>3, <2>4
  <2>6. u[1] = x[i + 1 - 1] /\ u[2] = x[i + 2 - 1] /\ u[3] = x[i + 3 - 1]
    BY <2>3
  <2> QED BY <2>2, <2>5, <2>6
<1>3. Len(v) = 3 /\ v[1] = Quote /\ v[2] = key /\ v[3] = Quote
  OBVIOUS
<1>4. v = [h \in 1..3 |-> IF h = 1 THEN Quote ELSE IF h = 2 THEN key ELSE Quote]
  OBVIOUS
<1>5. u = [h \in 1..3 |-> IF h = 1 THEN u[1] ELSE IF h = 2 THEN u[2] ELSE u[3]]
  <2> HIDE DEF u
  <2>1. \A h \in 1..3 : h = 1 \/ h = 2 \/ h = 3
    OBVIOUS
  <2> QED BY <1>2, <2>1
<1> HIDE DEF u, v
<1>6. ASSUME u = v PROVE KeyAt(x, i, key)
  BY <1>2, <1>3, <1>6 DEF KeyAt
<1>7. ASSUME KeyAt(x, i, key) PROVE u = v
  <2>1. u[1] = Quote /\ u[2] = key /\ u[3] = Quote
    BY <1>2, <1>7 DEF KeyAt
  <2> QED BY <1>4, <1>5, <2>1
<1> QED BY <1>6, <1>7 DEF u, v

\* Find: the first place of the key, or 0.
LEMMA FindCases ==
  ASSUME NEW x \in Seq(Symbols), NEW key
  PROVE  \/ /\ Find(x, key) = 0
            /\ \A i \in Nat : ~ KeyAt(x, i, key)
         \/ /\ KeyAt(x, Find(x, key), key)
            /\ \A i \in Nat : KeyAt(x, i, key) => Find(x, key) <= i
<1> DEFINE at == {i \in 1..(Len(x) - 2) : SubSeq(x, i, i + 2) = <<Quote, key, Quote>>}
<1>1. Len(x) \in Nat
  OBVIOUS
<1>2. \A i : i \in at <=> KeyAt(x, i, key)
  <2>1. \A i : i \in at => KeyAt(x, i, key)
    BY ThreeSymbols
  <2>2. \A i : KeyAt(x, i, key) => i \in at
    <3> SUFFICES ASSUME NEW i, KeyAt(x, i, key) PROVE i \in at
      OBVIOUS
    <3>1. i \in 1..(Len(x) - 2)
      BY DEF KeyAt
    <3> QED BY <3>1, ThreeSymbols
  <2> QED BY <2>1, <2>2
<1>3. at \subseteq Nat
  OBVIOUS
<1>4. Find(x, key) = IF at = {} THEN 0 ELSE CHOOSE i \in at : \A j \in at : i <= j
  BY DEF Find
<1> HIDE DEF at
<1>5. CASE at = {}
  BY <1>2, <1>4, <1>5
<1>6. CASE at # {}
  <2>1. \E i \in at : \A j \in at : i <= j
    BY <1>3, <1>6, LeastExists
  <2>2. Find(x, key) \in at /\ \A j \in at : Find(x, key) <= j
    BY <1>4, <1>6, <2>1
  <2> QED BY <1>2, <2>2
<1> QED BY <1>5, <1>6

LEMMA FindIs ==
  ASSUME NEW x \in Seq(Symbols), NEW key, NEW i \in Nat, KeyAt(x, i, key),
         \A h \in 1..(i - 1) : ~ KeyAt(x, h, key)
  PROVE  Find(x, key) = i
<1>1. KeyAt(x, Find(x, key), key) /\ Find(x, key) <= i
  BY FindCases
<1>2. Find(x, key) \in Nat /\ Find(x, key) >= 1
  <2>1. Len(x) \in Nat
    OBVIOUS
  <2> QED BY <1>1, <2>1 DEF KeyAt
<1> QED BY <1>1, <1>2

LEMMA FindNone ==
  ASSUME NEW x \in Seq(Symbols), NEW key, \A i \in Nat : ~ KeyAt(x, i, key)
  PROVE  Find(x, key) = 0
<1>1. KeyAt(x, Find(x, key), key) => Find(x, key) \in Nat
  <2>1. Len(x) \in Nat
    OBVIOUS
  <2> QED BY <2>1 DEF KeyAt
<1> QED BY <1>1, FindCases

\* ValueAt: behind a colon and a quotation mark, and nothing else.
LEMMA ValueAtIs ==
  ASSUME NEW x \in Seq(Symbols), NEW k \in Nat, k > 0, k + 4 <= Len(x),
         x[k + 3] = Colon, x[k + 4] = Quote
  PROVE  ValueAt(x, k) = k + 5
<1> DEFINE Here(j) == /\ j > Len(x) \/ x[j] # Colon
                      /\ \A i \in (k + 3)..(j - 1) : x[i] = Colon
           j == CHOOSE j \in (k + 3)..(Len(x) + 1) : Here(j)
<1>1. Len(x) \in Nat /\ Quote # Colon
  BY AtomsDiffer
<1>2. k + 4 \in (k + 3)..(Len(x) + 1) /\ Here(k + 4)
  <2>1. \A i \in (k + 3)..(k + 4 - 1) : i = k + 3
    OBVIOUS
  <2> QED BY <1>1, <2>1
<1>3. ASSUME NEW h \in (k + 3)..(Len(x) + 1), Here(h) PROVE h = k + 4
  <2>1. h # k + 3
    BY <1>1, <1>3
  <2>2. h > k + 4 => k + 4 \in (k + 3)..(h - 1)
    OBVIOUS
  <2>3. ~(h > k + 4)
    BY <1>1, <1>3, <2>2
  <2> QED BY <2>1, <2>3
<1> HIDE DEF Here
<1>4. j = k + 4
  BY <1>2, <1>3
<1>5. ValueAt(x, k) = IF k = 0 \/ j > Len(x) \/ x[j] # Quote THEN 0 ELSE j + 1
  BY DEF ValueAt, Here, Colon
<1> HIDE DEF j
<1> QED BY <1>1, <1>4, <1>5

LEMMA ValueAtNone ==
  ASSUME NEW x \in Seq(Symbols), NEW k \in Nat, k > 0, k + 3 <= Len(x),
         x[k + 3] # Colon, x[k + 3] # Quote
  PROVE  ValueAt(x, k) = 0
<1> DEFINE Here(j) == /\ j > Len(x) \/ x[j] # Colon
                      /\ \A i \in (k + 3)..(j - 1) : x[i] = Colon
           j == CHOOSE j \in (k + 3)..(Len(x) + 1) : Here(j)
<1>1. Len(x) \in Nat
  OBVIOUS
<1>2. k + 3 \in (k + 3)..(Len(x) + 1) /\ Here(k + 3)
  BY <1>1
<1>3. ASSUME NEW h \in (k + 3)..(Len(x) + 1), Here(h) PROVE h = k + 3
  <2>1. h > k + 3 => k + 3 \in (k + 3)..(h - 1)
    OBVIOUS
  <2> QED BY <1>3, <2>1
<1> HIDE DEF Here
<1>4. j = k + 3
  BY <1>2, <1>3
<1>5. ValueAt(x, k) = IF k = 0 \/ j > Len(x) \/ x[j] # Quote THEN 0 ELSE j + 1
  BY DEF ValueAt, Here, Colon
<1> HIDE DEF j
<1> QED BY <1>4, <1>5

\* UpToQuote: a word that a quotation mark follows.
LEMMA UpToQuoteIs ==
  ASSUME NEW x \in Seq(Symbols), NEW i \in Nat, i > 0, i + 1 <= Len(x),
         x[i] # Quote, x[i + 1] = Quote
  PROVE  UpToQuote(x, i) = <<x[i]>>
<1> DEFINE Here(j) == /\ j > Len(x) \/ x[j] = Quote
                      /\ \A h \in i..(j - 1) : x[h] # Quote
           j == CHOOSE j \in i..(Len(x) + 1) : Here(j)
<1>1. Len(x) \in Nat
  OBVIOUS
<1>2. i + 1 \in i..(Len(x) + 1) /\ Here(i + 1)
  <2>1. \A h \in i..(i + 1 - 1) : h = i
    OBVIOUS
  <2> QED BY <1>1, <2>1
<1>3. ASSUME NEW h \in i..(Len(x) + 1), Here(h) PROVE h = i + 1
  <2>1. h # i
    BY <1>1, <1>3
  <2>2. h > i + 1 => i + 1 \in i..(h - 1)
    OBVIOUS
  <2> QED BY <1>3, <2>1, <2>2
<1> HIDE DEF Here
<1>4. j = i + 1
  BY <1>2, <1>3
<1>5. UpToQuote(x, i) = SubSeq(x, i, j - 1)
  BY DEF UpToQuote, Here
<1> HIDE DEF j
<1>6. UpToQuote(x, i) = SubSeq(x, i, i)
  BY <1>4, <1>5
<1>7. SubSeq(x, i, i) = <<x[i]>>
  <2>1. SubSeq(x, i, i) = [h \in 1..(i - i + 1) |-> x[i + h - 1]]
    BY DEF SubSeq
  <2>2. i - i + 1 = 1 /\ \A h \in 1..1 : h = 1 /\ i + h - 1 = i
    OBVIOUS
  <2>3. SubSeq(x, i, i) = [h \in 1..1 |-> x[i]]
    BY <2>1, <2>2
  <2>4. <<x[i]>> = [h \in 1..1 |-> x[i]]
    OBVIOUS
  <2> QED BY <2>3, <2>4
<1> QED BY <1>6, <1>7

Cursors == {r \in [at : Nat, out : Seq(Symbols)] : r.at > 0 /\ Len(r.out) < SdpMax}

LEMMA CopySymbolTyped ==
  ASSUME NEW x \in Seq(Symbols), NEW r \in Cursors
  PROVE  CopySymbol(x, r) \in Cursors
<1>1. /\ r \in [at : Nat, out : Seq(Symbols)]
      /\ r.at \in Nat /\ r.at > 0 /\ r.out \in Seq(Symbols)
      /\ Len(r.out) \in Nat /\ Len(x) \in Nat
  BY DEF Cursors
<1>2. SdpMax \in Nat
  BY SignalCodecAssumption
<1> DEFINE Copied(d, c) == [at |-> r.at + d, out |-> Append(r.out, c)]
<1>3. ASSUME NEW d \in {1, 2}, NEW c \in Symbols, ~(Len(r.out) >= SdpMax - 1)
      PROVE  Copied(d, c) \in Cursors
  <2>1. Append(r.out, c) \in Seq(Symbols) /\ Len(Append(r.out, c)) = Len(r.out) + 1
    BY <1>1
  <2>2. r.at + d \in Nat /\ r.at + d > 0
    BY <1>1
  <2>3. Len(r.out) + 1 < SdpMax
    BY <1>1, <1>2, <1>3
  <2> QED BY <2>1, <2>2, <2>3 DEF Cursors
<1>4. NL \in Symbols /\ Quote \in Symbols
  BY LiteralsTyped
<1>5. r.at <= Len(x) => x[r.at] \in Symbols
  BY <1>1
<1>6. \/ CopySymbol(x, r) = r
      \/ /\ ~(Len(r.out) >= SdpMax - 1)
         /\ \/ CopySymbol(x, r) = Copied(2, NL)
            \/ CopySymbol(x, r) = Copied(2, Quote)
            \/ r.at <= Len(x) /\ CopySymbol(x, r) = Copied(1, x[r.at])
  BY <1>1 DEF CopySymbol
<1> HIDE DEF Copied
<1> QED BY <1>3, <1>4, <1>5, <1>6

IsUnescape(u, x, i) ==
  /\ u \in [0..Len(x) -> Cursors]
  /\ u[0] = [at |-> i, out |-> <<>>]
  /\ \A k \in 1..Len(x) : u[k] = CopySymbol(x, u[k - 1])

\* The recursive function of Unescape is well defined.
LEMMA UnescapeLoop ==
  ASSUME NEW x \in Seq(Symbols), NEW i \in Nat, i > 0
  PROVE  \E u : IsUnescape(u, x, i) /\ Unescape(x, i) = u[Len(x)].out
<1> DEFINE n == Len(x)
           X == Cursors
           b == [at |-> i, out |-> <<>>]
           F == [p \in X \X (1..n) |-> CopySymbol(x, p[1])]
           f == CHOOSE f : f = [k \in 0..n |->
                  IF k = 0 THEN b ELSE CopySymbol(x, f[k - 1])]
<1>0. n \in Nat /\ b \in X
  <2>1. SdpMax \in Nat /\ SdpMax > 0
    BY SignalCodecAssumption
  <2>2. <<>> \in Seq(Symbols) /\ Len(<<>>) = 0
    OBVIOUS
  <2> QED BY <2>1, <2>2 DEF Cursors
<1>1. ASSUME NEW r \in X PROVE CopySymbol(x, r) \in X
  BY CopySymbolTyped
<1>2. Unescape(x, i) = f[n].out
  BY DEF Unescape
<1> HIDE DEF X, b
<1>3. F \in [X \X (1..n) -> X]
  BY <1>1
<1>4. \A r \in X, k \in 1..n : F[<<r, k>>] = CopySymbol(x, r)
  OBVIOUS
<1> HIDE DEF F, n
<1>5. PICK g : IsLoop(g, X, b, n, F)
  BY <1>0, <1>3, LoopExists
<1>6. ASSUME NEW k \in 1..n PROVE g[k] = CopySymbol(x, g[k - 1])
  <2>1. g[k - 1] \in X
    BY <1>0, <1>5 DEF IsLoop
  <2> QED BY <1>4, <1>5, <2>1 DEF IsLoop
<1>7. g = [k \in 0..n |-> IF k = 0 THEN b ELSE CopySymbol(x, g[k - 1])]
  BY <1>0, <1>5, <1>6 DEF IsLoop
<1>8. f = [k \in 0..n |-> IF k = 0 THEN b ELSE CopySymbol(x, f[k - 1])]
  BY <1>7
<1> HIDE DEF f
<1>9. f[0] = b /\ \A k \in 1..n : f[k] = CopySymbol(x, f[k - 1])
  <2>1. f[0] = b
    BY <1>0, <1>8
  <2>2. ASSUME NEW k \in 1..n PROVE f[k] = CopySymbol(x, f[k - 1])
    <3>1. k \in 0..n /\ k # 0
      BY <1>0
    <3> QED BY <1>8, <3>1
  <2> QED BY <2>1, <2>2
<1>10. \A k \in 0..n : f[k] = g[k]
  <2>1. MakesTurns(f, X, b, n, F)
    BY <1>4, <1>9 DEF MakesTurns
  <2> QED BY <1>0, <1>5, <2>1, LoopIs
<1>11. f = g
  BY <1>7, <1>8, <1>10
<1> QED BY <1>2, <1>5, <1>6, <1>11 DEF IsLoop, IsUnescape, X, b, n

\* The text a line is parsed for fits its buffer.
LEMMA TextInTyped ==
  ASSUME NEW x \in Seq(Symbols)
  PROVE  TextIn(x) \in Seq(Symbols) /\ Len(TextIn(x)) < SdpMax
<1> DEFINE i == ValueAt(x, Find(x, "sdp"))
<1>1. i \in Nat
  <2> DEFINE k == Find(x, "sdp")
             Here(j) == /\ j > Len(x) \/ x[j] # ":"
                        /\ \A h \in (k + 3)..(j - 1) : x[h] = ":"
             T == {j \in (k + 3)..(Len(x) + 1) : Here(j)}
             V == {j \in (k + 3)..(Len(x) + 1) : j > Len(x) \/ x[j] # ":"}
             j == CHOOSE j \in (k + 3)..(Len(x) + 1) : Here(j)
  <2>1. i = IF k = 0 \/ j > Len(x) \/ x[j] # Quote THEN 0 ELSE j + 1
    BY DEF ValueAt
  <2>2. Len(x) \in Nat
    OBVIOUS
  <2>3. CASE k = 0
    BY <2>1, <2>3
  <2>4. CASE k # 0
    <3>1. KeyAt(x, k, "sdp")
      BY <2>4, FindCases
    <3>2. k \in Nat /\ k + 2 <= Len(x)
      BY <2>2, <3>1 DEF KeyAt
    <3>3. Len(x) + 1 \in V /\ V \subseteq Nat
      BY <2>2, <3>2
    <3>4. PICK h \in V : \A g \in V : h <= g
      BY <3>3, LeastExists
    <3>5. \A g \in (k + 3)..(h - 1) : x[g] = ":"
      <4> SUFFICES ASSUME NEW g \in (k + 3)..(h - 1), x[g] # ":" PROVE FALSE
        OBVIOUS
      <4>1. g \in V
        BY <2>2, <3>2, <3>4
      <4> QED BY <3>2, <3>4, <4>1
    <3>6. h \in (k + 3)..(Len(x) + 1) /\ Here(h)
      BY <3>4, <3>5
    <3> HIDE DEF Here
    <3>7. j \in (k + 3)..(Len(x) + 1)
      BY <3>6
    <3> HIDE DEF j
    <3> QED BY <2>1, <2>2, <3>2, <3>7
  <2> QED BY <2>3, <2>4
<1>2. TextIn(x) = IF i = 0 THEN NoText ELSE Unescape(x, i)
  BY DEF TextIn
<1> HIDE DEF i
<1>3. CASE i = 0
  <2>1. SdpMax \in Nat /\ SdpMax > 0
    BY SignalCodecAssumption
  <2> QED BY <1>2, <1>3, <2>1 DEF NoText
<1>4. CASE i # 0
  <2>1. PICK u : IsUnescape(u, x, i) /\ Unescape(x, i) = u[Len(x)].out
    BY <1>1, <1>4, UnescapeLoop
  <2>2. u[Len(x)] \in Cursors
    BY <2>1 DEF IsUnescape
  <2> QED BY <1>2, <1>4, <2>1, <2>2 DEF Cursors
<1> QED BY <1>3, <1>4

IsPlain(p, text) ==
  /\ p \in [0..Len(text) -> Seq(Symbols)]
  /\ p[0] = <<>>
  /\ \A k \in 1..Len(text) :
       p[k] = IF text[k] # CR THEN Append(p[k - 1], text[k]) ELSE p[k - 1]

\* The recursive function of Plain is well defined.
LEMMA PlainLoop ==
  ASSUME NEW text \in Seq(Symbols)
  PROVE  \E p : IsPlain(p, text) /\ Plain(text) = p[Len(text)]
<1> DEFINE n == Len(text)
           X == Seq(Symbols)
           b == <<>>
           Turn(a, c) == IF c # CR THEN Append(a, c) ELSE a
           F == [p \in X \X (1..n) |-> Turn(p[1], text[p[2]])]
           f == CHOOSE f : f = [k \in 0..n |->
                  IF k = 0 THEN b ELSE Turn(f[k - 1], text[k])]
<1>0. n \in Nat /\ b \in X
  OBVIOUS
<1>1. ASSUME NEW a \in X, NEW k \in 1..n PROVE Turn(a, text[k]) \in X
  OBVIOUS
<1>2. Plain(text) = f[n]
  BY DEF Plain
<1> HIDE DEF X, b, Turn
<1>3. F \in [X \X (1..n) -> X]
  BY <1>1
<1>4. \A a \in X, k \in 1..n : F[<<a, k>>] = Turn(a, text[k])
  OBVIOUS
<1> HIDE DEF F, n
<1>5. PICK g : IsLoop(g, X, b, n, F)
  BY <1>0, <1>3, LoopExists
<1>6. ASSUME NEW k \in 1..n PROVE g[k] = Turn(g[k - 1], text[k])
  <2>1. g[k - 1] \in X
    BY <1>0, <1>5 DEF IsLoop
  <2> QED BY <1>4, <1>5, <2>1 DEF IsLoop
<1>7. g = [k \in 0..n |-> IF k = 0 THEN b ELSE Turn(g[k - 1], text[k])]
  BY <1>0, <1>5, <1>6 DEF IsLoop
<1>8. f = [k \in 0..n |-> IF k = 0 THEN b ELSE Turn(f[k - 1], text[k])]
  BY <1>7
<1> HIDE DEF f
<1>9. f[0] = b /\ \A k \in 1..n : f[k] = Turn(f[k - 1], text[k])
  <2>1. f[0] = b
    BY <1>0, <1>8
  <2>2. ASSUME NEW k \in 1..n PROVE f[k] = Turn(f[k - 1], text[k])
    <3>1. k \in 0..n /\ k # 0
      BY <1>0
    <3> QED BY <1>8, <3>1
  <2> QED BY <2>1, <2>2
<1>10. \A k \in 0..n : f[k] = g[k]
  <2>1. MakesTurns(f, X, b, n, F)
    BY <1>4, <1>9 DEF MakesTurns
  <2> QED BY <1>0, <1>5, <2>1, LoopIs
<1>11. f = g
  BY <1>7, <1>8, <1>10
<1>12. IsPlain(g, text)
  BY <1>5, <1>6 DEF IsLoop, IsPlain, X, b, n, Turn
<1> QED BY <1>2, <1>11, <1>12 DEF n

\* The turns of the loop that copies a text.
LEMMA CopyTurns ==
  ASSUME NEW x \in Seq(Symbols), NEW r \in Cursors, r.at <= Len(x)
  PROVE  /\ x[r.at] = Quote => CopySymbol(x, r) = r
         /\ Len(r.out) < SdpMax - 1 =>
              /\ x[r.at] \notin {Quote, Backslash} =>
                   CopySymbol(x, r) = [at |-> r.at + 1, out |-> Append(r.out, x[r.at])]
              /\ r.at < Len(x) /\ x[r.at] = Backslash =>
                   /\ x[r.at + 1] = "n" =>
                        CopySymbol(x, r) = [at |-> r.at + 2, out |-> Append(r.out, NL)]
                   /\ x[r.at + 1] = Quote =>
                        CopySymbol(x, r) = [at |-> r.at + 2, out |-> Append(r.out, Quote)]
<1>1. /\ r.at \in Nat /\ Len(r.out) \in Nat /\ Len(x) \in Nat /\ SdpMax \in Nat
  BY SignalCodecAssumption DEF Cursors
<1>2. Quote # Backslash /\ Quote # "n"
  BY MarksDiffer DEF Marks
<1>3. ~(r.at > Len(x))
  BY <1>1
<1>4. x[r.at] = Quote => CopySymbol(x, r) = r
  BY <1>2 DEF CopySymbol
<1>5. ASSUME Len(r.out) < SdpMax - 1
      PROVE  ~(r.at > Len(x) \/ Len(r.out) >= SdpMax - 1)
  BY <1>1, <1>3, <1>5
<1>6. ASSUME Len(r.out) < SdpMax - 1, x[r.at] \notin {Quote, Backslash}
      PROVE  CopySymbol(x, r) = [at |-> r.at + 1, out |-> Append(r.out, x[r.at])]
  BY <1>5, <1>6 DEF CopySymbol
<1>7. ASSUME Len(r.out) < SdpMax - 1, r.at < Len(x), x[r.at] = Backslash,
             x[r.at + 1] = "n"
      PROVE  CopySymbol(x, r) = [at |-> r.at + 2, out |-> Append(r.out, NL)]
  BY <1>5, <1>7 DEF CopySymbol
<1>8. ASSUME Len(r.out) < SdpMax - 1, r.at < Len(x), x[r.at] = Backslash,
             x[r.at + 1] = Quote
      PROVE  CopySymbol(x, r) = [at |-> r.at + 2, out |-> Append(r.out, Quote)]
  BY <1>2, <1>5, <1>8 DEF CopySymbol
<1> QED BY <1>4, <1>6, <1>7, <1>8

\* Once at a quotation mark, the loop stays there.
LEMMA CopyStays ==
  ASSUME NEW x \in Seq(Symbols), NEW i, NEW u, IsUnescape(u, x, i),
         NEW k \in 0..Len(x), u[k].at <= Len(x), x[u[k].at] = Quote
  PROVE  u[Len(x)] = u[k]
<1> DEFINE n == Len(x)
           S == {h \in Nat : k <= h /\ h <= n => u[h] = u[k]}
<1>0. n \in Nat /\ \A h \in 0..n : u[h] \in Cursors
  BY DEF IsUnescape
<1>1. 0 \in S
  <2>1. k <= 0 => k = 0
    BY <1>0
  <2> QED BY <2>1
<1>2. ASSUME NEW h \in Nat, h \in S PROVE h + 1 \in S
  <2> SUFFICES ASSUME k <= h + 1, h + 1 <= n PROVE u[h + 1] = u[k]
    OBVIOUS
  <2>1. CASE k = h + 1
    BY <2>1
  <2>2. CASE k # h + 1
    <3>1. k <= h /\ h <= n /\ h \in 0..n /\ h + 1 \in 1..n /\ h + 1 - 1 = h
      BY <1>0, <2>2
    <3>2. u[h] = u[k]
      BY <1>2, <3>1
    <3>3. u[h + 1] = CopySymbol(x, u[h])
      BY <3>1 DEF IsUnescape
    <3>4. CopySymbol(x, u[h]) = u[h]
      BY <1>0, <3>1, <3>2, CopyTurns
    <3> QED BY <3>2, <3>3, <3>4
  <2> QED BY <2>1, <2>2
<1> HIDE DEF S
<1>3. Nat \subseteq S
  BY <1>1, <1>2, SetInduction
<1>4. n \in S /\ k <= n
  BY <1>0, <1>3
<1> QED BY <1>0, <1>4 DEF S

WithoutBackslash(text) == \A i \in 1..Len(text) : text[i] # Backslash

\* The escaped text e stands at position b of x, in front of a quotation mark.
Carries(x, b, e) ==
  /\ b + Len(e) <= Len(x)
  /\ \A i \in 1..Len(e) : x[b + i - 1] = e[i]
  /\ x[b + Len(e)] = Quote

LEMMA Undone ==
  ASSUME NEW m \in Messages, WithoutBackslash(m.text),
         NEW x \in Seq(Symbols), NEW b \in Nat, b > 0, Carries(x, b, Written(m))
  PROVE  Unescape(x, b) = Plain(m.text)
<1> DEFINE text == m.text  n == Len(text)  e == Written(m)
<1>1. text \in Seq(Symbols) /\ n \in Nat
  BY MessageTyped
<1>2. PICK f : e = f[n] /\ \A k \in 0..n : EscapedUpTo(f, text, k)
  BY WrittenBy
<1>3. PICK p : IsPlain(p, text) /\ Plain(text) = p[n]
  BY <1>1, PlainLoop
<1>4. PICK u : IsUnescape(u, x, b) /\ Unescape(x, b) = u[Len(x)].out
  BY UnescapeLoop
<1>5. n < SdpMax /\ SdpMax \in Nat /\ Len(x) \in Nat
  BY SignalCodecAssumption
<1>6. e \in Seq(Symbols) /\ Len(e) \in Nat
  BY WrittenTyped
<1>7. \A k \in 0..n : f[k] \in Seq(Symbols) /\ Len(f[k]) \in Nat
  BY <1>2 DEF EscapedUpTo
<1>8. \A k \in 0..n : p[k] \in Seq(Symbols) /\ Len(p[k]) \in Nat
  BY <1>3 DEF IsPlain
<1>9. \A k \in 0..Len(x) : u[k] \in Cursors
  BY <1>4 DEF IsUnescape
<1> DEFINE AtTurn(t, k) ==
             /\ k \in Nat /\ k <= Len(f[t])
             /\ u[k] = [at |-> b + Len(f[t]), out |-> p[t]]
           Reached(t) == Len(p[t]) <= t /\ \E k \in 0..Len(x) : AtTurn(t, k)
           S == {t \in Nat : t <= n => Reached(t)}
<1>10. 0 \in S
  <2>2. Len(f[0]) = 0
    <3>1. EscapedUpTo(f, text, 0) /\ 0 \in 0..n
      BY <1>1, <1>2
    <3>2. Len(f[0]) <= 0 + 0
      BY <3>1 DEF EscapedUpTo
    <3> QED BY <1>7, <3>1, <3>2
  <2>3. p[0] = <<>> /\ Len(p[0]) = 0
    BY <1>3 DEF IsPlain
  <2>4. u[0] = [at |-> b, out |-> <<>>] /\ b + 0 = b
    BY <1>4 DEF IsUnescape
  <2>5. AtTurn(0, 0)
    BY <2>2, <2>3, <2>4
  <2>6. 0 \in 0..Len(x)
    BY <1>5
  <2>7. Reached(0)
    BY <2>3, <2>5, <2>6
  <2> QED BY <2>7
<1>11. ASSUME NEW t \in Nat, t \in S PROVE t + 1 \in S
  <2> SUFFICES ASSUME t + 1 <= n PROVE Reached(t + 1)
    OBVIOUS
  <2>1. /\ t \in 0..n /\ t + 1 \in 1..n /\ t + 1 \in 0..n /\ t + 1 - 1 = t
        /\ t < n
    BY <1>1
  <2>2. Reached(t)
    BY <1>11, <2>1
  <2>3. PICK k \in 0..Len(x) : AtTurn(t, k)
    BY <2>2
  <2> DEFINE c == text[t + 1]  a == f[t]  q == Piece(c)  r == u[k]
  <2>4. c \in Symbols /\ c # Backslash
    BY <1>1, <2>1 DEF WithoutBackslash
  <2>5. /\ Len(f[t + 1]) = Len(a) + Len(q)
        /\ Len(a) + Len(q) <= Len(e)
        /\ \A i \in 1..Len(q) : e[Len(a) + i] = q[i]
    <3> DEFINE h == t + 1
    <3>1. h \in 1..n /\ h - 1 = t
      BY <2>1
    <3> HIDE DEF h
    <3>2. /\ Len(f[h]) = Len(f[h - 1]) + Len(Piece(text[h]))
          /\ Len(f[h - 1]) + Len(Piece(text[h])) <= Len(f[n])
          /\ \A i \in 1..Len(Piece(text[h])) :
               f[n][Len(f[h - 1]) + i] = Piece(text[h])[i]
      BY <1>1, <1>2, <3>1, PieceStands
    <3>3. /\ Len(f[h]) = Len(f[t]) + Len(Piece(text[h]))
          /\ Len(f[t]) + Len(Piece(text[h])) <= Len(e)
          /\ \A i \in 1..Len(Piece(text[h])) : e[Len(f[t]) + i] = Piece(text[h])[i]
      BY <1>2, <3>1, <3>2
    <3> QED BY <3>3 DEF h
  <2>6. p[t + 1] = IF c # CR THEN Append(p[t], c) ELSE p[t]
    <3> DEFINE h == t + 1
    <3>1. h \in 1..n /\ h - 1 = t
      BY <2>1
    <3> HIDE DEF h
    <3>2. p[h] = IF text[h] # CR THEN Append(p[h - 1], text[h]) ELSE p[h - 1]
      BY <1>3, <3>1 DEF IsPlain
    <3>3. p[h] = IF text[h] # CR THEN Append(p[t], text[h]) ELSE p[t]
      BY <3>1, <3>2
    <3> QED BY <3>3 DEF h
  <2>7. /\ q \in Seq(Symbols) /\ Len(q) \in Nat
        /\ c = CR => Len(q) = 0
        /\ c = NL => Len(q) = 2 /\ q[1] = Backslash /\ q[2] = "n"
        /\ c = Quote => Len(q) = 2 /\ q[1] = Backslash /\ q[2] = Quote
        /\ c \notin Marks => Len(q) = 1 /\ q[1] = c
    BY <2>4, PieceTyped
  <2>8. /\ r \in Cursors /\ r.at = b + Len(a) /\ r.out = p[t]
        /\ k <= Len(a) /\ Len(p[t]) <= t /\ Len(a) \in Nat /\ Len(p[t]) \in Nat
        /\ p[t] \in Seq(Symbols)
    BY <1>7, <1>8, <1>9, <2>1, <2>2, <2>3
  <2>9. Len(r.out) < SdpMax - 1
    BY <1>1, <1>5, <2>1, <2>8
  <2>10. \A i \in 1..Len(q) : x[r.at + i - 1] = q[i]
    <3> SUFFICES ASSUME NEW i \in 1..Len(q) PROVE x[r.at + i - 1] = q[i]
      OBVIOUS
    <3> HIDE DEF q, a, r, e
    <3>1. Len(a) + i \in 1..Len(e) /\ b + (Len(a) + i) - 1 = r.at + i - 1
      BY <1>6, <2>5, <2>7, <2>8
    <3>2. x[b + (Len(a) + i) - 1] = e[Len(a) + i]
      BY <3>1 DEF e, Carries
    <3> QED BY <2>5, <3>1, <3>2
  <2> HIDE DEF q, a, r, e, c, AtTurn
  <2>11. Len(q) > 0 => r.at <= Len(x) /\ x[r.at] = q[1]
    <3> SUFFICES ASSUME Len(q) > 0 PROVE r.at <= Len(x) /\ x[r.at] = q[1]
      OBVIOUS
    <3>1. 1 \in 1..Len(q) /\ r.at + 1 - 1 = r.at /\ r.at <= Len(x)
      BY <1>5, <1>6, <2>5, <2>7, <2>8 DEF e, Carries
    <3> QED BY <2>10, <3>1
  <2>12. Len(q) = 2 => r.at < Len(x) /\ x[r.at + 1] = q[2]
    <3> SUFFICES ASSUME Len(q) = 2 PROVE r.at < Len(x) /\ x[r.at + 1] = q[2]
      OBVIOUS
    <3>1. 2 \in 1..Len(q) /\ r.at + 2 - 1 = r.at + 1 /\ r.at < Len(x)
      BY <1>5, <1>6, <2>5, <2>7, <2>8 DEF e, Carries
    <3> QED BY <2>10, <3>1
  <2>13. CASE c = CR
    <3>1. p[t + 1] = p[t] /\ Len(f[t + 1]) = Len(f[t])
      BY <2>5, <2>6, <2>7, <2>8, <2>13 DEF a
    <3>2. AtTurn(t + 1, k)
      BY <2>3, <3>1 DEF AtTurn
    <3>3. Len(p[t + 1]) <= t + 1
      BY <2>8, <3>1
    <3> QED BY <3>2, <3>3
  <2>14. CASE c # CR
    <3>1. /\ Len(q) > 0
          /\ CopySymbol(x, r) = [at |-> r.at + Len(q), out |-> Append(r.out, c)]
      <4>1. c \in Marks => c \in {NL, Quote}
        BY <2>4, <2>14 DEF Marks
      <4>2. CASE c = NL
        <5>0. Len(q) = 2 /\ q[1] = Backslash /\ q[2] = "n"
          BY <2>7, <4>2
        <5>1. Len(q) = 2 /\ Len(q) > 0 /\ q[1] = Backslash /\ q[2] = "n"
          BY <5>0
        <5>2. /\ r.at <= Len(x) /\ x[r.at] = Backslash
              /\ r.at < Len(x) /\ x[r.at + 1] = "n"
          BY <2>11, <2>12, <5>1
        <5>3. CopySymbol(x, r) = [at |-> r.at + 2, out |-> Append(r.out, NL)]
          BY <2>8, <2>9, <5>2, CopyTurns
        <5> QED BY <4>2, <5>1, <5>3
      <4>3. CASE c = Quote
        <5>0. Len(q) = 2 /\ q[1] = Backslash /\ q[2] = Quote
          BY <2>7, <4>3
        <5>1. Len(q) = 2 /\ Len(q) > 0 /\ q[1] = Backslash /\ q[2] = Quote
          BY <5>0
        <5>2. /\ r.at <= Len(x) /\ x[r.at] = Backslash
              /\ r.at < Len(x) /\ x[r.at + 1] = Quote
          BY <2>11, <2>12, <5>1
        <5>3. CopySymbol(x, r) = [at |-> r.at + 2, out |-> Append(r.out, Quote)]
          BY <2>8, <2>9, <5>2, CopyTurns
        <5> QED BY <4>3, <5>1, <5>3
      <4>4. CASE c \notin Marks
        <5>0. Len(q) = 1 /\ q[1] = c
          BY <2>7, <4>4
        <5>1. Len(q) = 1 /\ Len(q) > 0 /\ q[1] = c
          BY <5>0
        <5>2. r.at <= Len(x) /\ x[r.at] = c /\ c \notin {Quote, Backslash}
          BY <2>11, <4>4, <5>1 DEF Marks
        <5>3. CopySymbol(x, r) = [at |-> r.at + 1, out |-> Append(r.out, c)]
          BY <2>8, <2>9, <5>2, CopyTurns
        <5> QED BY <5>1, <5>3
      <4> QED BY <4>1, <4>2, <4>3, <4>4
    <3>2. /\ k + 1 \in 1..Len(x) /\ k + 1 \in 0..Len(x) /\ k + 1 - 1 = k
          /\ k + 1 <= Len(f[t + 1])
      <4>1. b + Len(e) <= Len(x) /\ Len(e) \in Nat
        BY <1>6 DEF e, Carries
      <4>2. Len(f[t + 1]) = Len(a) + Len(q) /\ Len(a) + Len(q) <= Len(e)
        BY <2>5
      <4>3. Len(q) \in Nat /\ Len(q) > 0
        BY <2>7, <3>1
      <4>4. k \in Nat /\ k <= Len(a) /\ Len(a) \in Nat
        BY <1>5, <2>8
      <4> QED BY <1>5, <4>1, <4>2, <4>3, <4>4
    <3>3. u[k + 1] = CopySymbol(x, r)
      BY <1>4, <3>2 DEF IsUnescape, r
    <3>4. r.at + Len(q) = b + Len(f[t + 1]) /\ Append(r.out, c) = p[t + 1]
      BY <2>5, <2>6, <2>7, <2>8, <2>14
    <3>5. AtTurn(t + 1, k + 1)
      BY <3>1, <3>2, <3>3, <3>4 DEF AtTurn
    <3>6. Len(p[t + 1]) <= t + 1
      <4>1. Len(p[t + 1]) = Len(p[t]) + 1
        BY <2>4, <2>8, <3>4, AppendProperties
      <4> QED BY <2>8, <4>1
    <3> QED BY <3>2, <3>5, <3>6
  <2> QED BY <2>13, <2>14
<1> HIDE DEF S
<1>12. Nat \subseteq S
  BY <1>10, <1>11, SetInduction
<1> HIDE DEF Reached
<1>13. Reached(n)
  <2>1. n \in S
    BY <1>1, <1>12
  <2>2. n <= n
    BY <1>1
  <2> QED BY <2>1, <2>2 DEF S
<1>14. PICK k \in 0..Len(x) : AtTurn(n, k)
  BY <1>13 DEF Reached
<1>15. u[k].at = b + Len(e) /\ u[k].out = p[n]
  BY <1>2, <1>14
<1>16. u[Len(x)] = u[k]
  <2>1. u[k].at <= Len(x) /\ x[u[k].at] = Quote
    BY <1>15 DEF Carries
  <2> QED BY <1>4, <2>1, CopyStays
<1> QED BY <1>3, <1>4, <1>15, <1>16

-----------------------------------------------------------------------------
(* Lines and their parts.                                                  *)

\* What the symbols l[s + 1] to l[p] of a line are.
Part(l, s, p) == [i \in 1..(p - s) |-> l[s + i]]

LEMMA PartTyped ==
  ASSUME NEW l \in Seq(Symbols), NEW s \in Nat, NEW p \in Nat, s <= p, p <= Len(l)
  PROVE  /\ Part(l, s, p) \in Seq(Symbols)
         /\ Len(Part(l, s, p)) = p - s
         /\ \A i \in 1..(p - s) : Part(l, s, p)[i] = l[s + i]
<1>1. p - s \in Nat /\ Len(l) \in Nat
  OBVIOUS
<1>2. \A i \in 1..(p - s) : l[s + i] \in Symbols
  BY <1>1
<1>3. Part(l, s, p) \in [1..(p - s) -> Symbols]
  BY <1>2 DEF Part
<1>4. \A i \in 1..(p - s) : Part(l, s, p)[i] = l[s + i]
  BY DEF Part
<1> HIDE DEF Part
<1>5. Part(l, s, p) \in Seq(Symbols) /\ Len(Part(l, s, p)) = p - s
  BY <1>1, <1>3
<1> QED BY <1>4, <1>5

LEMMA PartGrows ==
  ASSUME NEW l \in Seq(Symbols), NEW s \in Nat, NEW p \in Nat, s <= p, p < Len(l)
  PROVE  Append(Part(l, s, p), l[p + 1]) = Part(l, s, p + 1)
<1> DEFINE a == Part(l, s, p)  b == Part(l, s, p + 1)  c == l[p + 1]
<1>1. Len(l) \in Nat /\ p + 1 \in Nat /\ s <= p + 1 /\ p + 1 <= Len(l) /\ p <= Len(l)
      /\ p + 1 - s = p - s + 1 /\ p - s \in Nat /\ s + (p - s + 1) = p + 1
  OBVIOUS
<1>2. /\ a \in Seq(Symbols) /\ Len(a) = p - s
      /\ \A i \in 1..(p - s) : a[i] = l[s + i]
  BY <1>1, PartTyped
<1>3. /\ b \in Seq(Symbols) /\ Len(b) = p - s + 1
      /\ \A i \in 1..(p - s + 1) : b[i] = l[s + i]
  <2> DEFINE q == p + 1
  <2>1. q \in Nat /\ s <= q /\ q <= Len(l) /\ q - s = p - s + 1
    BY <1>1
  <2> HIDE DEF q
  <2>2. /\ Part(l, s, q) \in Seq(Symbols) /\ Len(Part(l, s, q)) = q - s
        /\ \A i \in 1..(q - s) : Part(l, s, q)[i] = l[s + i]
    BY <2>1, PartTyped
  <2> QED BY <2>1, <2>2 DEF q
<1>4. c \in Symbols
  BY <1>1
<1> HIDE DEF a, b, c
<1>5. /\ Append(a, c) \in Seq(Symbols) /\ Len(Append(a, c)) = p - s + 1
      /\ \A i \in 1..(p - s) : Append(a, c)[i] = a[i]
      /\ Append(a, c)[p - s + 1] = c
  BY <1>2, <1>4, AppendProperties
<1>6. ASSUME NEW i \in 1..(p - s + 1) PROVE Append(a, c)[i] = b[i]
  <2>1. CASE i = p - s + 1
    <3>1. b[p - s + 1] = l[s + (p - s + 1)]
      BY <1>1, <1>3
    <3> QED BY <1>1, <1>5, <2>1, <3>1 DEF c
  <2>2. CASE i # p - s + 1
    <3>1. i \in 1..(p - s)
      BY <1>1, <2>2
    <3> QED BY <1>2, <1>3, <1>5, <3>1
  <2> QED BY <2>1, <2>2
<1>7. Append(a, c) = b
  BY <1>3, <1>5, <1>6, SeqEqual
<1> QED BY <1>7 DEF a, b, c

\* A line has one line end, at its end, and fits the buffer.
IsLine(l) ==
  /\ l \in Seq(Symbols) /\ Len(l) \in Nat
  /\ Len(l) >= 10 /\ Len(l) < BufSize
  /\ l[Len(l)] = NL
  /\ \A i \in 1..(Len(l) - 1) : l[i] \notin {NL, CR}

LEMMA MessageIsLine ==
  ASSUME NEW m \in Messages
  PROVE  IsLine(Encode(m))
<1> DEFINE l == Encode(m)  e == Written(m)
<1>1. /\ l \in Seq(Symbols) /\ Headed(l, m.type)
      /\ m.text = <<>> => LineWithout(l)
      /\ m.text # <<>> => LineWith(l, e)
  BY EncodeShape
<1>2. /\ e \in Seq(Symbols) /\ Len(e) \in Nat /\ Clean(e)
      /\ Len(e) <= Len(m.text) + Len(m.text)
  BY WrittenTyped
<1>3. /\ Len(m.text) \in Nat /\ BufSize \in Nat
      /\ Len(m.text) + Len(m.text) + 18 <= BufSize
      /\ m.type \in Types
  BY MessageTyped
<1>4. /\ Open \notin {NL, CR} /\ Close \notin {NL, CR} /\ Colon \notin {NL, CR}
      /\ Comma \notin {NL, CR} /\ TypeKey \notin {NL, CR} /\ SdpKey \notin {NL, CR}
      /\ Quote \notin {NL, CR} /\ m.type \notin {NL, CR}
  BY <1>3, AtomsDiffer DEF Marks
<1> HIDE DEF l, e
<1>5. \A i \in 1..8 : l[i] \notin {NL, CR}
  <2>1. \A i \in 1..8 : i = 1 \/ i = 2 \/ i = 3 \/ i = 4 \/ i = 5 \/ i = 6 \/ i = 7 \/ i = 8
    OBVIOUS
  <2> QED BY <1>1, <1>4, <2>1 DEF Headed
<1>6. CASE m.text = <<>>
  <2>1. LineWithout(l)
    BY <1>1, <1>6
  <2>2. Len(l) = 10 /\ l[9] = Close /\ l[10] = NL
    BY <2>1 DEF LineWithout
  <2>3. \A i \in 1..9 : i \in 1..8 \/ i = 9
    OBVIOUS
  <2>4. \A i \in 1..9 : l[i] \notin {NL, CR}
    BY <1>4, <1>5, <2>2, <2>3
  <2>5. 10 - 1 = 9 /\ 10 \in Nat /\ 10 < BufSize
    BY <1>3
  <2> QED BY <1>1, <2>2, <2>4, <2>5 DEF IsLine, l
<1>7. CASE m.text # <<>>
  <2>1. LineWith(l, e)
    BY <1>1, <1>7
  <2>2. Len(l) = 17 + Len(e) /\ Len(l) \in Nat /\ Len(l) >= 10 /\ Len(l) < BufSize
    <3>1. Len(l) = 17 + Len(e)
      BY <2>1 DEF LineWith
    <3> QED BY <1>2, <1>3, <3>1
  <2>3. ASSUME NEW i \in 1..(Len(l) - 1) PROVE l[i] \notin {NL, CR}
    <3>1. CASE i \in 1..8
      BY <1>5, <3>1
    <3>2. CASE i \in 9..14
      <4>1. i = 9 \/ i = 10 \/ i = 11 \/ i = 12 \/ i = 13 \/ i = 14
        BY <3>2
      <4> QED BY <1>4, <2>1, <4>1 DEF LineWith
    <3>3. CASE i > 14 /\ i < 15 + Len(e)
      <4>1. i - 14 \in 1..Len(e) /\ 14 + (i - 14) = i
        BY <1>2, <2>2, <3>3
      <4>2. l[14 + (i - 14)] = e[i - 14]
        BY <2>1, <4>1 DEF LineWith
      <4> QED BY <1>2, <4>1, <4>2 DEF Clean
    <3>4. CASE i = 15 + Len(e) \/ i = 16 + Len(e)
      BY <1>4, <2>1, <3>4 DEF LineWith
    <3>5. i \in 1..8 \/ i \in 9..14 \/ (i > 14 /\ i < 15 + Len(e))
            \/ (i = 15 + Len(e) \/ i = 16 + Len(e))
      BY <1>2, <2>2
    <3> QED BY <3>1, <3>2, <3>3, <3>4, <3>5
  <2>4. l[Len(l)] = NL
    BY <2>1, <2>2 DEF LineWith
  <2> QED BY <1>1, <2>2, <2>3, <2>4 DEF IsLine, l
<1> QED BY <1>6, <1>7

LEMMA RoleLineIsLine == IsLine(RoleLine)
<1> DEFINE l == RoleLine
<1>1. RoleLineShaped(l) /\ Len(l) < BufSize
  BY RoleLineShape, RoleLineAssumption
<1>2. /\ Open \notin {NL, CR} /\ Close \notin {NL, CR} /\ Colon \notin {NL, CR}
      /\ Comma \notin {NL, CR} /\ TypeKey \notin {NL, CR} /\ RoleKey \notin {NL, CR}
      /\ RoomKey \notin {NL, CR} /\ Role \notin {NL, CR} /\ Room \notin {NL, CR}
      /\ Quote \notin {NL, CR}
  BY AtomsDiffer DEF Marks
<1> HIDE DEF l
<1>3. ASSUME NEW i \in 1..25 PROVE l[i] \notin {NL, CR}
  <2>1. CASE i \in 1..13
    <3>1. i = 1 \/ i = 2 \/ i = 3 \/ i = 4 \/ i = 5 \/ i = 6 \/ i = 7 \/ i = 8
            \/ i = 9 \/ i = 10 \/ i = 11 \/ i = 12 \/ i = 13
      BY <2>1
    <3> QED BY <1>1, <1>2, <3>1 DEF RoleLineShaped
  <2>2. CASE i \in 14..25
    <3>1. i = 14 \/ i = 15 \/ i = 16 \/ i = 17 \/ i = 18 \/ i = 19 \/ i = 20
            \/ i = 21 \/ i = 22 \/ i = 23 \/ i = 24 \/ i = 25
      BY <2>2
    <3> QED BY <1>1, <1>2, <3>1 DEF RoleLineShaped
  <2>3. i \in 1..13 \/ i \in 14..25
    OBVIOUS
  <2> QED BY <2>1, <2>2, <2>3
<1>4. l \in Seq(Symbols) /\ Len(l) = 26 /\ l[26] = NL
  BY <1>1 DEF RoleLineShaped
<1>5. 26 - 1 = 25 /\ 26 \in Nat /\ 26 >= 10
  OBVIOUS
<1> QED BY <1>1, <1>3, <1>4, <1>5 DEF IsLine, l

\* A line without its end and its first s symbols.
Body(l, s) == Part(l, s, Len(l) - 1)

LEMMA BodyTyped ==
  ASSUME NEW l, IsLine(l), NEW s \in Nat, s <= Len(l) - 1
  PROVE  /\ Body(l, s) \in Seq(Symbols)
         /\ Len(Body(l, s)) = Len(l) - 1 - s /\ Len(Body(l, s)) \in Nat
         /\ \A i \in 1..(Len(l) - 1) : i > s => Body(l, s)[i - s] = l[i]
<1> DEFINE x == Body(l, s)  p == Len(l) - 1
<1>1. l \in Seq(Symbols) /\ p \in Nat /\ s <= p /\ p <= Len(l)
  BY DEF IsLine
<1>2. x = Part(l, s, p)
  BY DEF Body
<1> HIDE DEF x, p
<1>3. /\ x \in Seq(Symbols) /\ Len(x) = p - s
      /\ \A i \in 1..(p - s) : x[i] = l[s + i]
  BY <1>1, <1>2, PartTyped
<1>4. ASSUME NEW i \in 1..p, i > s PROVE x[i - s] = l[i]
  <2>1. i - s \in 1..(p - s) /\ s + (i - s) = i
    BY <1>1, <1>4
  <2> QED BY <1>3, <2>1
<1> QED BY <1>1, <1>3, <1>4 DEF x, p

\* No sdp key begins in the head of a line.
LEMMA HeadHasNoSdp ==
  ASSUME NEW l, NEW m \in Messages, Headed(l, m.type), l[9] \in {Comma, Close}
  PROVE  \A i \in 1..9 : l[i] = Quote => l[i + 1] # SdpKey
<1>1. m.type \in Types
  BY MessageTyped
<1>2. /\ Open # Quote /\ Close # Quote /\ Colon # Quote /\ Comma # Quote
      /\ TypeKey # Quote /\ m.type # Quote
  BY <1>1, AtomsDiffer DEF Marks
<1>3. /\ SdpKey # TypeKey /\ SdpKey # Colon /\ SdpKey # Comma /\ SdpKey # Close
      /\ SdpKey # m.type
  BY <1>1, AtomsDiffer
<1>4. SUFFICES ASSUME NEW i \in 1..9, l[i] = Quote PROVE l[i + 1] # SdpKey
  OBVIOUS
<1>5. i = 1 \/ i = 2 \/ i = 3 \/ i = 4 \/ i = 5 \/ i = 6 \/ i = 7 \/ i = 8 \/ i = 9
  OBVIOUS
<1>6. i # 1 /\ i # 3 /\ i # 5 /\ i # 7 /\ i # 9
  BY <1>2, <1>4 DEF Headed
<1>7. i = 2 \/ i = 4 \/ i = 6 \/ i = 8
  BY <1>5, <1>6
<1> QED BY <1>3, <1>7 DEF Headed

\* What the parser makes of the line of a message, with or without its brace.
LEMMA BodyParses ==
  ASSUME NEW m \in Messages, NEW s \in {0, 1}
  PROVE  LET x == Body(Encode(m), s)
         IN  Parses(x) /\ TypeIn(x) = <<m.type>>
<1> DEFINE l == Encode(m)  x == Body(l, s)  d == 2 - s
<1>1. IsLine(l) /\ Headed(l, m.type)
  BY MessageIsLine, EncodeShape
<1>2. Len(l) \in Nat /\ Len(l) >= 10 /\ s \in Nat
  BY <1>1 DEF IsLine
<1>3. m.type # Quote /\ Open # Quote
  BY MessageTyped, AtomsDiffer DEF Marks
<1> HIDE DEF l
<1>4. /\ x \in Seq(Symbols)
      /\ Len(x) = Len(l) - 1 - s /\ Len(x) \in Nat
      /\ \A i \in 1..(Len(l) - 1) : i > s => x[i - s] = l[i]
  BY <1>1, <1>2, BodyTyped
<1> HIDE DEF x
<1>5. /\ x[2 - s] = Quote /\ x[3 - s] = TypeKey /\ x[4 - s] = Quote
      /\ x[5 - s] = Colon /\ x[6 - s] = Quote /\ x[7 - s] = m.type /\ x[8 - s] = Quote
  <2>1. \A i \in 2..8 : i \in 1..(Len(l) - 1) /\ i > s
    BY <1>2
  <2>2. \A i \in 2..8 : x[i - s] = l[i]
    BY <1>4, <2>1
  <2> QED BY <1>1, <2>2 DEF Headed
<1>6. /\ d \in Nat /\ d > 0 /\ d = 2 - s /\ d + 1 = 3 - s /\ d + 2 = 4 - s
      /\ d + 3 = 5 - s /\ d + 4 = 6 - s /\ d + 5 = 7 - s /\ d + 5 + 1 = 8 - s
      /\ d + 5 \in Nat /\ d + 5 > 0 /\ d + 5 # 0
  BY <1>2
<1>7. d \in 1..(Len(x) - 2) /\ d + 4 <= Len(x) /\ d + 5 + 1 <= Len(x)
  BY <1>2, <1>4
<1>8. \A h \in 1..(d - 1) : ~ KeyAt(x, h, TypeKey)
  <2> SUFFICES ASSUME NEW h \in 1..(d - 1) PROVE x[h] # Quote
    BY DEF KeyAt
  <2>1. h = 1 /\ s = 0 /\ 1 - s = 1 /\ 1 > s /\ 1 \in 1..(Len(l) - 1)
    BY <1>2
  <2>2. x[1 - s] = l[1]
    BY <1>4, <2>1
  <2> QED BY <1>1, <1>3, <2>1, <2>2 DEF Headed
<1> HIDE DEF d
<1>9. Find(x, TypeKey) = d
  <2>1. KeyAt(x, d, TypeKey)
    BY <1>5, <1>6, <1>7 DEF KeyAt
  <2> QED BY <1>4, <1>6, <1>8, <2>1, FindIs
<1>10. ValueAt(x, d) = d + 5
  BY <1>4, <1>5, <1>6, <1>7, ValueAtIs
<1>11. UpToQuote(x, d + 5) = <<x[d + 5]>>
  BY <1>3, <1>4, <1>5, <1>6, <1>7, UpToQuoteIs
<1>12. UpToQuote(x, d + 5) = <<m.type>>
  BY <1>5, <1>6, <1>11
<1> QED BY <1>6, <1>9, <1>10, <1>12 DEF Parses, TypeIn, TypeKey, x, l

LEMMA BodyTells ==
  ASSUME NEW m \in Messages, NEW s \in {0, 1}, WithoutBackslash(m.text)
  PROVE  TextIn(Body(Encode(m), s)) = Plain(m.text)
<1> DEFINE l == Encode(m)  x == Body(l, s)  e == Written(m)
<1>1. /\ IsLine(l) /\ Headed(l, m.type)
      /\ m.text = <<>> => LineWithout(l)
      /\ m.text # <<>> => LineWith(l, e)
  BY MessageIsLine, EncodeShape
<1>2. Len(l) \in Nat /\ Len(l) >= 10 /\ s \in Nat
  BY <1>1 DEF IsLine
<1>3. e \in Seq(Symbols) /\ Len(e) \in Nat
  BY WrittenTyped
<1> HIDE DEF l, e
<1>4. /\ x \in Seq(Symbols)
      /\ Len(x) = Len(l) - 1 - s /\ Len(x) \in Nat
      /\ \A i \in 1..(Len(l) - 1) : i > s => x[i - s] = l[i]
  BY <1>1, <1>2, BodyTyped
<1> HIDE DEF x
<1>5. TextIn(x) = IF ValueAt(x, Find(x, SdpKey)) = 0 THEN NoText
                  ELSE Unescape(x, ValueAt(x, Find(x, SdpKey)))
  BY DEF TextIn, SdpKey
<1>6. l[9] \in {Comma, Close}
  BY <1>1 DEF LineWith, LineWithout
<1>7. \A i \in 1..9 : l[i] = Quote => l[i + 1] # SdpKey
  BY <1>1, <1>6, HeadHasNoSdp
<1>8. ASSUME NEW h \in Nat, KeyAt(x, h, SdpKey) PROVE h + s > 9
  <2>1. h \in 1..(Len(x) - 2) /\ x[h] = Quote /\ x[h + 1] = SdpKey
    BY <1>8 DEF KeyAt
  <2>2. /\ h + s \in 1..(Len(l) - 1) /\ h + s > s /\ h + s - s = h
        /\ h + s + 1 \in 1..(Len(l) - 1) /\ h + s + 1 > s /\ h + s + 1 - s = h + 1
    BY <1>2, <1>4, <2>1
  <2>3. x[h + s - s] = l[h + s] /\ x[h + s + 1 - s] = l[h + s + 1]
    BY <1>4, <2>2
  <2>4. l[h + s] = Quote /\ l[h + s + 1] = SdpKey
    BY <2>1, <2>2, <2>3
  <2>5. h + s \notin 1..9
    BY <1>7, <2>4
  <2> QED BY <1>2, <2>1, <2>5
<1>9. CASE m.text = <<>>
  <2>1. Len(l) = 10
    BY <1>1, <1>9 DEF LineWithout
  <2>2. ASSUME NEW h \in Nat PROVE ~ KeyAt(x, h, SdpKey)
    <3> SUFFICES ASSUME KeyAt(x, h, SdpKey) PROVE FALSE
      OBVIOUS
    <3>1. h <= Len(x) - 2
      BY <1>4 DEF KeyAt
    <3>2. h + s > 9
      BY <1>8
    <3> QED BY <1>2, <1>4, <2>1, <3>1, <3>2
  <2>3. Find(x, SdpKey) = 0
    BY <1>4, <2>2, FindNone
  <2>4. ValueAt(x, Find(x, SdpKey)) = 0
    BY <2>3 DEF ValueAt
  <2>5. TextIn(x) = <<>>
    BY <1>5, <2>4 DEF NoText
  <2>6. PICK p : IsPlain(p, m.text) /\ Plain(m.text) = p[Len(m.text)]
    BY MessageTyped, PlainLoop
  <2>7. Plain(m.text) = <<>>
    BY <1>9, <2>6 DEF IsPlain
  <2> QED BY <2>5, <2>7 DEF x, l
<1>10. CASE m.text # <<>>
  <2> DEFINE d == 10 - s  b == 15 - s
  <2>1. LineWith(l, e)
    BY <1>1, <1>10
  <2>2. Len(l) = 17 + Len(e) /\ Len(x) = 16 + Len(e) - s
    BY <1>2, <1>3, <1>4, <2>1 DEF LineWith
  <2>3. /\ x[10 - s] = Quote /\ x[11 - s] = SdpKey /\ x[12 - s] = Quote
        /\ x[13 - s] = Colon /\ x[14 - s] = Quote
    <3>1. \A i \in 10..14 : i \in 1..(Len(l) - 1) /\ i > s
      BY <1>2, <1>3, <2>2
    <3>2. \A i \in 10..14 : x[i - s] = l[i]
      BY <1>4, <3>1
    <3> QED BY <2>1, <3>2 DEF LineWith
  <2>4. /\ d \in Nat /\ d > 0 /\ d = 10 - s /\ d + 1 = 11 - s /\ d + 2 = 12 - s
        /\ d + 3 = 13 - s /\ d + 4 = 14 - s /\ d + 5 = b
        /\ b \in Nat /\ b > 0 /\ b # 0 /\ b = 15 - s
    BY <1>2
  <2>5. d \in 1..(Len(x) - 2) /\ d + 4 <= Len(x)
    BY <1>2, <1>3, <2>2
  <2>6. \A h \in 1..(d - 1) : ~ KeyAt(x, h, SdpKey)
    <3> SUFFICES ASSUME NEW h \in 1..(d - 1), KeyAt(x, h, SdpKey) PROVE FALSE
      OBVIOUS
    <3>1. h + s > 9
      BY <1>8
    <3> QED BY <1>2, <3>1
  <2> HIDE DEF d, b
  <2>7. Find(x, SdpKey) = d
    <3>1. KeyAt(x, d, SdpKey)
      BY <2>3, <2>4, <2>5 DEF KeyAt
    <3> QED BY <1>4, <2>4, <2>6, <3>1, FindIs
  <2>8. ValueAt(x, d) = b
    BY <1>4, <2>3, <2>4, <2>5, ValueAtIs
  <2>9. Carries(x, b, e)
    <3>1. b + Len(e) <= Len(x)
      BY <1>2, <1>3, <2>2, <2>4
    <3>2. ASSUME NEW i \in 1..Len(e) PROVE x[b + i - 1] = e[i]
      <4>1. 14 + i \in 1..(Len(l) - 1) /\ 14 + i > s /\ 14 + i - s = b + i - 1
        BY <1>2, <1>3, <2>2, <2>4
      <4>2. x[14 + i - s] = l[14 + i] /\ l[14 + i] = e[i]
        BY <1>4, <2>1, <4>1 DEF LineWith
      <4> QED BY <4>1, <4>2
    <3>3. x[b + Len(e)] = Quote
      <4>1. /\ 15 + Len(e) \in 1..(Len(l) - 1) /\ 15 + Len(e) > s
            /\ 15 + Len(e) - s = b + Len(e)
        BY <1>2, <1>3, <2>2, <2>4
      <4>2. x[15 + Len(e) - s] = l[15 + Len(e)] /\ l[15 + Len(e)] = Quote
        BY <1>4, <2>1, <4>1 DEF LineWith
      <4> QED BY <4>1, <4>2
    <3> QED BY <3>1, <3>2, <3>3 DEF Carries
  <2>10. Unescape(x, b) = Plain(m.text)
    BY <1>4, <2>4, <2>9, Undone DEF e
  <2> QED BY <1>5, <2>4, <2>7, <2>8, <2>10 DEF x, l
<1> QED BY <1>9, <1>10

\* A line that lacks more than its brace is not understood.
LEMMA TailIsNotParsed ==
  ASSUME NEW m \in Messages, NEW s \in Nat, s >= 2, s <= Len(Encode(m)) - 1
  PROVE  ~ Parses(Body(Encode(m), s))
<1> DEFINE l == Encode(m)  x == Body(l, s)  e == Written(m)
<1>1. /\ IsLine(l) /\ Headed(l, m.type)
      /\ m.text = <<>> => LineWithout(l)
      /\ m.text # <<>> => LineWith(l, e)
  BY MessageIsLine, EncodeShape
<1>2. Len(l) \in Nat /\ Len(l) >= 10
  BY <1>1 DEF IsLine
<1>3. e \in Seq(Symbols) /\ Len(e) \in Nat /\ Clean(e)
  BY WrittenTyped
<1>4. /\ TypeKey # Quote /\ TypeKey # Colon /\ TypeKey # Comma /\ TypeKey # Close
      /\ TypeKey # SdpKey /\ TypeKey # m.type /\ TypeKey # Backslash
      /\ m.type # Quote /\ Colon # Quote /\ Comma # Quote /\ Close # Quote
      /\ SdpKey # Quote /\ Close # Colon
  BY MessageTyped, AtomsDiffer DEF Marks
<1>5. s <= Len(l) - 1
  OBVIOUS
<1> HIDE DEF l, e
<1>6. /\ x \in Seq(Symbols)
      /\ Len(x) = Len(l) - 1 - s /\ Len(x) \in Nat
      /\ \A i \in 1..(Len(l) - 1) : i > s => x[i - s] = l[i]
  BY <1>1, <1>5, BodyTyped
<1> HIDE DEF x
<1>7. Parses(x) <=> ValueAt(x, Find(x, TypeKey)) # 0
  BY DEF Parses, TypeKey
<1>8. CASE \A h \in Nat : ~ KeyAt(x, h, TypeKey)
  <2>1. Find(x, TypeKey) = 0
    BY <1>6, <1>8, FindNone
  <2>2. ValueAt(x, Find(x, TypeKey)) = 0
    BY <2>1 DEF ValueAt
  <2> QED BY <1>7, <2>2 DEF x, l
<1>9. CASE \E h \in Nat : KeyAt(x, h, TypeKey)
  <2> DEFINE h == Find(x, TypeKey)  i == h + s
  <2>1. KeyAt(x, h, TypeKey)
    BY <1>6, <1>9, FindCases
  <2> HIDE DEF h
  <2>2. /\ h \in Nat /\ h >= 1 /\ h + 2 <= Len(x)
        /\ x[h] = Quote /\ x[h + 1] = TypeKey /\ x[h + 2] = Quote
    BY <1>6, <2>1 DEF KeyAt
  <2>3. /\ i \in Nat /\ i >= 3 /\ i + 2 <= Len(l) - 1
        /\ i \in 1..(Len(l) - 1) /\ i > s /\ i - s = h
        /\ i + 1 \in 1..(Len(l) - 1) /\ i + 1 > s /\ i + 1 - s = h + 1
        /\ i + 2 \in 1..(Len(l) - 1) /\ i + 2 > s /\ i + 2 - s = h + 2
    BY <1>2, <1>6, <2>2
  <2> HIDE DEF i
  <2>4. l[i] = Quote /\ l[i + 1] = TypeKey /\ l[i + 2] = Quote
    <3>1. \A g \in 1..(Len(l) - 1) : \A j : g > s /\ g - s = j => x[j] = l[g]
      BY <1>6
    <3>2. x[h] = l[i]
      BY <2>3, <3>1
    <3>3. x[h + 1] = l[i + 1]
      BY <2>3, <3>1
    <3>4. x[h + 2] = l[i + 2]
      BY <2>3, <3>1
    <3> QED BY <2>2, <3>2, <3>3, <3>4
  <2>5. i > 7
    <3> SUFFICES ASSUME i <= 7 PROVE FALSE
      BY <2>3
    <3>1. i = 3 \/ i = 4 \/ i = 5 \/ i = 6 \/ i = 7
      BY <2>3
    <3>2. i # 3 /\ i # 5 /\ i # 7
      BY <1>1, <1>4, <2>4 DEF Headed
    <3>3. i = 4 \/ i = 6
      BY <3>1, <3>2
    <3> QED BY <1>1, <1>4, <2>4, <3>3 DEF Headed
  <2>6. m.text # <<>>
    <3> SUFFICES ASSUME m.text = <<>> PROVE FALSE
      OBVIOUS
    <3>1. Len(l) = 10
      BY <1>1 DEF LineWithout
    <3> QED BY <2>3, <2>5, <3>1
  <2>7. LineWith(l, e)
    BY <1>1, <2>6
  <2>8. Len(l) = 17 + Len(e)
    BY <2>7 DEF LineWith
  <2>9. i > 13
    <3> SUFFICES ASSUME i <= 13 PROVE FALSE
      BY <2>3
    <3>1. i = 8 \/ i = 9 \/ i = 10 \/ i = 11 \/ i = 12 \/ i = 13
      BY <2>3, <2>5
    <3>2. i # 9 /\ i # 11 /\ i # 13
      BY <1>4, <2>4, <2>7 DEF LineWith
    <3>3. i = 8 \/ i = 10 \/ i = 12
      BY <3>1, <3>2
    <3> QED BY <1>4, <2>4, <2>7, <3>3 DEF LineWith
  <2>10. i = 13 + Len(e)
    <3> DEFINE k == i - 13
    <3>1. k \in Nat /\ k >= 1 /\ i + 1 = 14 + k /\ i + 2 = 14 + (k + 1) /\ k <= Len(e) + 1
      BY <1>3, <2>3, <2>8, <2>9
    <3> HIDE DEF k
    <3>2. k # Len(e) + 1
      <4> SUFFICES ASSUME k = Len(e) + 1 PROVE FALSE
        OBVIOUS
      <4>1. i + 1 = 15 + Len(e)
        BY <1>3, <3>1
      <4> QED BY <1>4, <2>4, <2>7, <4>1 DEF LineWith
    <3>3. k \in 1..Len(e) /\ l[14 + k] = e[k]
      <4>1. k \in 1..Len(e)
        BY <1>3, <3>1, <3>2
      <4> QED BY <2>7, <4>1 DEF LineWith
    <3>4. ~(k + 1 <= Len(e))
      <4> SUFFICES ASSUME k + 1 <= Len(e) PROVE FALSE
        OBVIOUS
      <4>1. k + 1 \in 1..Len(e) /\ k + 1 - 1 = k
        BY <1>3, <3>1
      <4>2. l[14 + (k + 1)] = e[k + 1]
        BY <2>7, <4>1 DEF LineWith
      <4>3. e[k + 1] = Quote /\ e[k] = TypeKey
        BY <2>4, <3>1, <3>3, <4>2
      <4>4. e[k] = Backslash
        BY <1>3, <3>1, <4>1, <4>3, CleanBefore
      <4> QED BY <1>4, <4>1, <4>3, <4>4
    <3>5. k = Len(e)
      BY <1>3, <3>3, <3>4
    <3> QED BY <1>3, <2>3, <3>1, <3>5
  <2>11. h + 3 <= Len(x) /\ x[h + 3] = Close
    <3>1. /\ 16 + Len(e) \in 1..(Len(l) - 1) /\ 16 + Len(e) > s
          /\ 16 + Len(e) - s = h + 3 /\ h + 3 <= Len(x)
      BY <1>2, <1>3, <1>6, <2>2, <2>3, <2>8, <2>10
    <3>2. x[16 + Len(e) - s] = l[16 + Len(e)] /\ l[16 + Len(e)] = Close
      BY <1>6, <2>7, <3>1 DEF LineWith
    <3> QED BY <3>1, <3>2
  <2>12. ValueAt(x, h) = 0
    <3>1. h > 0 /\ x[h + 3] # Colon /\ x[h + 3] # Quote
      BY <1>4, <2>2, <2>11
    <3> QED BY <1>6, <2>2, <2>11, <3>1, ValueAtNone
  <2> QED BY <1>7, <2>12 DEF h, x, l
<1> QED BY <1>8, <1>9

\* What the parser makes of the role line.
LEMMA RoleLineParses ==
  LET x == Body(RoleLine, 0)
  IN  /\ RoleIn(x) = <<Role>>
      /\ Room # "type" => Parses(x) /\ TypeIn(x) = <<"role">>
<1> DEFINE l == RoleLine  x == Body(l, 0)
<1>1. IsLine(l) /\ RoleLineShaped(l)
  BY RoleLineIsLine, RoleLineShape
<1>2. Len(l) = 26
  BY <1>1 DEF RoleLineShaped
<1>3. /\ Open # Quote /\ RoleKey # Quote /\ Role # Quote /\ Colon # Quote
      /\ Comma # Quote /\ RoomKey # Quote /\ Room # Quote
  BY AtomsDiffer DEF Marks
<1>4. /\ TypeKey # RoleKey /\ TypeKey # Colon /\ TypeKey # Role /\ TypeKey # Comma
      /\ TypeKey # RoomKey
  BY AtomsDiffer
<1> HIDE DEF l
<1>5. x \in Seq(Symbols) /\ Len(x) = 25 /\ \A i \in 1..25 : x[i] = l[i]
  <2>1. /\ x \in Seq(Symbols) /\ Len(x) = Len(l) - 1 - 0
        /\ \A i \in 1..(Len(l) - 1) : i > 0 => x[i - 0] = l[i]
    <3> DEFINE z == 0
    <3>1. z \in Nat /\ z <= Len(l) - 1
      BY <1>2
    <3> HIDE DEF z
    <3>2. /\ Body(l, z) \in Seq(Symbols) /\ Len(Body(l, z)) = Len(l) - 1 - z
          /\ \A i \in 1..(Len(l) - 1) : i > z => Body(l, z)[i - z] = l[i]
      BY <1>1, <3>1, BodyTyped
    <3> QED BY <3>2 DEF x, z
  <2>2. Len(l) - 1 - 0 = 25 /\ Len(l) - 1 = 25 /\ \A i \in 1..25 : i > 0 /\ i - 0 = i
    BY <1>2
  <2> QED BY <2>1, <2>2
<1> HIDE DEF x
<1>6. /\ x[1] = Open /\ x[2] = Quote /\ x[3] = RoleKey /\ x[4] = Quote
      /\ x[5] = Colon /\ x[6] = Quote /\ x[7] = Role /\ x[8] = Quote /\ x[9] = Comma
      /\ x[10] = Quote /\ x[11] = RoomKey /\ x[12] = Quote
  BY <1>1, <1>5 DEF RoleLineShaped
<1>7. /\ x[13] = Colon /\ x[14] = Quote /\ x[15] = Room /\ x[16] = Quote
      /\ x[17] = Comma /\ x[18] = Quote /\ x[19] = TypeKey /\ x[20] = Quote
      /\ x[21] = Colon /\ x[22] = Quote /\ x[23] = RoleKey /\ x[24] = Quote
  BY <1>1, <1>5 DEF RoleLineShaped
<1>8. RoleIn(x) = <<Role>>
  <2>1. KeyAt(x, 2, RoleKey)
    BY <1>5, <1>6 DEF KeyAt
  <2>2. \A h \in 1..(2 - 1) : ~ KeyAt(x, h, RoleKey)
    <3>1. \A h \in 1..(2 - 1) : h = 1
      OBVIOUS
    <3> QED BY <1>3, <1>6, <3>1 DEF KeyAt
  <2>3. Find(x, RoleKey) = 2
    BY <1>5, <2>1, <2>2, FindIs
  <2>4. ValueAt(x, 2) = 7
    <3>1. 2 + 3 = 5 /\ 2 + 4 = 6 /\ 2 + 5 = 7 /\ 2 + 4 <= Len(x) /\ 2 \in Nat /\ 2 > 0
      BY <1>5
    <3>2. x[2 + 3] = Colon /\ x[2 + 4] = Quote
      BY <1>6, <3>1
    <3>3. ValueAt(x, 2) = 2 + 5
      BY <1>5, <3>1, <3>2, ValueAtIs
    <3> QED BY <3>3
  <2>5. UpToQuote(x, 7) = <<Role>>
    <3>1. 7 + 1 = 8 /\ 7 + 1 <= Len(x) /\ 7 \in Nat /\ 7 > 0
      BY <1>5
    <3>2. x[7] # Quote /\ x[7 + 1] = Quote
      BY <1>3, <1>6, <3>1
    <3>3. UpToQuote(x, 7) = <<x[7]>>
      BY <1>5, <3>1, <3>2, UpToQuoteIs
    <3> QED BY <1>6, <3>3
  <2> QED BY <2>3, <2>4, <2>5 DEF RoleIn, RoleKey
<1>9. ASSUME Room # TypeKey PROVE Parses(x) /\ TypeIn(x) = <<RoleKey>>
  <2>1. KeyAt(x, 18, TypeKey)
    BY <1>5, <1>7 DEF KeyAt
  <2>2. \A h \in 1..(18 - 1) : ~ KeyAt(x, h, TypeKey)
    <3>1. SUFFICES ASSUME NEW h \in 1..17, KeyAt(x, h, TypeKey) PROVE FALSE
      OBVIOUS
    <3>2. x[h] = Quote /\ x[h + 1] = TypeKey
      BY <3>1 DEF KeyAt
    <3>3. \/ h = 1 \/ h = 2 \/ h = 3 \/ h = 4 \/ h = 5 \/ h = 6 \/ h = 7 \/ h = 8
          \/ h = 9 \/ h = 10 \/ h = 11 \/ h = 12 \/ h = 13 \/ h = 14 \/ h = 15
          \/ h = 16 \/ h = 17
      OBVIOUS
    <3>4. /\ h # 1 /\ h # 3 /\ h # 5 /\ h # 7 /\ h # 9 /\ h # 11
      BY <1>3, <1>6, <3>2
    <3>5. h # 13 /\ h # 15 /\ h # 17
      BY <1>3, <1>7, <3>2
    <3>6. h # 2 /\ h # 4 /\ h # 6 /\ h # 8 /\ h # 10 /\ h # 12
      <4>1. h = 2 => h + 1 = 3
        OBVIOUS
      <4>2. h = 4 => h + 1 = 5
        OBVIOUS
      <4>3. h = 6 => h + 1 = 7
        OBVIOUS
      <4>4. h = 8 => h + 1 = 9
        OBVIOUS
      <4>5. h = 10 => h + 1 = 11
        OBVIOUS
      <4>6. h = 12 => h + 1 = 13
        OBVIOUS
      <4> QED BY <1>4, <1>6, <1>7, <3>2, <4>1, <4>2, <4>3, <4>4, <4>5, <4>6
    <3>7. h # 14 /\ h # 16
      <4>1. h = 14 => h + 1 = 15
        OBVIOUS
      <4>2. h = 16 => h + 1 = 17
        OBVIOUS
      <4> QED BY <1>4, <1>7, <1>9, <3>2, <4>1, <4>2
    <3> QED BY <3>3, <3>4, <3>5, <3>6, <3>7
  <2>3. Find(x, TypeKey) = 18
    BY <1>5, <2>1, <2>2, FindIs
  <2>4. ValueAt(x, 18) = 23
    <3>1. /\ 18 + 3 = 21 /\ 18 + 4 = 22 /\ 18 + 5 = 23 /\ 18 + 4 <= Len(x)
          /\ 18 \in Nat /\ 18 > 0
      BY <1>5
    <3>2. x[18 + 3] = Colon /\ x[18 + 4] = Quote
      BY <1>7, <3>1
    <3>3. ValueAt(x, 18) = 18 + 5
      BY <1>5, <3>1, <3>2, ValueAtIs
    <3> QED BY <3>3
  <2>5. UpToQuote(x, 23) = <<RoleKey>>
    <3>1. 23 + 1 = 24 /\ 23 + 1 <= Len(x) /\ 23 \in Nat /\ 23 > 0
      BY <1>5
    <3>2. x[23] # Quote /\ x[23 + 1] = Quote
      BY <1>3, <1>7, <3>1
    <3>3. UpToQuote(x, 23) = <<x[23]>>
      BY <1>5, <3>1, <3>2, UpToQuoteIs
    <3> QED BY <1>7, <3>3
  <2> QED BY <2>3, <2>4, <2>5 DEF Parses, TypeIn, TypeKey
<1> QED BY <1>8, <1>9 DEF x, l, TypeKey, RoleKey

-----------------------------------------------------------------------------
(* Receiving.                                                              *)

Understood == [type : {TypeIn(x) : x \in Seq(Symbols)}, text : {TextIn(x) : x \in Seq(Symbols)}]

Receivers ==
  [phase : {"role", "found", "run"}, line : Seq(Symbols),
   role : {<<>>} \cup {RoleIn(x) : x \in Seq(Symbols)},
   handled : Seq(Understood), discarded : Seq(Symbols)]

LEMMA TakeSymbolTyped ==
  ASSUME NEW r \in Receivers, NEW c \in Symbols
  PROVE  TakeSymbol(r, c) \in Receivers
<1> USE DEF Receivers
<1>1. /\ r.line \in Seq(Symbols) /\ r.handled \in Seq(Understood)
      /\ r.discarded \in Seq(Symbols)
      /\ Append(r.line, c) \in Seq(Symbols)
      /\ Append(r.discarded, c) \in Seq(Symbols)
      /\ <<>> \in Seq(Symbols)
  OBVIOUS
<1>2. TakeBeforeRole(r, c) \in Receivers
  <2>1. RoleIn(r.line) \in {RoleIn(x) : x \in Seq(Symbols)}
    BY <1>1
  <2> QED BY <1>1, <2>1 DEF TakeBeforeRole
<1>3. [r EXCEPT !.discarded = Append(@, c)] \in Receivers
  BY <1>1
<1>4. Take(r, c) \in Receivers
  <2> DEFINE h == [type |-> TypeIn(r.line), text |-> TextIn(r.line)]
  <2>1. h \in Understood
    BY <1>1 DEF Understood
  <2>2. Take(r, c) \in {r, [r EXCEPT !.line = Append(@, c)], [r EXCEPT !.line = <<>>],
                        [r EXCEPT !.line = <<>>, !.handled = Append(@, h)]}
    BY DEF Take
  <2> HIDE DEF h
  <2>3. Append(r.handled, h) \in Seq(Understood)
    BY <1>1, <2>1
  <2> QED BY <1>1, <2>2, <2>3
<1> HIDE DEF Receivers
<1> QED BY <1>2, <1>3, <1>4 DEF TakeSymbol

IsChunk(g, r, chunk) ==
  /\ g \in [0..Len(chunk) -> Receivers]
  /\ g[0] = r
  /\ \A k \in 1..Len(chunk) : g[k] = TakeSymbol(g[k - 1], chunk[k])

\* The recursive function of TakeChunk is well defined.
LEMMA ChunkLoop ==
  ASSUME NEW r \in Receivers, NEW chunk \in Seq(Symbols)
  PROVE  \E g : IsChunk(g, r, chunk) /\ TakeChunk(r, chunk) = g[Len(chunk)]
<1> DEFINE n == Len(chunk)
           X == Receivers
           b == r
           F == [p \in X \X (1..n) |-> TakeSymbol(p[1], chunk[p[2]])]
           f == CHOOSE f : f = [k \in 0..n |->
                  IF k = 0 THEN b ELSE TakeSymbol(f[k - 1], chunk[k])]
<1>0. n \in Nat /\ b \in X
  OBVIOUS
<1>1. ASSUME NEW a \in X, NEW k \in 1..n PROVE TakeSymbol(a, chunk[k]) \in X
  BY TakeSymbolTyped
<1>2. TakeChunk(r, chunk) = f[n]
  BY DEF TakeChunk
<1> HIDE DEF X, b
<1>3. F \in [X \X (1..n) -> X]
  BY <1>1
<1>4. \A a \in X, k \in 1..n : F[<<a, k>>] = TakeSymbol(a, chunk[k])
  OBVIOUS
<1> HIDE DEF F, n
<1>5. PICK g : IsLoop(g, X, b, n, F)
  BY <1>0, <1>3, LoopExists
<1>6. ASSUME NEW k \in 1..n PROVE g[k] = TakeSymbol(g[k - 1], chunk[k])
  <2>1. g[k - 1] \in X
    BY <1>0, <1>5 DEF IsLoop
  <2> QED BY <1>4, <1>5, <2>1 DEF IsLoop
<1>7. g = [k \in 0..n |-> IF k = 0 THEN b ELSE TakeSymbol(g[k - 1], chunk[k])]
  BY <1>0, <1>5, <1>6 DEF IsLoop
<1>8. f = [k \in 0..n |-> IF k = 0 THEN b ELSE TakeSymbol(f[k - 1], chunk[k])]
  BY <1>7
<1> HIDE DEF f
<1>9. f[0] = b /\ \A k \in 1..n : f[k] = TakeSymbol(f[k - 1], chunk[k])
  <2>1. f[0] = b
    BY <1>0, <1>8
  <2>2. ASSUME NEW k \in 1..n PROVE f[k] = TakeSymbol(f[k - 1], chunk[k])
    <3>1. k \in 0..n /\ k # 0
      BY <1>0
    <3> QED BY <1>8, <3>1
  <2> QED BY <2>1, <2>2
<1>10. \A k \in 0..n : f[k] = g[k]
  <2>1. MakesTurns(f, X, b, n, F)
    BY <1>4, <1>9 DEF MakesTurns
  <2> QED BY <1>0, <1>5, <2>1, LoopIs
<1>11. f = g
  BY <1>7, <1>8, <1>10
<1> QED BY <1>2, <1>5, <1>6, <1>11 DEF IsLoop, IsChunk, X, b, n

\* The lines of the stream: the role line, then those of the messages in S.
Line(S, i) == IF i = 0 THEN RoleLine ELSE Encode(S[i])

LEMMA LineIsLine ==
  ASSUME NEW S \in Seq(Messages), NEW i \in 0..Len(S)
  PROVE  IsLine(Line(S, i))
<1>1. i = 0 \/ i \in 1..Len(S)
  OBVIOUS
<1>2. CASE i = 0
  BY <1>2, RoleLineIsLine DEF Line
<1>3. CASE i \in 1..Len(S)
  <2>1. S[i] \in Messages /\ i # 0
    BY <1>3
  <2> QED BY <2>1, MessageIsLine DEF Line
<1> QED BY <1>1, <1>2, <1>3

\* What the receiver r knows when it has taken p symbols of line j of S.  In
\* "run" the line buffer lacks the s symbols that main() discarded; k messages
\* were lost before the first that was understood.
BeforeRole(S, r, j, p) ==
  /\ r.phase = "role"
  /\ r.line = Part(Line(S, j), 0, p)
  /\ r.handled = <<>>
  /\ r.discarded = <<>>
  /\ Room # "type" => j = 0

BehindRole(r, j, p) ==
  /\ r.phase = "found"
  /\ r.line = <<>>
  /\ r.role = <<Role>>
  /\ r.handled = <<>>
  /\ j >= 1
  /\ r.discarded = <<>> => j = 1 /\ p = 0

HandledFrom(S, r, j, k) ==
  /\ k + Len(r.handled) + 1 = j
  /\ \A i \in 1..Len(r.handled) : Same(r.handled[i], S[i + k])
  /\ r.discarded = <<>> => k = 0

Running(S, r, j, p) ==
  /\ r.phase = "run"
  /\ r.role = <<Role>>
  /\ \E s \in 0..p :
       /\ r.line = Part(Line(S, j), s, p)
       /\ s # 0 => r.handled = <<>> /\ r.discarded # <<>>
  /\ \E k \in Nat : HandledFrom(S, r, j, k)

Knows(S, r, j, p) ==
  BeforeRole(S, r, j, p) \/ BehindRole(r, j, p) \/ Running(S, r, j, p)

LEMMA PartEmpty ==
  ASSUME NEW l, NEW s \in Nat
  PROVE  Part(l, s, s) = <<>>
BY DEF Part

\* A symbol in the middle of a line.
LEMMA KnowsInLine ==
  ASSUME NEW S \in Seq(Messages), NEW r \in Receivers, NEW j \in 0..Len(S),
         NEW p \in Nat, p + 1 < Len(Line(S, j)), Knows(S, r, j, p)
  PROVE  Knows(S, TakeSymbol(r, Line(S, j)[p + 1]), j, p + 1)
<1> DEFINE l == Line(S, j)  c == l[p + 1]
<1>1. IsLine(l)
  BY LineIsLine
<1>2. /\ l \in Seq(Symbols) /\ Len(l) \in Nat /\ Len(l) < BufSize /\ p + 1 < Len(l)
      /\ p + 1 \in 1..(Len(l) - 1) /\ p < Len(l) /\ p <= Len(l) /\ j # Len(S) + 1
      /\ p + 1 \in Nat
  BY <1>1 DEF IsLine
<1>3. c \notin {NL, CR} /\ c \in Symbols
  BY <1>1, <1>2 DEF IsLine
<1>4. r.line \in Seq(Symbols) /\ r.discarded \in Seq(Symbols)
  BY DEF Receivers
<1>5. BufSize \in Nat
  BY SignalCodecAssumption
<1> HIDE DEF l, c
<1>6. CASE BeforeRole(S, r, j, p)
  <2> DEFINE q == [r EXCEPT !.line = Append(@, c)]
  <2>1. TakeSymbol(r, c) = q
    BY <1>3, <1>6 DEF BeforeRole, TakeSymbol, TakeBeforeRole
  <2>2. /\ q.phase = r.phase /\ q.handled = r.handled /\ q.discarded = r.discarded
        /\ q.line = Append(r.line, c)
    BY DEF Receivers
  <2>3. Append(Part(l, 0, p), c) = Part(l, 0, p + 1)
    <3> DEFINE z == 0
    <3>1. z \in Nat /\ z <= p
      OBVIOUS
    <3> HIDE DEF z
    <3>2. Append(Part(l, z, p), l[p + 1]) = Part(l, z, p + 1)
      BY <1>2, <3>1, PartGrows
    <3> QED BY <3>2 DEF z, c
  <2> HIDE DEF q
  <2>4. BeforeRole(S, q, j, p + 1)
    BY <1>6, <2>2, <2>3 DEF BeforeRole, l
  <2> QED BY <2>1, <2>4 DEF Knows, c, l
<1>7. CASE BehindRole(r, j, p)
  <2> DEFINE q == [r EXCEPT !.discarded = Append(@, c)]
  <2>1. TakeSymbol(r, c) = q
    BY <1>7 DEF BehindRole, TakeSymbol
  <2>2. /\ q.phase = r.phase /\ q.line = r.line /\ q.role = r.role
        /\ q.handled = r.handled /\ q.discarded # <<>>
    <3> DEFINE d == Append(r.discarded, c)
    <3>1. d # <<>>
      BY <1>3, <1>4
    <3> HIDE DEF d
    <3>2. q = [r EXCEPT !.discarded = d]
      BY DEF d
    <3> HIDE DEF q
    <3> QED BY <3>1, <3>2 DEF Receivers
  <2> HIDE DEF q
  <2>3. BehindRole(q, j, p + 1)
    BY <1>7, <2>2 DEF BehindRole
  <2> QED BY <2>1, <2>3 DEF Knows, c, l
<1>8. CASE Running(S, r, j, p)
  <2> DEFINE q == [r EXCEPT !.line = Append(@, c)]
  <2>1. PICK s \in 0..p : /\ r.line = Part(l, s, p)
                          /\ s # 0 => r.handled = <<>> /\ r.discarded # <<>>
    BY <1>8 DEF Running, l
  <2>2. s \in Nat /\ s <= p /\ s \in 0..(p + 1)
    OBVIOUS
  <2>3. Len(r.line) = p - s
    BY <1>2, <2>1, <2>2, PartTyped
  <2>4. Len(r.line) < BufSize - 1
    BY <1>2, <1>5, <2>2, <2>3
  <2>5. TakeSymbol(r, c) = q
    BY <1>3, <1>8, <2>4 DEF Running, TakeSymbol, Take
  <2>6. /\ q.phase = r.phase /\ q.role = r.role
        /\ q.handled = r.handled /\ q.discarded = r.discarded
        /\ q.line = Append(r.line, c)
    BY DEF Receivers
  <2>7. q.line = Part(l, s, p + 1)
    BY <1>2, <2>1, <2>2, <2>6, PartGrows DEF c
  <2> HIDE DEF q
  <2>8. \E k \in Nat : HandledFrom(S, q, j, k)
    BY <1>8, <2>6 DEF Running, HandledFrom
  <2>9. Running(S, q, j, p + 1)
    BY <1>8, <2>1, <2>2, <2>6, <2>7, <2>8 DEF Running, l
  <2> QED BY <2>5, <2>9 DEF Knows, c, l
<1> QED BY <1>6, <1>7, <1>8 DEF Knows

\* The end of a line.
LEMMA KnowsAtLineEnd ==
  ASSUME NEW S \in Seq(Messages), NEW r \in Receivers, NEW j \in 0..Len(S),
         NEW p \in Nat, p + 1 = Len(Line(S, j)), Knows(S, r, j, p)
  PROVE  Knows(S, TakeSymbol(r, Line(S, j)[p + 1]), j + 1, 0)
<1> DEFINE l == Line(S, j)
<1>1. IsLine(l)
  BY LineIsLine
<1>2. /\ l \in Seq(Symbols) /\ Len(l) \in Nat /\ Len(l) >= 10
      /\ l[p + 1] = NL /\ p + 1 = Len(l) /\ p = Len(l) - 1 /\ p >= 9
  BY <1>1 DEF IsLine
<1>3. /\ j \in Nat /\ j + 1 \in Nat /\ j + 1 >= 1
      /\ (j = 0 => j + 1 = 1) /\ 0 \in 0..0
  OBVIOUS
<1>4. r.line \in Seq(Symbols) /\ r.discarded \in Seq(Symbols) /\ r.handled \in Seq(Understood)
  BY DEF Receivers
<1>5. Part(Line(S, j + 1), 0, 0) = <<>>
  BY PartEmpty
<1>6. j # 0 => j \in 1..Len(S) /\ S[j] \in Messages /\ l = Encode(S[j])
  BY DEF Line
<1>7. j = 0 => l = RoleLine
  BY DEF Line
<1>8. \A s : Part(l, s, p) = Body(l, s)
  BY <1>2 DEF Body
<1> HIDE DEF l
<1>9. CASE BeforeRole(S, r, j, p)
  <2> DEFINE q == [r EXCEPT !.line = <<>>, !.role = RoleIn(r.line), !.phase = "found"]
             u == [r EXCEPT !.line = <<>>]
  <2>1. r.line = Body(l, 0)
    BY <1>8, <1>9 DEF BeforeRole, l
  <2>2. /\ (Parses(r.line) /\ TypeIn(r.line) = <<"role">>) => TakeSymbol(r, NL) = q
        /\ ~(Parses(r.line) /\ TypeIn(r.line) = <<"role">>) => TakeSymbol(r, NL) = u
    BY <1>9 DEF BeforeRole, TakeSymbol, TakeBeforeRole
  <2>3. CASE j = 0
    <3>1. RoleIn(r.line) = <<Role>>
      BY <1>7, <2>1, <2>3, RoleLineParses
    <3>2. Room # "type" => Parses(r.line) /\ TypeIn(r.line) = <<"role">>
      BY <1>7, <2>1, <2>3, RoleLineParses
    <3>3. /\ q.phase = "found" /\ q.line = <<>> /\ q.role = RoleIn(r.line)
          /\ q.handled = r.handled /\ q.discarded = r.discarded
      BY DEF Receivers
    <3>4. /\ u.phase = r.phase /\ u.line = <<>>
          /\ u.handled = r.handled /\ u.discarded = r.discarded
      BY DEF Receivers
    <3> HIDE DEF q, u
    <3>5. BehindRole(q, j + 1, 0)
      BY <1>3, <1>9, <2>3, <3>1, <3>3 DEF BeforeRole, BehindRole
    <3>6. Room = "type" => BeforeRole(S, u, j + 1, 0)
      BY <1>5, <1>9, <3>4 DEF BeforeRole
    <3> QED BY <1>2, <2>2, <3>2, <3>5, <3>6 DEF Knows, l
  <2>4. CASE j # 0
    <3>1. Room = "type"
      BY <1>9, <2>4 DEF BeforeRole
    <3>2. TypeIn(r.line) = <<S[j].type>>
      <4> DEFINE z == 0
      <4>1. z \in {0, 1}
        OBVIOUS
      <4> HIDE DEF z
      <4>2. TypeIn(Body(Encode(S[j]), z)) = <<S[j].type>>
        BY <1>6, <2>4, <4>1, BodyParses
      <4> QED BY <1>6, <2>1, <2>4, <4>2 DEF z
    <3>3. S[j].type # RoleKey
      BY <1>6, <2>4, MessageTyped, AtomsDiffer
    <3>4. TypeIn(r.line) # <<"role">>
      BY <3>2, <3>3 DEF RoleKey
    <3>5. /\ u.phase = r.phase /\ u.line = <<>>
          /\ u.handled = r.handled /\ u.discarded = r.discarded
      BY DEF Receivers
    <3> HIDE DEF q, u
    <3>6. BeforeRole(S, u, j + 1, 0)
      BY <1>5, <1>9, <3>1, <3>5 DEF BeforeRole
    <3> QED BY <1>2, <2>2, <3>4, <3>6 DEF Knows, l
  <2> QED BY <2>3, <2>4
<1>10. CASE BehindRole(r, j, p)
  <2> DEFINE q == [r EXCEPT !.discarded = Append(@, NL)]
  <2>1. TakeSymbol(r, NL) = q
    BY <1>10 DEF BehindRole, TakeSymbol
  <2>2. NL \in Symbols
    BY LiteralsTyped
  <2>3. /\ q.phase = r.phase /\ q.line = r.line /\ q.role = r.role
        /\ q.handled = r.handled /\ q.discarded # <<>>
    <3> DEFINE d == Append(r.discarded, NL)
    <3>1. d # <<>>
      BY <1>4, <2>2
    <3> HIDE DEF d
    <3>2. q = [r EXCEPT !.discarded = d]
      BY DEF d
    <3> HIDE DEF q
    <3> QED BY <3>1, <3>2 DEF Receivers
  <2> HIDE DEF q
  <2>4. BehindRole(q, j + 1, 0)
    BY <1>3, <1>10, <2>3 DEF BehindRole
  <2> QED BY <1>2, <2>1, <2>4 DEF Knows, l
<1>11. CASE Running(S, r, j, p)
  <2> DEFINE h == [type |-> TypeIn(r.line), text |-> TextIn(r.line)]
             q == [r EXCEPT !.line = <<>>, !.handled = Append(@, h)]
             u == [r EXCEPT !.line = <<>>]
  <2>1. PICK s \in 0..p : /\ r.line = Part(l, s, p)
                          /\ s # 0 => r.handled = <<>> /\ r.discarded # <<>>
    BY <1>11 DEF Running, l
  <2>2. PICK k \in Nat : HandledFrom(S, r, j, k)
    BY <1>11 DEF Running
  <2>3. r.line = Body(l, s)
    BY <1>8, <2>1
  <2>4. j # 0
    BY <1>4, <2>2 DEF HandledFrom
  <2> DEFINE m == S[j]
  <2>5. m \in Messages /\ l = Encode(m) /\ j \in 1..Len(S)
    BY <1>6, <2>4
  <2>6. /\ r.line # <<>> /\ Parses(r.line) => TakeSymbol(r, NL) = q
        /\ ~(r.line # <<>> /\ Parses(r.line)) => TakeSymbol(r, NL) = u
    BY <1>11 DEF Running, TakeSymbol, Take
  <2>7. /\ u.phase = r.phase /\ u.line = <<>> /\ u.role = r.role
        /\ u.handled = r.handled /\ u.discarded = r.discarded
    BY DEF Receivers
  <2>8. /\ q.phase = r.phase /\ q.line = <<>> /\ q.role = r.role
        /\ q.handled = Append(r.handled, h) /\ q.discarded = r.discarded
    BY DEF Receivers
  <2>9. h.type = TypeIn(r.line) /\ h.text = TextIn(r.line)
    OBVIOUS
  <2>10. h \in Understood
    BY <1>4 DEF Understood
  <2> HIDE DEF h, q, u, m
  <2>11. CASE s \in {0, 1}
    <3>1. Parses(r.line) /\ h.type = <<m.type>>
      BY <2>3, <2>5, <2>9, <2>11, BodyParses
    <3>2. WithoutBackslash(m.text) => h.text = Plain(m.text)
      BY <2>3, <2>5, <2>9, <2>11, BodyTells
    <3>3. Same(h, m)
      BY <3>1, <3>2 DEF Same, WithoutBackslash
    <3>4. r.line # <<>>
      <4>1. s = 0 \/ s = 1
        BY <2>11
      <4>2. p \in Nat /\ p >= 9
        BY <1>2
      <4>3. s \in Nat /\ s <= p /\ p - s # 0
        BY <4>1, <4>2
      <4>4. p <= Len(l)
        BY <1>2
      <4>5. Len(Part(l, s, p)) = p - s
        BY <1>2, <4>3, <4>4, PartTyped
      <4>6. Len(r.line) # 0
        BY <2>1, <4>3, <4>5
      <4> QED BY <4>6
    <3>5. TakeSymbol(r, NL) = q
      BY <2>6, <3>1, <3>4
    <3>6. HandledFrom(S, q, j + 1, k)
      <4>1. /\ k + Len(r.handled) + 1 = j
            /\ \A i \in 1..Len(r.handled) : Same(r.handled[i], S[i + k])
            /\ r.discarded = <<>> => k = 0
        BY <2>2 DEF HandledFrom
      <4>2. /\ Len(q.handled) = Len(r.handled) + 1 /\ Len(r.handled) \in Nat
            /\ \A i \in 1..Len(r.handled) : q.handled[i] = r.handled[i]
            /\ q.handled[Len(r.handled) + 1] = h
        BY <1>4, <2>8, <2>10, AppendProperties
      <4>3. ASSUME NEW i \in 1..Len(q.handled) PROVE Same(q.handled[i], S[i + k])
        <5>1. CASE i = Len(r.handled) + 1
          <6>1. i + k = j
            BY <1>3, <4>1, <4>2, <5>1
          <6> QED BY <3>3, <4>2, <5>1, <6>1 DEF m
        <5>2. CASE i # Len(r.handled) + 1
          <6>1. i \in 1..Len(r.handled)
            BY <4>2, <5>2
          <6> QED BY <4>1, <4>2, <6>1
        <5> QED BY <5>1, <5>2
      <4>4. k + Len(q.handled) + 1 = j + 1
        BY <4>1, <4>2
      <4> QED BY <2>8, <4>1, <4>3, <4>4 DEF HandledFrom
    <3>7. Running(S, q, j + 1, 0)
      BY <1>3, <1>5, <1>11, <2>8, <3>6 DEF Running
    <3> QED BY <1>2, <3>5, <3>7 DEF Knows, l
  <2>12. CASE s \notin {0, 1}
    <3>1. s \in Nat /\ s >= 2 /\ s <= Len(l) - 1
      BY <1>2, <2>12
    <3>2. ~ Parses(r.line)
      BY <2>3, <2>5, <3>1, TailIsNotParsed
    <3>3. TakeSymbol(r, NL) = u
      BY <2>6, <3>2
    <3>4. r.handled = <<>> /\ r.discarded # <<>>
      BY <2>1, <3>1
    <3>5. HandledFrom(S, u, j + 1, k + 1)
      <4>1. k + Len(r.handled) + 1 = j
        BY <2>2 DEF HandledFrom
      <4>2. Len(u.handled) = 0 /\ u.discarded # <<>> /\ Len(r.handled) = 0
        BY <2>7, <3>4
      <4>3. k + 1 + Len(u.handled) + 1 = j + 1
        BY <1>3, <4>1, <4>2
      <4> QED BY <4>2, <4>3 DEF HandledFrom
    <3>6. Running(S, u, j + 1, 0)
      BY <1>3, <1>5, <1>11, <2>7, <3>5 DEF Running
    <3> QED BY <1>2, <3>3, <3>6 DEF Knows, l
  <2> QED BY <2>11, <2>12
<1> QED BY <1>9, <1>10, <1>11 DEF Knows

-----------------------------------------------------------------------------
(* The stream.                                                             *)

\* o[i] is where line i of S begins in w (negative, or 0, if it began before
\* w); o[Len(S) + 1] is the end of w.
Frame(S, w, o) ==
  /\ o \in [0..(Len(S) + 1) -> Int]
  /\ o[Len(S) + 1] = Len(w)
  /\ \A i \in 0..(Len(S) + 1) : o[i] <= Len(w)
  /\ \A i \in 0..Len(S) :
       /\ o[i + 1] = o[i] + Len(Line(S, i))
       /\ \A q \in 1..Len(Line(S, i)) : o[i] + q >= 1 => w[o[i] + q] = Line(S, i)[q]

\* r has taken t symbols of that stream.
InChunk(S, o, r, t) ==
  \E j \in 0..(Len(S) + 1) :
    /\ o[j] <= t
    /\ j <= Len(S) => t < o[j + 1]
    /\ Knows(S, r, j, t - o[j])

LEMMA ChunkAdvances ==
  ASSUME NEW S \in Seq(Messages), NEW w \in Seq(Symbols), NEW o, Frame(S, w, o),
         NEW r \in Receivers, NEW t \in Nat, t < Len(w), InChunk(S, o, r, t)
  PROVE  InChunk(S, o, TakeSymbol(r, w[t + 1]), t + 1)
<1> DEFINE N == Len(S)
<1>1. N \in Nat /\ Len(w) \in Nat
  OBVIOUS
<1>2. PICK j \in 0..(N + 1) : /\ o[j] <= t
                              /\ j <= N => t < o[j + 1]
                              /\ Knows(S, r, j, t - o[j])
  BY DEF InChunk
<1>3. o[j] \in Int /\ j # N + 1
  BY <1>1, <1>2 DEF Frame
<1>4. j \in 0..N /\ j \in Nat /\ j + 1 \in 0..(N + 1)
  BY <1>1, <1>3
<1> DEFINE l == Line(S, j)
<1>5. o[j + 1] = o[j] + Len(l) /\ t < o[j + 1]
  BY <1>2, <1>4 DEF Frame
<1>6. IsLine(l)
  BY <1>4, LineIsLine
<1>7. l \in Seq(Symbols) /\ Len(l) \in Nat
  BY <1>6 DEF IsLine
<1> DEFINE p == t - o[j]
<1>8. /\ p \in Nat /\ p + 1 <= Len(l) /\ p + 1 \in 1..Len(l)
      /\ o[j] + (p + 1) = t + 1 /\ o[j] + (p + 1) >= 1 /\ (t + 1) - o[j] = p + 1
  BY <1>2, <1>3, <1>5, <1>7
<1>9. w[t + 1] = l[p + 1]
  <2>1. w[o[j] + (p + 1)] = l[p + 1]
    BY <1>4, <1>8 DEF Frame
  <2> QED BY <1>8, <2>1
<1>10. Knows(S, r, j, p)
  BY <1>2
<1> DEFINE q == TakeSymbol(r, w[t + 1])
<1>11. q = TakeSymbol(r, Line(S, j)[p + 1])
  BY <1>9
<1> HIDE DEF p, q
<1>12. CASE p + 1 < Len(l)
  <2>1. Knows(S, q, j, p + 1)
    BY <1>4, <1>8, <1>10, <1>11, <1>12, KnowsInLine
  <2>2. Knows(S, q, j, (t + 1) - o[j])
    BY <1>8, <2>1
  <2>3. o[j] <= t + 1 /\ t + 1 < o[j + 1]
    BY <1>3, <1>5, <1>7, <1>8, <1>12
  <2> QED BY <1>2, <2>2, <2>3 DEF InChunk, q
<1>13. CASE p + 1 = Len(l)
  <2> DEFINE h == j + 1
  <2>1. Knows(S, q, h, 0)
    BY <1>4, <1>8, <1>10, <1>11, <1>13, KnowsAtLineEnd
  <2>2. o[h] = t + 1
    BY <1>3, <1>5, <1>7, <1>8, <1>13
  <2>3. (t + 1) - o[h] = 0 /\ o[h] <= t + 1
    BY <2>2
  <2>4. h <= N => t + 1 < o[h + 1]
    <3> SUFFICES ASSUME h <= N PROVE t + 1 < o[h + 1]
      OBVIOUS
    <3>1. h \in 0..N
      BY <1>4
    <3>2. o[h + 1] = o[h] + Len(Line(S, h))
      BY <3>1 DEF Frame
    <3>3. Len(Line(S, h)) \in Nat /\ Len(Line(S, h)) >= 10
      BY <3>1, LineIsLine DEF IsLine
    <3> QED BY <2>2, <3>2, <3>3
  <2>5. h \in 0..(N + 1)
    BY <1>4
  <2> HIDE DEF h
  <2>6. Knows(S, q, h, (t + 1) - o[h])
    BY <2>1, <2>3
  <2> QED BY <2>3, <2>4, <2>5, <2>6 DEF InChunk, q
<1>14. p + 1 < Len(l) \/ p + 1 = Len(l)
  BY <1>7, <1>8
<1> QED BY <1>12, <1>13, <1>14

LEMMA ChunkTaken ==
  ASSUME NEW S \in Seq(Messages), NEW w \in Seq(Symbols), NEW o, Frame(S, w, o),
         NEW r \in Receivers, NEW n \in Nat, n <= Len(w), InChunk(S, o, r, 0)
  PROVE  /\ TakeChunk(r, SubSeq(w, 1, n)) \in Receivers
         /\ InChunk(S, o, TakeChunk(r, SubSeq(w, 1, n)), n)
<1> DEFINE chunk == SubSeq(w, 1, n)
<1>1. /\ chunk \in Seq(Symbols) /\ Len(chunk) = n
      /\ \A k \in 1..n : chunk[k] = w[k]
  OBVIOUS
<1> HIDE DEF chunk
<1>2. PICK g : IsChunk(g, r, chunk) /\ TakeChunk(r, chunk) = g[Len(chunk)]
  BY <1>1, ChunkLoop
<1>3. /\ g \in [0..n -> Receivers] /\ g[0] = r
      /\ \A k \in 1..n : g[k] = TakeSymbol(g[k - 1], chunk[k])
  BY <1>1, <1>2 DEF IsChunk
<1> DEFINE T == {k \in Nat : k <= n => InChunk(S, o, g[k], k)}
<1>4. 0 \in T
  BY <1>3
<1>5. ASSUME NEW k \in Nat, k \in T PROVE k + 1 \in T
  <2> SUFFICES ASSUME k + 1 <= n PROVE InChunk(S, o, g[k + 1], k + 1)
    OBVIOUS
  <2>1. /\ k + 1 \in 1..n /\ k + 1 - 1 = k /\ k \in 0..n /\ k <= n
        /\ k < Len(w) /\ Len(w) \in Nat
    OBVIOUS
  <2>2. InChunk(S, o, g[k], k) /\ g[k] \in Receivers
    BY <1>3, <1>5, <2>1
  <2>3. g[k + 1] = TakeSymbol(g[k], w[k + 1])
    BY <1>1, <1>3, <2>1
  <2> QED BY <2>1, <2>2, <2>3, ChunkAdvances
<1> HIDE DEF T
<1>6. n \in T
  BY <1>4, <1>5, SetInduction
<1>7. InChunk(S, o, g[n], n) /\ g[n] \in Receivers
  BY <1>3, <1>6 DEF T
<1> QED BY <1>1, <1>2, <1>7 DEF chunk

\* Before the first step.
LEMMA FrameBegins ==
  ASSUME NEW r, r.phase = "role", r.line = <<>>, r.handled = <<>>, r.discarded = <<>>
  PROVE  \E o : Frame(<<>>, RoleLine, o) /\ InChunk(<<>>, o, r, 0)
<1> DEFINE S == <<>>
           o == [i \in 0..1 |-> IF i = 0 THEN 0 ELSE Len(RoleLine)]
<1>1. Len(S) = 0 /\ Len(S) + 1 = 1 /\ 0..Len(S) = {0} /\ 0..(Len(S) + 1) = {0, 1}
  OBVIOUS
<1>2. IsLine(RoleLine)
  BY RoleLineIsLine
<1>3. /\ RoleLine \in Seq(Symbols) /\ Len(RoleLine) \in Nat
      /\ Len(RoleLine) >= 10 /\ Line(S, 0) = RoleLine
  BY <1>2 DEF IsLine, Line
<1>4. o \in [0..1 -> Int] /\ o[0] = 0 /\ o[1] = Len(RoleLine) /\ 0 + 1 = 1
  BY <1>3
<1> HIDE DEF S, o
<1>5. Frame(S, RoleLine, o)
  <2>1. \A q \in 1..Len(RoleLine) : 0 + q = q
    BY <1>3
  <2>2. o[0 + 1] = o[0] + Len(Line(S, 0))
    BY <1>3, <1>4
  <2>3. \A i \in 0..(Len(S) + 1) : o[i] <= Len(RoleLine)
    BY <1>1, <1>3, <1>4
  <2>4. \A q \in 1..Len(Line(S, 0)) : RoleLine[o[0] + q] = Line(S, 0)[q]
    BY <1>3, <1>4, <2>1
  <2> QED BY <1>1, <1>4, <2>2, <2>3, <2>4 DEF Frame
<1>6. BeforeRole(S, r, 0, 0)
  <2>1. Part(Line(S, 0), 0, 0) = <<>>
    BY PartEmpty
  <2> QED BY <2>1 DEF BeforeRole
<1>7. InChunk(S, o, r, 0)
  <2>1. 0 - o[0] = 0 /\ o[0] <= 0 /\ 0 < o[0 + 1] /\ 0 \in 0..(Len(S) + 1)
    BY <1>1, <1>3, <1>4
  <2>2. Knows(S, r, 0, 0 - o[0])
    BY <1>6, <2>1 DEF Knows
  <2> QED BY <2>1, <2>2 DEF InChunk
<1> QED BY <1>5, <1>7 DEF S

\* A message more.
LEMMA KnowsStays ==
  ASSUME NEW S \in Seq(Messages), NEW m \in Messages, NEW r \in Receivers,
         NEW j \in 0..(Len(S) + 1), NEW p \in Nat, j = Len(S) + 1 => p = 0,
         Knows(S, r, j, p)
  PROVE  Knows(Append(S, m), r, j, p)
<1> DEFINE N == Len(S)
           A == Append(S, m)
<1>1. /\ N \in Nat /\ A \in Seq(Messages) /\ Len(A) = N + 1
      /\ \A i \in 1..N : A[i] = S[i]
  BY AppendProperties
<1> HIDE DEF A
<1>2. r.handled \in Seq(Understood) /\ Len(r.handled) \in Nat
  BY DEF Receivers
<1>3. ASSUME NEW s \in 0..p PROVE Part(Line(A, j), s, p) = Part(Line(S, j), s, p)
  <2>1. CASE j = N + 1
    <3>1. s = 0 /\ p = 0
      BY <2>1
    <3> QED BY <3>1, PartEmpty
  <2>2. CASE j # N + 1
    <3>1. j = 0 \/ j \in 1..N
      BY <1>1, <2>2
    <3>2. Line(A, j) = Line(S, j)
      BY <1>1, <3>1 DEF Line
    <3> QED BY <3>2
  <2> QED BY <2>1, <2>2
<1>4. ASSUME NEW k \in Nat, HandledFrom(S, r, j, k) PROVE HandledFrom(A, r, j, k)
  <2>1. k + Len(r.handled) + 1 = j
    BY <1>4 DEF HandledFrom
  <2>2. ASSUME NEW i \in 1..Len(r.handled) PROVE Same(r.handled[i], A[i + k])
    <3>1. i + k \in 1..N
      BY <1>1, <1>2, <2>1
    <3> QED BY <1>1, <1>4, <3>1 DEF HandledFrom
  <2> QED BY <1>4, <2>2 DEF HandledFrom
<1>5. BeforeRole(S, r, j, p) => BeforeRole(A, r, j, p)
  <2>1. 0 \in 0..p
    OBVIOUS
  <2> QED BY <1>3, <2>1 DEF BeforeRole
<1>6. Running(S, r, j, p) => Running(A, r, j, p)
  BY <1>3, <1>4 DEF Running
<1> QED BY <1>5, <1>6 DEF Knows, A

LEMMA FrameGrows ==
  ASSUME NEW S \in Seq(Messages), NEW w \in Seq(Symbols), NEW o, Frame(S, w, o),
         NEW r \in Receivers, NEW m \in Messages, InChunk(S, o, r, 0)
  PROVE  \E u : /\ Frame(Append(S, m), w \o Encode(m), u)
                /\ InChunk(Append(S, m), u, r, 0)
<1> DEFINE N == Len(S)
           A == Append(S, m)
           l == Encode(m)
           v == w \o l
           u == [i \in 0..(N + 2) |-> IF i = N + 2 THEN Len(w) + Len(l) ELSE o[i]]
<1>1. /\ N \in Nat /\ A \in Seq(Messages) /\ Len(A) = N + 1 /\ Len(A) + 1 = N + 2
      /\ A[N + 1] = m /\ \A i \in 1..N : A[i] = S[i]
  BY AppendProperties
<1>2. IsLine(l)
  BY MessageIsLine
<1>3. l \in Seq(Symbols) /\ Len(l) \in Nat /\ Len(l) >= 10 /\ Len(w) \in Nat
  BY <1>2 DEF IsLine
<1>4. \A i \in 0..N : Line(A, i) = Line(S, i)
  <2> SUFFICES ASSUME NEW i \in 0..N PROVE Line(A, i) = Line(S, i)
    OBVIOUS
  <2>1. i = 0 \/ i \in 1..N
    BY <1>1
  <2> QED BY <1>1, <2>1 DEF Line
<1>5. Line(A, N + 1) = l
  BY <1>1 DEF Line
<1> HIDE DEF A, l
<1>6. /\ Len(v) = Len(w) + Len(l)
      /\ \A i \in 1..Len(w) : v[i] = w[i]
      /\ \A i \in 1..Len(l) : v[Len(w) + i] = l[i]
  BY <1>3
<1> HIDE DEF v
<1>7. /\ o \in [0..(N + 1) -> Int]
      /\ o[N + 1] = Len(w)
      /\ \A i \in 0..(N + 1) : o[i] <= Len(w)
      /\ \A i \in 0..N : o[i + 1] = o[i] + Len(Line(S, i))
  BY DEF Frame
<1>8. /\ u \in [0..(N + 2) -> Int]
      /\ u[N + 2] = Len(w) + Len(l)
      /\ \A i \in 0..(N + 1) : u[i] = o[i]
  BY <1>1, <1>3, <1>7
<1> HIDE DEF u
<1>9. Frame(A, v, u)
  <2>1. u[Len(A) + 1] = Len(v) /\ u \in [0..(Len(A) + 1) -> Int]
    BY <1>1, <1>6, <1>8
  <2>2. \A i \in 0..(Len(A) + 1) : u[i] <= Len(v)
    <3> SUFFICES ASSUME NEW i \in 0..(N + 2) PROVE u[i] <= Len(v)
      BY <1>1
    <3>1. CASE i = N + 2
      BY <1>3, <1>6, <1>8, <3>1
    <3>2. CASE i # N + 2
      <4>1. i \in 0..(N + 1)
        BY <1>1, <3>2
      <4>2. u[i] = o[i] /\ o[i] <= Len(w) /\ o[i] \in Int
        BY <1>7, <1>8, <4>1
      <4> QED BY <1>3, <1>6, <4>2
    <3> QED BY <3>1, <3>2
  <2>3. ASSUME NEW i \in 0..Len(A)
        PROVE  /\ u[i + 1] = u[i] + Len(Line(A, i))
               /\ \A q \in 1..Len(Line(A, i)) :
                    u[i] + q >= 1 => v[u[i] + q] = Line(A, i)[q]
    <3>1. CASE i = N + 1
      <4>1. u[i] = Len(w) /\ i + 1 = N + 2 /\ u[i + 1] = Len(w) + Len(l)
        BY <1>1, <1>7, <1>8, <3>1
      <4>2. Line(A, i) = l
        BY <1>5, <3>1
      <4> QED BY <1>6, <4>1, <4>2
    <3>2. CASE i # N + 1
      <4>1. i \in 0..N /\ i \in 0..(N + 1) /\ i + 1 \in 0..(N + 1)
        BY <1>1, <3>2
      <4> DEFINE L == Line(S, i)
      <4>2. /\ Line(A, i) = L /\ u[i] = o[i] /\ u[i + 1] = o[i + 1]
            /\ o[i + 1] = o[i] + Len(L) /\ o[i + 1] <= Len(w) /\ o[i] \in Int
        BY <1>4, <1>7, <1>8, <4>1
      <4>3. IsLine(L)
        BY <4>1, LineIsLine
      <4>4. Len(L) \in Nat
        BY <4>3 DEF IsLine
      <4>5. \A q \in 1..Len(L) : o[i] + q >= 1 => w[o[i] + q] = L[q]
        BY <4>1 DEF Frame
      <4> HIDE DEF L
      <4>6. ASSUME NEW q \in 1..Len(L), o[i] + q >= 1 PROVE v[o[i] + q] = L[q]
        <5>1. o[i] + q \in 1..Len(w)
          BY <1>3, <4>2, <4>4, <4>6
        <5> QED BY <1>6, <4>5, <4>6, <5>1
      <4> QED BY <4>2, <4>6
    <3> QED BY <3>1, <3>2
  <2> QED BY <2>1, <2>2, <2>3 DEF Frame
<1>10. InChunk(A, u, r, 0)
  <2>1. PICK j \in 0..(N + 1) : /\ o[j] <= 0
                                /\ j <= N => 0 < o[j + 1]
                                /\ Knows(S, r, j, 0 - o[j])
    BY DEF InChunk
  <2> DEFINE p == 0 - o[j]
  <2>2. p \in Nat /\ u[j] = o[j] /\ j \in 0..(Len(A) + 1)
    <3>1. o[j] \in Int /\ u[j] = o[j]
      BY <1>7, <1>8
    <3>2. j \in 0..(Len(A) + 1)
      BY <1>1
    <3> QED BY <2>1, <3>1, <3>2
  <2>3. j = N + 1 => p = 0
    BY <1>3, <1>7, <2>1
  <2> HIDE DEF p
  <2>4. Knows(S, r, j, p)
    BY <2>1 DEF p
  <2>5. Knows(A, r, j, p)
    BY <2>2, <2>3, <2>4, KnowsStays DEF A
  <2>6. 0 < u[j + 1]
    <3>1. CASE j = N + 1
      <4>1. j + 1 = N + 2
        BY <3>1, <1>1
      <4> QED BY <1>3, <1>8, <4>1
    <3>2. CASE j # N + 1
      <4>1. j <= N /\ j + 1 \in 0..(N + 1)
        BY <1>1, <3>2
      <4> QED BY <1>8, <2>1, <4>1
    <3> QED BY <3>1, <3>2
  <2>7. Knows(A, r, j, 0 - u[j])
    BY <2>2, <2>5 DEF p
  <2> QED BY <2>1, <2>2, <2>6, <2>7 DEF InChunk
<1> QED BY <1>9, <1>10 DEF A, l, v

\* The end of a call of recv().
Resumed(r) == [r EXCEPT !.phase = IF r.phase = "role" THEN "role" ELSE "run"]

LEMMA ResumedTyped ==
  ASSUME NEW r \in Receivers
  PROVE  /\ Resumed(r) \in Receivers
         /\ Resumed(r).phase = IF r.phase = "role" THEN "role" ELSE "run"
         /\ Resumed(r).line = r.line /\ Resumed(r).role = r.role
         /\ Resumed(r).handled = r.handled /\ Resumed(r).discarded = r.discarded
BY DEF Resumed, Receivers

LEMMA KnowsOn ==
  ASSUME NEW S \in Seq(Messages), NEW r \in Receivers,
         NEW j \in 0..(Len(S) + 1), NEW p \in Nat, Knows(S, r, j, p)
  PROVE  Knows(S, Resumed(r), j, p)
<1> DEFINE q == Resumed(r)
<1>1. /\ q.phase = IF r.phase = "role" THEN "role" ELSE "run"
      /\ q.line = r.line /\ q.role = r.role
      /\ q.handled = r.handled /\ q.discarded = r.discarded
  BY ResumedTyped
<1> HIDE DEF q
<1>2. CASE BeforeRole(S, r, j, p)
  <2>1. BeforeRole(S, q, j, p)
    BY <1>1, <1>2 DEF BeforeRole
  <2> QED BY <2>1 DEF Knows, q
<1>3. CASE BehindRole(r, j, p)
  <2>1. /\ q.phase = "run" /\ q.line = <<>> /\ q.role = <<Role>> /\ q.handled = <<>>
        /\ q.discarded = r.discarded /\ Len(q.handled) = 0
    BY <1>1, <1>3 DEF BehindRole
  <2>2. j >= 1 /\ (r.discarded = <<>> => j = 1 /\ p = 0)
    BY <1>3 DEF BehindRole
  <2>3. q.line = Part(Line(S, j), p, p)
    BY <2>1, PartEmpty
  <2>4. p \in 0..p /\ (p # 0 => q.handled = <<>> /\ q.discarded # <<>>)
    BY <2>1, <2>2
  <2>5. HandledFrom(S, q, j, j - 1)
    <3>1. j - 1 + Len(q.handled) + 1 = j /\ (q.discarded = <<>> => j - 1 = 0)
      BY <2>1, <2>2
    <3> QED BY <2>1, <3>1 DEF HandledFrom
  <2>6. j - 1 \in Nat
    BY <2>2
  <2>7. Running(S, q, j, p)
    BY <2>1, <2>3, <2>4, <2>5, <2>6 DEF Running
  <2> QED BY <2>7 DEF Knows, q
<1>4. CASE Running(S, r, j, p)
  <2>1. q.phase = "run"
    BY <1>1, <1>4 DEF Running
  <2>2. Running(S, q, j, p)
    BY <1>1, <1>4, <2>1 DEF Running, HandledFrom
  <2> QED BY <2>2 DEF Knows, q
<1> QED BY <1>2, <1>3, <1>4 DEF Knows

LEMMA FrameMoves ==
  ASSUME NEW S \in Seq(Messages), NEW w \in Seq(Symbols), NEW o, Frame(S, w, o),
         NEW r \in Receivers, NEW n \in Nat, n <= Len(w), InChunk(S, o, r, n)
  PROVE  \E u : /\ Frame(S, SubSeq(w, n + 1, Len(w)), u)
                /\ InChunk(S, u, Resumed(r), 0)
<1> DEFINE N == Len(S)
           v == SubSeq(w, n + 1, Len(w))
           u == [i \in 0..(N + 1) |-> o[i] - n]
<1>1. N \in Nat /\ Len(w) \in Nat
  OBVIOUS
<1>2. Len(v) = Len(w) - n /\ \A i \in 1..(Len(w) - n) : v[i] = w[n + i]
  OBVIOUS
<1>3. /\ o \in [0..(N + 1) -> Int]
      /\ o[N + 1] = Len(w)
      /\ \A i \in 0..(N + 1) : o[i] <= Len(w)
  BY DEF Frame
<1>4. u \in [0..(N + 1) -> Int] /\ \A i \in 0..(N + 1) : u[i] = o[i] - n
  BY <1>3
<1> HIDE DEF u, v
<1>5. Frame(S, v, u)
  <2>1. u[N + 1] = Len(v)
    BY <1>1, <1>2, <1>3, <1>4
  <2>2. \A i \in 0..(N + 1) : u[i] <= Len(v)
    <3> SUFFICES ASSUME NEW i \in 0..(N + 1) PROVE u[i] <= Len(v)
      OBVIOUS
    <3>1. o[i] \in Int /\ o[i] <= Len(w) /\ u[i] = o[i] - n
      BY <1>3, <1>4
    <3> QED BY <1>1, <1>2, <3>1
  <2>3. ASSUME NEW i \in 0..N
        PROVE  /\ u[i + 1] = u[i] + Len(Line(S, i))
               /\ \A q \in 1..Len(Line(S, i)) :
                    u[i] + q >= 1 => v[u[i] + q] = Line(S, i)[q]
    <3> DEFINE L == Line(S, i)
    <3>1. IsLine(L)
      BY LineIsLine
    <3>2. Len(L) \in Nat
      BY <3>1 DEF IsLine
    <3>3. /\ o[i + 1] = o[i] + Len(L)
          /\ \A q \in 1..Len(L) : o[i] + q >= 1 => w[o[i] + q] = L[q]
      BY DEF Frame
    <3>4. /\ o[i] \in Int /\ o[i + 1] \in Int /\ o[i + 1] <= Len(w)
          /\ u[i] = o[i] - n /\ u[i + 1] = o[i + 1] - n
      <4>1. i \in 0..(N + 1) /\ i + 1 \in 0..(N + 1)
        BY <1>1
      <4> QED BY <1>3, <1>4, <4>1
    <3> HIDE DEF L
    <3>5. ASSUME NEW q \in 1..Len(L), u[i] + q >= 1 PROVE v[u[i] + q] = L[q]
      <4>1. /\ u[i] + q \in 1..(Len(w) - n) /\ n + (u[i] + q) = o[i] + q
            /\ o[i] + q >= 1
        <5>1. u[i] \in Int /\ u[i] + Len(L) = o[i + 1] - n
          BY <3>2, <3>3, <3>4
        <5>2. q \in Nat /\ q <= Len(L)
          BY <3>2
        <5>3. u[i] + q <= u[i] + Len(L) /\ u[i] + q \in Int
          BY <3>2, <5>1, <5>2
        <5>4. u[i] + q <= Len(w) - n
          BY <1>1, <3>2, <3>4, <5>1, <5>2, <5>3
        <5>5. u[i] + q \in 1..(Len(w) - n)
          BY <1>1, <3>5, <5>3, <5>4
        <5>6. n + (u[i] + q) = o[i] + q /\ o[i] + q >= 1
          BY <3>4, <3>5, <5>2
        <5> QED BY <5>5, <5>6
      <4>2. v[u[i] + q] = w[n + (u[i] + q)]
        BY <1>2, <4>1
      <4> QED BY <3>3, <4>1, <4>2
    <3>6. u[i + 1] = u[i] + Len(L)
      BY <3>2, <3>3, <3>4
    <3> QED BY <3>5, <3>6 DEF L
  <2> QED BY <1>4, <2>1, <2>2, <2>3 DEF Frame
<1>6. InChunk(S, u, Resumed(r), 0)
  <2>1. PICK j \in 0..(N + 1) : /\ o[j] <= n
                                /\ j <= N => n < o[j + 1]
                                /\ Knows(S, r, j, n - o[j])
    BY DEF InChunk
  <2> DEFINE p == n - o[j]
  <2>2. p \in Nat /\ 0 - u[j] = p /\ u[j] <= 0
    BY <1>3, <1>4, <2>1
  <2>3. j <= N => 0 < u[j + 1]
    <3> SUFFICES ASSUME j <= N PROVE 0 < u[j + 1]
      OBVIOUS
    <3>1. j + 1 \in 0..(N + 1)
      BY <1>1
    <3>2. o[j + 1] \in Int /\ u[j + 1] = o[j + 1] - n
      BY <1>3, <1>4, <3>1
    <3> QED BY <2>1, <3>2
  <2> HIDE DEF p
  <2>4. Knows(S, r, j, p)
    BY <2>1 DEF p
  <2>5. Knows(S, Resumed(r), j, p)
    BY <2>2, <2>4, KnowsOn
  <2>6. Knows(S, Resumed(r), j, 0 - u[j])
    BY <2>2, <2>5
  <2> QED BY <2>2, <2>3, <2>6 DEF InChunk
<1> QED BY <1>5, <1>6 DEF v

-----------------------------------------------------------------------------
(* The invariant.                                                          *)

TheReceiver ==
  [phase |-> phase, line |-> line, role |-> role,
   handled |-> handled, discarded |-> discarded]

\* What is on the wire is the end of the role line and of the lines of the
\* messages sent, and the receiver knows what came before it.
IInv ==
  /\ sent \in Seq(Messages)
  /\ wire \in Seq(Symbols)
  /\ TheReceiver \in Receivers
  /\ phase # "found"
  /\ \E o : Frame(sent, wire, o) /\ InChunk(sent, o, TheReceiver, 0)

LEMMA InitIInv == Init => IInv
<1> SUFFICES ASSUME Init PROVE IInv
  OBVIOUS
<1> DEFINE r == TheReceiver
<1>1. /\ r.phase = "role" /\ r.line = <<>> /\ r.role = <<>>
      /\ r.handled = <<>> /\ r.discarded = <<>>
  BY DEF Init, TheReceiver
<1>2. r \in Receivers
  BY DEF Init, TheReceiver, Receivers
<1>3. IsLine(RoleLine)
  BY RoleLineIsLine
<1>4. wire = RoleLine /\ wire \in Seq(Symbols)
  BY <1>3 DEF Init, IsLine
<1>5. sent = <<>> /\ sent \in Seq(Messages) /\ phase # "found"
  BY DEF Init
<1> HIDE DEF r
<1>6. \E o : Frame(<<>>, RoleLine, o) /\ InChunk(<<>>, o, r, 0)
  BY <1>1, FrameBegins
<1> QED BY <1>2, <1>4, <1>5, <1>6 DEF IInv, r

LEMMA SendIInv ==
  ASSUME IInv, NEW m \in Messages, Send(m)
  PROVE  IInv'
<1>1. PICK o : Frame(sent, wire, o) /\ InChunk(sent, o, TheReceiver, 0)
  BY DEF IInv
<1>2. /\ sent \in Seq(Messages) /\ wire \in Seq(Symbols)
      /\ TheReceiver \in Receivers /\ phase # "found"
  BY DEF IInv
<1>3. /\ sent' = Append(sent, m) /\ wire' = wire \o Encode(m)
      /\ TheReceiver' = TheReceiver /\ phase' = phase
  BY DEF Send, receiver, TheReceiver
<1>4. \E u : /\ Frame(Append(sent, m), wire \o Encode(m), u)
             /\ InChunk(Append(sent, m), u, TheReceiver, 0)
  BY <1>1, <1>2, FrameGrows
<1>5. IsLine(Encode(m))
  BY MessageIsLine
<1>6. sent' \in Seq(Messages) /\ wire' \in Seq(Symbols)
  BY <1>2, <1>3, <1>5 DEF IsLine
<1> QED BY <1>2, <1>3, <1>4, <1>6 DEF IInv

LEMMA RecvIInv ==
  ASSUME IInv, NEW n \in Cuts, Recv(n)
  PROVE  IInv'
<1>1. PICK o : Frame(sent, wire, o) /\ InChunk(sent, o, TheReceiver, 0)
  BY DEF IInv
<1>2. /\ sent \in Seq(Messages) /\ wire \in Seq(Symbols)
      /\ TheReceiver \in Receivers /\ phase # "found"
  BY DEF IInv
<1>3. n \in Nat /\ n <= Len(wire)
  BY SignalCodecAssumption DEF Recv
<1> DEFINE q == TakeChunk(TheReceiver, SubSeq(wire, 1, n))
<1>4. q \in Receivers /\ InChunk(sent, o, q, n)
  BY <1>1, <1>2, <1>3, ChunkTaken
<1>5. /\ phase' = (IF q.phase = "role" THEN "role" ELSE "run")
      /\ line' = q.line /\ role' = q.role /\ handled' = q.handled
      /\ discarded' = q.discarded
      /\ wire' = SubSeq(wire, n + 1, Len(wire)) /\ sent' = sent
  BY DEF Recv, TheReceiver
<1> HIDE DEF q
<1>6. /\ Resumed(q) \in Receivers
      /\ Resumed(q).phase = IF q.phase = "role" THEN "role" ELSE "run"
      /\ Resumed(q).line = q.line /\ Resumed(q).role = q.role
      /\ Resumed(q).handled = q.handled /\ Resumed(q).discarded = q.discarded
  BY <1>4, ResumedTyped
<1>7. TheReceiver' = Resumed(q)
  BY <1>5, <1>6 DEF TheReceiver, Receivers
<1>8. \E u : /\ Frame(sent, SubSeq(wire, n + 1, Len(wire)), u)
             /\ InChunk(sent, u, Resumed(q), 0)
  BY <1>1, <1>2, <1>3, <1>4, FrameMoves
<1>9. wire' \in Seq(Symbols)
  BY <1>2, <1>3, <1>5
<1>10. phase' # "found"
  BY <1>5
<1> QED BY <1>2, <1>5, <1>6, <1>7, <1>8, <1>9, <1>10 DEF IInv

LEMMA StutterIInv ==
  ASSUME IInv, UNCHANGED vars
  PROVE  IInv'
<1>1. /\ sent' = sent /\ wire' = wire /\ phase' = phase
      /\ TheReceiver' = TheReceiver
  BY DEF vars, receiver, TheReceiver
<1> QED BY <1>1 DEF IInv

LEMMA NextIInv == IInv /\ [Next]_vars => IInv'
<1> SUFFICES ASSUME IInv, [Next]_vars PROVE IInv'
  OBVIOUS
<1>1. CASE \E m \in Messages : Send(m)
  BY <1>1, SendIInv
<1>2. CASE \E n \in Cuts : Recv(n)
  BY <1>2, RecvIInv
<1>3. CASE UNCHANGED vars
  BY <1>3, StutterIInv
<1> QED BY <1>1, <1>2, <1>3 DEF Next

\* The invariant holds of every reachable state.
LEMMA Invariance == Spec => []IInv
BY InitIInv, NextIInv, PTL DEF Spec

\* Where the receiver stands: p symbols of line j are taken.
Stands(j, p) ==
  /\ Knows(sent, TheReceiver, j, p)
  /\ j <= Len(sent) => p < Len(Line(sent, j))
  /\ j = Len(sent) + 1 => p = 0
  /\ wire = <<>> => j = Len(sent) + 1

LEMMA ReceiverStands ==
  ASSUME IInv
  PROVE  \E j \in 0..(Len(sent) + 1), p \in Nat : Stands(j, p)
<1> DEFINE N == Len(sent)
<1>1. N \in Nat /\ Len(wire) \in Nat
  BY DEF IInv
<1>2. PICK o : Frame(sent, wire, o) /\ InChunk(sent, o, TheReceiver, 0)
  BY DEF IInv
<1>3. PICK j \in 0..(N + 1) : /\ o[j] <= 0
                              /\ j <= N => 0 < o[j + 1]
                              /\ Knows(sent, TheReceiver, j, 0 - o[j])
  BY <1>2 DEF InChunk
<1>4. o[j] \in Int /\ o[N + 1] = Len(wire)
  BY <1>2 DEF Frame
<1> DEFINE p == 0 - o[j]
<1>5. p \in Nat
  BY <1>3, <1>4
<1>6. ASSUME j <= N
      PROVE  o[j + 1] = o[j] + Len(Line(sent, j)) /\ o[j + 1] <= Len(wire)
  <2>1. j \in 0..N /\ j + 1 \in 0..(N + 1)
    BY <1>1, <1>6
  <2> QED BY <1>2, <2>1 DEF Frame
<1>7. j <= N => p < Len(Line(sent, j))
  <2> SUFFICES ASSUME j <= N PROVE p < Len(Line(sent, j))
    OBVIOUS
  <2>1. j \in 0..N /\ sent \in Seq(Messages)
    BY <1>1 DEF IInv
  <2>2. Len(Line(sent, j)) \in Nat
    BY <2>1, LineIsLine DEF IsLine
  <2> QED BY <1>3, <1>4, <1>6, <2>2
<1>8. j = N + 1 => p = 0
  BY <1>1, <1>3, <1>4
<1>9. wire = <<>> => j = N + 1
  <2> SUFFICES ASSUME wire = <<>>, j # N + 1 PROVE FALSE
    OBVIOUS
  <2>1. j <= N /\ Len(wire) = 0 /\ j \in 0..N
    BY <1>1
  <2>2. o[j + 1] \in Int
    <3>1. j + 1 \in 0..(N + 1)
      BY <1>1, <2>1
    <3> QED BY <1>2, <3>1 DEF Frame
  <2> QED BY <1>3, <1>6, <2>1, <2>2
<1>10. Knows(sent, TheReceiver, j, p)
  BY <1>3
<1>11. Stands(j, p)
  BY <1>7, <1>8, <1>9, <1>10 DEF Stands
<1> QED BY <1>5, <1>11

LEMMA LineFits == IInv => Len(line) < BufSize
<1> SUFFICES ASSUME IInv PROVE Len(line) < BufSize
  OBVIOUS
<1>1. PICK j \in 0..(Len(sent) + 1), p \in Nat : Stands(j, p)
  BY ReceiverStands
<1>2. sent \in Seq(Messages) /\ Len(sent) \in Nat
  BY DEF IInv
<1>3. Knows(sent, TheReceiver, j, p)
  BY <1>1 DEF Stands
<1>4. TheReceiver.line = line /\ TheReceiver.phase = phase /\ phase # "found"
  BY DEF TheReceiver, IInv
<1>5. PICK s \in 0..p : line = Part(Line(sent, j), s, p)
  <2>1. CASE BeforeRole(sent, TheReceiver, j, p)
    <3>1. 0 \in 0..p
      OBVIOUS
    <3> QED BY <1>4, <2>1, <3>1 DEF BeforeRole
  <2>2. CASE BehindRole(TheReceiver, j, p)
    BY <1>4, <2>2 DEF BehindRole
  <2>3. CASE Running(sent, TheReceiver, j, p)
    BY <1>4, <2>3 DEF Running
  <2> QED BY <1>3, <2>1, <2>2, <2>3 DEF Knows
<1>6. BufSize \in Nat /\ BufSize > 0
  BY RoleLineAssumption, RoleLineIsLine, SignalCodecAssumption DEF IsLine
<1>7. CASE j = Len(sent) + 1
  <2>1. p = 0 /\ s = 0
    BY <1>1, <1>7 DEF Stands
  <2>2. line = <<>>
    BY <1>5, <2>1, PartEmpty
  <2> QED BY <1>6, <2>2
<1>8. CASE j # Len(sent) + 1
  <2> DEFINE l == Line(sent, j)
  <2>1. j \in 0..Len(sent)
    BY <1>2, <1>8
  <2>2. IsLine(l)
    BY <1>2, <2>1, LineIsLine
  <2>3. p < Len(l)
    BY <1>1, <2>1 DEF Stands
  <2>4. l \in Seq(Symbols) /\ Len(l) \in Nat /\ Len(l) < BufSize /\ p <= Len(l)
    BY <2>2, <2>3 DEF IsLine
  <2> HIDE DEF l
  <2>5. s \in Nat /\ s <= p
    OBVIOUS
  <2>6. Len(Part(l, s, p)) = p - s
    BY <2>4, <2>5, PartTyped
  <2>7. Len(line) = p - s
    BY <1>5, <2>6 DEF l
  <2> QED BY <1>6, <2>3, <2>4, <2>5, <2>7
<1> QED BY <1>7, <1>8

\* The line buffer of process_signal_input never overflows, and a text that
\* p2p_signal_parse_message copies fits the message's buffer with its end.
THEOREM TypeCorrect == Spec => []TypeOK
<1>1. IInv => TypeOK
  <2> SUFFICES ASSUME IInv PROVE TypeOK
    OBVIOUS
  <2>1. sent \in Seq(Messages) /\ phase \in {"role", "run"} /\ handled \in Seq(Understood)
    BY DEF IInv, TheReceiver, Receivers
  <2>2. Len(line) < BufSize
    BY LineFits
  <2>3. ASSUME NEW i \in 1..Len(handled) PROVE Len(handled[i].text) < SdpMax
    <3>1. handled[i] \in Understood
      BY <2>1
    <3>2. PICK x \in Seq(Symbols) : handled[i].text = TextIn(x)
      BY <3>1 DEF Understood
    <3> QED BY <3>2, TextInTyped
  <2> QED BY <2>1, <2>2, <2>3 DEF TypeOK
<1> QED BY <1>1, Invariance, PTL

\* However recv() cuts the stream: process_signal_input understands messages
\* that were sent, in their order and without a gap, and takes the rest of a
\* line whose beginning main() discarded for no message.
THEOREM LinesSurvive == Spec => []LinesSurviveChunks
<1>1. IInv => LinesSurviveChunks
  <2> SUFFICES ASSUME IInv PROVE LinesSurviveChunks
    OBVIOUS
  <2> DEFINE N == Len(sent)
             r == TheReceiver
  <2>1. PICK j \in 0..(N + 1), p \in Nat : Stands(j, p)
    BY ReceiverStands
  <2>2. /\ N \in Nat /\ handled \in Seq(Understood) /\ Len(handled) \in Nat
        /\ r.handled = handled /\ r.phase = phase /\ phase # "found"
    BY DEF IInv, TheReceiver, Receivers
  <2>3. Knows(sent, r, j, p) /\ (wire = <<>> => j = N + 1)
    BY <2>1 DEF Stands
  <2> HIDE DEF r
  <2>4. CASE BeforeRole(sent, r, j, p)
    <3>1. phase = "role" /\ handled = <<>> /\ Len(handled) = 0
      BY <2>2, <2>4 DEF BeforeRole
    <3>2. 0 \in 0..N /\ 0 + Len(handled) <= N
      BY <2>2, <3>1
    <3> QED BY <3>1, <3>2 DEF LinesSurviveChunks
  <2>5. CASE BehindRole(r, j, p)
    BY <2>2, <2>5 DEF BehindRole
  <2>6. CASE Running(sent, r, j, p)
    <3>1. PICK k \in Nat : HandledFrom(sent, r, j, k)
      BY <2>6 DEF Running
    <3>2. /\ k + Len(handled) + 1 = j
          /\ \A i \in 1..Len(handled) : Same(handled[i], sent[i + k])
      BY <2>2, <3>1 DEF HandledFrom
    <3>3. k \in 0..N /\ k + Len(handled) <= N /\ (j = N + 1 => k + Len(handled) = N)
      BY <2>2, <3>2
    <3> QED BY <2>3, <3>2, <3>3 DEF LinesSurviveChunks
  <2> QED BY <2>3, <2>4, <2>5, <2>6 DEF Knows
<1> QED BY <1>1, Invariance, PTL

\* If nothing lay behind the role line in the chunk that main() read it from,
\* no message is lost: with the wire empty, all that were sent are understood.
THEOREM NothingLost == Spec => []NothingLostAfterRole
<1>1. IInv => NothingLostAfterRole
  <2> SUFFICES ASSUME IInv, wire = <<>>, phase = "run", discarded = <<>>
               PROVE  Len(handled) = Len(sent)
    BY DEF NothingLostAfterRole
  <2> DEFINE N == Len(sent)
             r == TheReceiver
  <2>1. PICK j \in 0..(N + 1), p \in Nat : Stands(j, p)
    BY ReceiverStands
  <2>2. /\ N \in Nat /\ Len(handled) \in Nat
        /\ r.handled = handled /\ r.phase = phase /\ r.discarded = discarded
    BY DEF IInv, TheReceiver, Receivers
  <2>3. Knows(sent, r, j, p) /\ j = N + 1
    BY <2>1 DEF Stands
  <2> HIDE DEF r
  <2>4. Running(sent, r, j, p)
    BY <2>2, <2>3 DEF Knows, BeforeRole, BehindRole
  <2>5. PICK k \in Nat : HandledFrom(sent, r, j, k)
    BY <2>4 DEF Running
  <2>6. k + Len(handled) + 1 = j /\ k = 0
    BY <2>2, <2>5 DEF HandledFrom
  <2> QED BY <2>2, <2>3, <2>6
<1> QED BY <1>1, Invariance, PTL

\* main() finds the role that the server sent, unless the room is called
\* "type", and never takes another line for the role line.
THEOREM RoleFound == Spec => []RoleRead
<1>1. IInv => RoleRead
  <2> SUFFICES ASSUME IInv, Room # "type"
               PROVE  /\ phase = "run" => role = <<Role>>
                      /\ wire = <<>> => phase = "run"
    BY DEF RoleRead
  <2> DEFINE N == Len(sent)
             r == TheReceiver
  <2>1. PICK j \in 0..(N + 1), p \in Nat : Stands(j, p)
    BY ReceiverStands
  <2>2. /\ N \in Nat
        /\ r.role = role /\ r.phase = phase /\ phase \in {"role", "run"}
    BY DEF IInv, TheReceiver, Receivers
  <2>3. Knows(sent, r, j, p) /\ (wire = <<>> => j = N + 1)
    BY <2>1 DEF Stands
  <2> HIDE DEF r
  <2>4. phase = "role" => j = 0
    BY <2>2, <2>3 DEF Knows, BeforeRole, BehindRole, Running
  <2>5. phase = "run" => role = <<Role>>
    BY <2>2, <2>3 DEF Knows, BeforeRole, BehindRole, Running
  <2>6. wire = <<>> => phase = "run"
    BY <2>2, <2>3, <2>4
  <2> QED BY <2>5, <2>6
<1> QED BY <1>1, Invariance, PTL
=============================================================================
