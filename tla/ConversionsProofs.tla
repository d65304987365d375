------------------------- MODULE ConversionsProofs -------------------------
(***************************************************************************)
(* What Conversions checks of a few texts, contexts and histories, for all *)
(* of them: texts of any length, histories and pages of any length, values *)
(* of any kind, and clocks of any width.                                   *)
(***************************************************************************)
EXTENDS Conversions, ReplayEngineProofs

-----------------------------------------------------------------------------
(* The clock.  The invariant ties it to the time that went by: they differ *)
(* by whole turns of the clock, and never by more than one between two     *)
(* heartbeats.                                                             *)

InRange == millis \in 0..Width - 1 /\ lastBeat \in 0..Width - 1 /\ silence \in Nat
Tied == millis = Wrap(lastBeat + silence)
InPace == silence < Interval + MaxPass
ClockInv == InRange /\ Tied /\ InPace

\* The subtraction of heartbeatDue gives the time since the last heartbeat,
\* whether or not the clock has wrapped in between.
LEMMA DifferenceIsSilence ==
  ASSUME ClockInv
  PROVE  Wrap(millis + Width - lastBeat) = silence
BY ClockAssumption DEF ClockInv, InRange, Tied, InPace, Wrap

\* A clock that stands at b + s and runs on by d stands at b + (s + d).
LEMMA WrapAdds ==
  ASSUME NEW b \in 0..Width - 1, NEW s \in Nat, NEW d \in Nat, s + d < Width
  PROVE  Wrap(Wrap(b + s) + d) = Wrap(b + (s + d))
BY ClockAssumption DEF Wrap

LEMMA PassKeepsInv == ClockInv /\ ClockNext => ClockInv'
<1> SUFFICES ASSUME ClockInv, Pass PROVE ClockInv'
  BY DEF ClockNext
<1>1. PICK d \in 1..MaxPass :
         /\ millis' = Wrap(millis + d)
         /\ lastBeat' = IF heartbeatDue(millis, lastBeat, Interval) THEN millis ELSE lastBeat
         /\ silence' = IF heartbeatDue(millis, lastBeat, Interval) THEN d ELSE silence + d
  BY DEF Pass
<1>2. heartbeatDue(millis, lastBeat, Interval) <=> silence >= Interval
  BY DifferenceIsSilence DEF heartbeatDue
<1>3. d \in Nat /\ d <= MaxPass /\ d < Width
  BY <1>1, ClockAssumption
<1>4. CASE silence >= Interval
  <2>1. lastBeat' = millis /\ silence' = d
    BY <1>1, <1>2, <1>4
  <2>2. InRange'
    BY <1>1, <1>3, <2>1, ClockAssumption DEF ClockInv, InRange, Wrap
  <2>3. Tied'
    BY <1>1, <2>1 DEF Tied
  <2>4. InPace'
    BY <1>3, <2>1, ClockAssumption DEF InPace
  <2> QED BY <2>2, <2>3, <2>4 DEF ClockInv
<1>5. CASE ~ (silence >= Interval)
  <2>1. lastBeat' = lastBeat /\ silence' = silence + d
    BY <1>1, <1>2, <1>5
  <2>2. silence + d < Interval + MaxPass /\ silence + d < Width
    BY <1>3, <1>5, ClockAssumption DEF ClockInv, InRange
  <2>3. InRange'
    BY <1>1, <1>3, <2>1, ClockAssumption DEF ClockInv, InRange, Wrap
  <2>4. Tied'
    <3>1. millis' = Wrap(Wrap(lastBeat + silence) + d)
      BY <1>1 DEF ClockInv, Tied
    <3> QED BY <3>1, <1>3, <2>1, <2>2, WrapAdds DEF Tied, ClockInv, InRange
  <2>5. InPace'
    BY <2>1, <2>2 DEF InPace
  <2> QED BY <2>3, <2>4, <2>5 DEF ClockInv
<1> QED BY <1>4, <1>5

LEMMA ClockTicks ==
  ASSUME ClockInv, [Next]_ConversionVars
  PROVE  ClockInv'
<1>1. CASE UNCHANGED clockVars
  BY <1>1 DEF ClockInv, InRange, Tied, InPace, clockVars, Wrap
<1>2. CASE ClockNext
  BY <1>2, PassKeepsInv
<1> QED
  BY <1>1, <1>2 DEF Next, ConversionVars

\* The worker is registered again within an interval and a pass of the last time, and
\* not before the interval is over, through every wrap of millis().
THEOREM HeartbeatAlwaysKeepsPace == Spec => []HeartbeatKeepsPace
<1>1. Init => ClockInv
  <2> SUFFICES ASSUME Init PROVE ClockInv
    OBVIOUS
  <2>1. millis \in 0..Width - 1 /\ lastBeat = millis /\ silence = 0
    BY ClockAssumption DEF Init, ClockInit
  <2> QED
    BY <2>1, ClockAssumption DEF ClockInv, InRange, Tied, InPace, Wrap
<1>2. ClockInv /\ [Next]_ConversionVars => ClockInv'
  BY ClockTicks
<1>3. ClockInv => HeartbeatKeepsPace
  <2> SUFFICES ASSUME ClockInv PROVE HeartbeatKeepsPace
    OBVIOUS
  <2> QED
    BY DifferenceIsSilence DEF HeartbeatKeepsPace, heartbeatDue, ClockInv, InPace
<1> QED
  BY <1>1, <1>2, <1>3, PTL DEF Spec

-----------------------------------------------------------------------------
(* Quoting a text and reading it back.                                     *)

\* q[i] is the JSON of the first i characters.
QuoteUpTo(q, text, i) == IF i = 0 THEN << >> ELSE q[i - 1] \o jsonQuoteChar(text[i])
IsQuoting(q, text, n) == q = [i \in 0..n |-> QuoteUpTo(q, text, i)]

LEMMA QuotingExists ==
  ASSUME NEW text, NEW n \in Nat
  PROVE  \E q : IsQuoting(q, text, n)
<1> DEFINE Good == {m \in 0..n : \E q : IsQuoting(q, text, m)}
<1>1. 0 \in Good
  <2> DEFINE f == [i \in 0..0 |-> << >>]
  <2>1. IsQuoting(f, text, 0)
    BY DEF IsQuoting, QuoteUpTo
  <2> QED
    BY <2>1
<1>2. ASSUME NEW m \in 0..(n - 1), m \in Good PROVE m + 1 \in Good
  <2>1. PICK f : IsQuoting(f, text, m)
    BY <1>2
  <2> DEFINE g == [i \in 0..(m + 1) |->
                     IF i <= m THEN f[i] ELSE f[m] \o jsonQuoteChar(text[m + 1])]
  <2>2. ASSUME NEW i \in 0..(m + 1) PROVE g[i] = QuoteUpTo(g, text, i)
    <3>1. CASE i = m + 1
      BY <3>1 DEF QuoteUpTo
    <3>2. CASE i # m + 1
      <4>1. i \in 0..m /\ (i # 0 => i - 1 \in 0..m /\ g[i - 1] = f[i - 1])
        BY <3>2
      <4>2. f[i] = QuoteUpTo(f, text, i)
        BY <4>1, <2>1 DEF IsQuoting
      <4> QED
        BY <3>2, <4>1, <4>2 DEF QuoteUpTo
    <3> QED
      BY <3>1, <3>2
  <2>3. IsQuoting(g, text, m + 1)
    BY <2>2 DEF IsQuoting
  <2>4. m + 1 \in 0..n
    OBVIOUS
  <2> QED
    BY <2>3, <2>4
<1> HIDE DEF Good
<1>3. n \in Good
  BY <1>1, <1>2, UpwardInduction
<1> QED
  BY <1>3 DEF Good

LEMMA jsonQuoteIs ==
  ASSUME NEW text, Len(text) \in Nat
  PROVE  \E q : /\ jsonQuote(text) = q[Len(text)]
                /\ \A i \in 0..Len(text) : q[i] = QuoteUpTo(q, text, i)
<1> DEFINE q == CHOOSE q : IsQuoting(q, text, Len(text))
<1>1. IsQuoting(q, text, Len(text))
  BY QuotingExists
<1>2. jsonQuote(text) = q[Len(text)]
  BY DEF jsonQuote, IsQuoting, QuoteUpTo
<1> HIDE DEF q
<1>3. \A i \in 0..Len(text) : q[i] = QuoteUpTo(q, text, i)
  BY <1>1 DEF IsQuoting
<1> QED
  BY <1>2, <1>3

\* What has been read of the first i characters.
ReadUpTo(r, json, n, i) ==
  IF i = 0 THEN [text |-> << >>, escaped |-> FALSE]
  ELSE UnquoteChar(r[i - 1], json[i], i = n)
IsReading(r, json, n, k) == r = [i \in 0..k |-> ReadUpTo(r, json, n, i)]

LEMMA ReadingExists ==
  ASSUME NEW json, NEW n \in Nat
  PROVE  \E r : IsReading(r, json, n, n)
<1> DEFINE Good == {m \in 0..n : \E r : IsReading(r, json, n, m)}
           start == [text |-> << >>, escaped |-> FALSE]
<1>1. 0 \in Good
  <2> DEFINE f == [i \in 0..0 |-> start]
  <2>1. IsReading(f, json, n, 0)
    BY DEF IsReading, ReadUpTo
  <2> QED
    BY <2>1
<1>2. ASSUME NEW m \in 0..(n - 1), m \in Good PROVE m + 1 \in Good
  <2>1. PICK f : IsReading(f, json, n, m)
    BY <1>2
  <2> DEFINE g == [i \in 0..(m + 1) |->
                     IF i <= m THEN f[i] ELSE UnquoteChar(f[m], json[m + 1], m + 1 = n)]
  <2>2. ASSUME NEW i \in 0..(m + 1) PROVE g[i] = ReadUpTo(g, json, n, i)
    <3>1. CASE i = m + 1
      BY <3>1 DEF ReadUpTo
    <3>2. CASE i # m + 1
      <4>1. i \in 0..m /\ (i # 0 => i - 1 \in 0..m /\ g[i - 1] = f[i - 1])
        BY <3>2
      <4>2. f[i] = ReadUpTo(f, json, n, i)
        BY <4>1, <2>1 DEF IsReading
      <4> QED
        BY <3>2, <4>1, <4>2 DEF ReadUpTo
    <3> QED
      BY <3>1, <3>2
  <2>3. IsReading(g, json, n, m + 1)
    BY <2>2 DEF IsReading
  <2>4. m + 1 \in 0..n
    OBVIOUS
  <2> QED
    BY <2>3, <2>4
<1> HIDE DEF Good
<1>3. n \in Good
  BY <1>1, <1>2, UpwardInduction
<1> QED
  BY <1>3 DEF Good

LEMMA jsonUnquoteIs ==
  ASSUME NEW json, Len(json) \in Nat
  PROVE  \E r : /\ jsonUnquote(json) = r[Len(json)].text
                /\ r[0] = [text |-> << >>, escaped |-> FALSE]
                /\ \A i \in 1..Len(json) : r[i] = UnquoteChar(r[i - 1], json[i], i = Len(json))
<1> DEFINE r == CHOOSE r : IsReading(r, json, Len(json), Len(json))
<1>1. IsReading(r, json, Len(json), Len(json))
  BY ReadingExists
<1>2. jsonUnquote(json) = r[Len(json)].text
  BY DEF jsonUnquote, IsReading, ReadUpTo
<1> HIDE DEF r
<1>3. \A i \in 0..Len(json) : r[i] = ReadUpTo(r, json, Len(json), i)
  BY <1>1 DEF IsReading
<1>4. /\ r[0] = [text |-> << >>, escaped |-> FALSE]
      /\ \A i \in 1..Len(json) : r[i] = UnquoteChar(r[i - 1], json[i], i = Len(json))
  BY <1>3 DEF ReadUpTo
<1> QED
  BY <1>2, <1>4

\* t continues s.
Continues(t, s) == Len(s) <= Len(t) /\ \A j \in 1..Len(s) : t[j] = s[j]

\* t is s, and more behind it.
Adds(t, s, more) ==
  /\ Len(t) = Len(s) + Len(more)
  /\ Continues(t, s)
  /\ \A j \in 1..Len(more) : t[Len(s) + j] = more[j]

QuotedChar(c) == IsList(jsonQuoteChar(c)) /\ Len(jsonQuoteChar(c)) \in 1..2

LEMMA QuotedCharIs == \A c : QuotedChar(c)
<1> SUFFICES ASSUME NEW c PROVE QuotedChar(c)
  OBVIOUS
<1> DEFINE s == jsonQuoteChar(c)
<1>1. s \in {<<"backslash", "quote">>, <<"backslash", "backslash">>, <<"backslash", "n">>, <<c>>}
  BY DEF jsonQuoteChar
<1>2. IsList(s) /\ Len(s) \in 1..2
  BY <1>1 DEF IsList
<1> QED
  BY <1>2 DEF QuotedChar

\* The JSON of the first i characters is a list, and goes on with the next one's.
LEMMA QuotingGrows ==
  ASSUME NEW text, Len(text) \in Nat, NEW q,
         \A i \in 0..Len(text) : q[i] = QuoteUpTo(q, text, i)
  PROVE  /\ \A i \in 0..Len(text) : IsList(q[i])
         /\ \A i \in 1..Len(text) : Adds(q[i], q[i - 1], jsonQuoteChar(text[i]))
<1> DEFINE n == Len(text)
           Good == {i \in 0..n : IsList(q[i])}
<1>1. 0 \in Good
  <2>1. q[0] = << >>
    BY DEF QuoteUpTo
  <2> QED
    BY <2>1 DEF IsList
<1>2. ASSUME NEW i \in 1..n PROVE q[i] = q[i - 1] \o jsonQuoteChar(text[i])
  <2>1. i \in 0..n /\ i # 0
    OBVIOUS
  <2>2. q[i] = QuoteUpTo(q, text, i)
    BY <2>1
  <2> QED
    BY <2>1, <2>2 DEF QuoteUpTo
<1>3. ASSUME NEW i \in 0..(n - 1), i \in Good PROVE i + 1 \in Good
  <2>1. i + 1 \in 1..n /\ (i + 1) - 1 = i
    OBVIOUS
  <2>2. q[i + 1] = q[i] \o jsonQuoteChar(text[i + 1])
    BY <1>2, <2>1
  <2>3. IsList(q[i + 1])
    BY <1>3, <2>2, QuotedCharIs, ListConcat DEF QuotedChar
  <2> QED
    BY <2>1, <2>3
<1> HIDE DEF Good
<1>4. \A i \in 0..n : i \in Good
  BY <1>1, <1>3, UpwardInduction
<1>5. \A i \in 0..n : IsList(q[i])
  BY <1>4 DEF Good
<1>6. ASSUME NEW i \in 1..n
      PROVE  Adds(q[i], q[i - 1], jsonQuoteChar(text[i]))
  <2> DEFINE s == jsonQuoteChar(text[i])
             p == q[i - 1]
  <2>1. IsList(p) /\ IsList(s)
    BY <1>5, QuotedCharIs DEF QuotedChar
  <2>2. q[i] = p \o s
    BY <1>2
  <2> HIDE DEF s, p
  <2>3. /\ Len(p \o s) = Len(p) + Len(s)
        /\ \A j \in 1..Len(p) : (p \o s)[j] = p[j]
        /\ \A j \in 1..Len(s) : (p \o s)[Len(p) + j] = s[j]
    BY <2>1, ListConcat
  <2>4. Len(p) <= Len(p) + Len(s)
    BY <2>1 DEF IsList
  <2>5. Continues(p \o s, p)
    BY <2>3, <2>4 DEF Continues
  <2>6. Adds(q[i], p, s)
    BY <2>2, <2>3, <2>5 DEF Adds
  <2> QED
    BY <2>6 DEF p, s
<1> QED
  BY <1>5, <1>6

LEMMA QuotingContinues ==
  ASSUME NEW text, Len(text) \in Nat, NEW q,
         \A i \in 0..Len(text) : q[i] = QuoteUpTo(q, text, i), NEW k \in 0..Len(text)
  PROVE  Continues(q[Len(text)], q[k])
<1> DEFINE n == Len(text)
           Good == {i \in k..n : Continues(q[i], q[k])}
<1>1. /\ k \in Nat /\ n \in Nat
      /\ \A i \in 0..n : Len(q[i]) \in Nat
      /\ \A i \in 1..n : Continues(q[i], q[i - 1])
  <2>1. /\ \A i \in 0..n : IsList(q[i])
        /\ \A i \in 1..n : Adds(q[i], q[i - 1], jsonQuoteChar(text[i]))
    BY QuotingGrows
  <2>2. k \in Nat /\ n \in Nat
    OBVIOUS
  <2>3. \A i \in 0..n : Len(q[i]) \in Nat
    BY <2>1 DEF IsList
  <2>4. \A i \in 1..n : Continues(q[i], q[i - 1])
    BY <2>1 DEF Adds
  <2> QED
    BY <2>2, <2>3, <2>4
<1>2. k \in Good
  BY <1>1 DEF Continues
<1>3. ASSUME NEW i \in k..(n - 1), i \in Good PROVE i + 1 \in Good
  <2>1. i + 1 \in 1..n /\ (i + 1) - 1 = i /\ i \in 0..n
    OBVIOUS
  <2>2. Continues(q[i + 1], q[i]) /\ Continues(q[i], q[k])
    BY <1>1, <1>3, <2>1
  <2>3. Len(q[i + 1]) \in Nat /\ Len(q[i]) \in Nat /\ Len(q[k]) \in Nat
    BY <1>1, <2>1
  <2>4. Continues(q[i + 1], q[k])
    <3>1. PICK a, b, c : a = q[i + 1] /\ b = q[i] /\ c = q[k]
      OBVIOUS
    <3>2. Len(c) <= Len(a)
      BY <2>2, <2>3, <3>1 DEF Continues
    <3>3. ASSUME NEW j \in 1..Len(c) PROVE a[j] = c[j]
      <4>1. j \in 1..Len(b) /\ b[j] = c[j]
        BY <2>2, <2>3, <3>1 DEF Continues
      <4>2. a[j] = b[j]
        BY <2>2, <3>1, <4>1 DEF Continues
      <4> QED
        BY <4>1, <4>2
    <3> QED
      BY <3>1, <3>2, <3>3 DEF Continues
  <2> QED
    BY <2>1, <2>4
<1> HIDE DEF Good
<1>4. \A i \in k..n : i \in Good
  BY <1>1, <1>2, <1>3, UpwardInduction
<1> QED
  BY <1>4 DEF Good

\* r is what has been read of json, character by character.
Reads(r, json) ==
  \A i \in 1..Len(json) : r[i] = UnquoteChar(r[i - 1], json[i], i = Len(json))

\* s stands in json behind its first p characters.
StandsAt(s, json, p) ==
  p + Len(s) <= Len(json) /\ \A j \in 1..Len(s) : json[p + j] = s[j]

LEMMA EscapeIsRead ==
  ASSUME NEW text, NEW x, NEW last, NEW more, Unescaped(x) = more
  PROVE  UnquoteChar([text |-> text, escaped |-> TRUE], x, last)
           = [text |-> text \o more, escaped |-> FALSE]
  BY DEF UnquoteChar

\* Reading on from p, not after a backslash, the JSON of one character: its text
\* gains that character.
LEMMA CharIsRead ==
  ASSUME NEW c \in Characters, NEW json, Len(json) \in Nat, NEW r, Reads(r, json),
         NEW p \in Nat, StandsAt(jsonQuoteChar(c), json, p),
         NEW text, IsList(text), r[p] = [text |-> text, escaped |-> FALSE]
  PROVE  r[p + Len(jsonQuoteChar(c))] = [text |-> Append(text, c), escaped |-> FALSE]
<1> DEFINE s == jsonQuoteChar(c)
<1>1. CASE c = "plain"
  <2>1. s = <<"plain">>
    BY <1>1 DEF jsonQuoteChar
  <2>2. Len(s) = 1 /\ s[1] = "plain"
    BY <2>1
  <2>3. p + 1 \in 1..Len(json) /\ (p + 1) - 1 = p /\ json[p + 1] = "plain"
    BY <2>2 DEF StandsAt
  <2>4. r[p + 1] = UnquoteChar(r[p], "plain", p + 1 = Len(json))
    BY <2>3 DEF Reads
  <2>5. r[p + 1] = [text |-> Append(text, "plain"), escaped |-> FALSE]
    BY <2>4 DEF UnquoteChar
  <2> QED
    BY <1>1, <2>2, <2>5
<1>2. CASE c # "plain"
  <2> DEFINE x == IF c = "newline" THEN "n" ELSE c
  <2>1. s = <<"backslash", x>> /\ Unescaped(x) = <<c>>
    BY <1>2 DEF jsonQuoteChar, Unescaped, Characters
  <2>2. Len(s) = 2 /\ s[1] = "backslash" /\ s[2] = x
    BY <2>1
  <2>3. /\ p + 1 \in 1..Len(json) /\ (p + 1) - 1 = p /\ json[p + 1] = "backslash"
        /\ p + 2 \in 1..Len(json) /\ (p + 2) - 1 = p + 1 /\ json[p + 2] = x
        /\ p + 1 # Len(json)
    BY <2>2 DEF StandsAt
  <2> HIDE DEF x
  <2>4. /\ r[p + 1] = UnquoteChar(r[p], "backslash", p + 1 = Len(json))
        /\ r[p + 2] = UnquoteChar(r[p + 1], x, p + 2 = Len(json))
    BY <2>3 DEF Reads
  <2>5. r[p + 1] = [text |-> text, escaped |-> TRUE]
    BY <2>3, <2>4 DEF UnquoteChar
  <2>6. r[p + 2] = [text |-> text \o <<c>>, escaped |-> FALSE]
    <3> DEFINE last == p + 2 = Len(json)
               one == <<c>>
    <3>1. r[p + 2] = UnquoteChar(r[p + 1], x, last) /\ Unescaped(x) = one
      BY <2>1, <2>4
    <3> HIDE DEF last, one
    <3>2. UnquoteChar(r[p + 1], x, last) = [text |-> text \o one, escaped |-> FALSE]
      BY <2>5, <3>1, EscapeIsRead
    <3>3. r[p + 2] = [text |-> text \o one, escaped |-> FALSE]
      BY <3>1, <3>2
    <3> QED
      BY <3>3 DEF one
  <2>7. text \o <<c>> = Append(text, c)
    <3>1. IsList(<<c>>) /\ Len(<<c>>) = 1 /\ <<c>>[1] = c
      BY DEF IsList
    <3> DEFINE one == <<c>>
    <3> HIDE DEF one
    <3>2. /\ IsList(text \o one) /\ Len(text \o one) = Len(text) + 1
          /\ \A i \in 1..Len(text) : (text \o one)[i] = text[i]
          /\ (text \o one)[Len(text) + 1] = c
      BY <3>1, ListConcat DEF one
    <3>3. /\ IsList(Append(text, c)) /\ Len(Append(text, c)) = Len(text) + 1
          /\ \A i \in 1..Len(text) : Append(text, c)[i] = text[i]
          /\ Append(text, c)[Len(text) + 1] = c
      BY ListAppend
    <3>4. \A i \in 1..(Len(text) + 1) : (text \o one)[i] = Append(text, c)[i]
      BY <3>2, <3>3 DEF IsList
    <3>5. text \o one = Append(text, c)
      BY <3>2, <3>3, <3>4, ListsEqual
    <3> QED
      BY <3>5 DEF one
  <2> QED
    BY <2>2, <2>6, <2>7
<1> QED
  BY <1>1, <1>2

\* Any text of characters comes back from its JSON, quotes, backslashes and line ends
\* included.
LEMMA TextsComeBack ==
  ASSUME NEW text \in Seq(Characters)
  PROVE  jsonUnquote(jsonQuote(text)) = text
<1> DEFINE n == Len(text)
           json == jsonQuote(text)
<1>1. n \in Nat /\ IsList(text) /\ \A i \in 1..n : text[i] \in Characters
  BY SeqIsList
<1>2. PICK q : json = q[n] /\ \A i \in 0..n : q[i] = QuoteUpTo(q, text, i)
  BY <1>1, jsonQuoteIs
<1>3. /\ \A i \in 0..n : IsList(q[i])
      /\ \A i \in 1..n : Adds(q[i], q[i - 1], jsonQuoteChar(text[i]))
  BY <1>1, <1>2, QuotingGrows
<1>4. \A i \in 0..n : Continues(q[n], q[i])
  BY <1>1, <1>2, QuotingContinues
<1>5. IsList(json) /\ Len(json) \in Nat
  BY <1>1, <1>2, <1>3 DEF IsList
<1> HIDE DEF json
<1>6. PICK r : /\ jsonUnquote(json) = r[Len(json)].text
               /\ r[0] = [text |-> << >>, escaped |-> FALSE]
               /\ Reads(r, json)
  BY <1>5, jsonUnquoteIs DEF Reads
<1> DEFINE Good == {i \in 0..n : r[Len(q[i])] = [text |-> SubSeq(text, 1, i), escaped |-> FALSE]}
<1>7. 0 \in Good
  <2>1. q[0] = << >> /\ 0 \in 0..n
    BY <1>1, <1>2 DEF QuoteUpTo
  <2>2. SubSeq(text, 1, 0) = << >>
    <3>1. IsList(SubSeq(text, 1, 0)) /\ Len(SubSeq(text, 1, 0)) = 0
      BY <1>1, <2>1, ListSub
    <3>2. IsList(<< >>) /\ Len(<< >>) = 0
      BY DEF IsList
    <3> DEFINE none == << >>
    <3> HIDE DEF none
    <3>3. SubSeq(text, 1, 0) = none
      BY <3>1, <3>2, ListsEqual DEF none
    <3> QED
      BY <3>3 DEF none
  <2>3. Len(q[0]) = 0
    BY <2>1
  <2> QED
    BY <1>6, <2>1, <2>2, <2>3
<1>8. ASSUME NEW i \in 0..(n - 1), i \in Good PROVE i + 1 \in Good
  <2> DEFINE c == text[i + 1]
             p == Len(q[i])
             so == SubSeq(text, 1, i)
  <2>1. i + 1 \in 1..n /\ (i + 1) - 1 = i /\ i \in 0..n /\ i + 1 \in 0..n
    BY <1>1
  <2>2. c \in Characters /\ p \in Nat
    BY <1>1, <1>3, <2>1 DEF IsList
  <2>3. /\ Len(q[i + 1]) = p + Len(jsonQuoteChar(c))
        /\ \A j \in 1..Len(jsonQuoteChar(c)) : q[i + 1][p + j] = jsonQuoteChar(c)[j]
    BY <1>3, <2>1 DEF Adds
  <2>4. Len(q[i + 1]) <= Len(json) /\ \A j \in 1..Len(q[i + 1]) : json[j] = q[i + 1][j]
    BY <1>2, <1>4, <2>1 DEF Continues
  <2>5. Len(jsonQuoteChar(c)) \in Nat
    BY QuotedCharIs DEF QuotedChar
  <2> HIDE DEF c, p
  <2>6. StandsAt(jsonQuoteChar(c), json, p)
    BY <2>2, <2>3, <2>4, <2>5 DEF StandsAt
  <2>7. r[p] = [text |-> so, escaped |-> FALSE]
    BY <1>8 DEF p
  <2>8. /\ IsList(so) /\ Len(so) = i /\ \A j \in 1..i : so[j] = text[j]
    BY <1>1, <2>1, ListSub
  <2> HIDE DEF so
  <2>9. r[p + Len(jsonQuoteChar(c))] = [text |-> Append(so, c), escaped |-> FALSE]
    BY <1>5, <1>6, <2>2, <2>6, <2>7, <2>8, CharIsRead
  <2>10. Append(so, c) = SubSeq(text, 1, i + 1)
    <3>1. /\ IsList(Append(so, c)) /\ Len(Append(so, c)) = i + 1
          /\ \A j \in 1..i : Append(so, c)[j] = so[j]
          /\ Append(so, c)[i + 1] = c
      BY <2>8, ListAppend
    <3>2. /\ IsList(SubSeq(text, 1, i + 1)) /\ Len(SubSeq(text, 1, i + 1)) = i + 1
          /\ \A j \in 1..(i + 1) : SubSeq(text, 1, i + 1)[j] = text[j]
      BY <1>1, <2>1, ListSub
    <3>3. \A j \in 1..(i + 1) : Append(so, c)[j] = text[j]
      BY <2>8, <3>1 DEF c
    <3> QED
      BY <3>1, <3>2, <3>3, ListsEqual
  <2> QED
    BY <2>1, <2>3, <2>9, <2>10
<1> HIDE DEF Good
<1>9. \A i \in 0..n : i \in Good
  BY <1>1, <1>7, <1>8, UpwardInduction
<1>10. r[Len(json)] = [text |-> SubSeq(text, 1, n), escaped |-> FALSE]
  BY <1>1, <1>2, <1>9 DEF Good
<1>11. SubSeq(text, 1, n) = text
  <2>1. /\ IsList(SubSeq(text, 1, n)) /\ Len(SubSeq(text, 1, n)) = n
        /\ \A i \in 1..n : SubSeq(text, 1, n)[i] = text[i]
    BY <1>1, ListSub
  <2> QED
    BY <1>1, <2>1, ListsEqual
<1>12. jsonUnquote(json) = text
  BY <1>6, <1>10, <1>11
<1> QED
  BY <1>12 DEF json

-----------------------------------------------------------------------------
(* The envelope, and what comes back out of it.                            *)

\* What a context leaves in the metadata.
Kept(context) ==
  {k \in DOMAIN context.fields : k # "__internal_extensions" \/ context.fields[k] # ""}

BaseKeys == {"encoding", "namespace", "execution_id", "encoding_options"}

\* x is the context, or what has come of it over a hop.
Survives(x, context) ==
  /\ x.namespace = context.namespace
  /\ x.execution_id = context.execution_id
  /\ Kept(x) = Kept(context)
  /\ \A k \in Kept(context) : x.fields[k] = context.fields[k]

LEMMA ContextIs ==
  ASSUME NEW context \in Contexts
  PROVE  /\ DOMAIN context.fields \subseteq Optional
         /\ \A k \in DOMAIN context.fields : context.fields[k] \in {"", "true"}
         /\ Kept(context) \subseteq Optional
<1>1. PICK id \in Ids, f \in OptionalFields :
         context = [namespace |-> "ns", execution_id |-> id, fields |-> f]
  BY DEF Contexts
<1>2. PICK K \in SUBSET Optional : f \in [K -> {"", "true"}]
  BY DEF OptionalFields
<1>3. DOMAIN context.fields \subseteq Optional
      /\ \A k \in DOMAIN context.fields : context.fields[k] \in {"", "true"}
  BY <1>1, <1>2
<1> QED
  BY <1>3 DEF Kept

LEMMA RunContextIs ==
  ASSUME NEW id \in Ids
  PROVE  RunContext(id) \in Contexts /\ Kept(RunContext(id)) = {}
<1> DEFINE none == [k \in {} |-> ""]
<1>1. none \in [{} -> {"", "true"}] /\ DOMAIN none = {}
  OBVIOUS
<1>2. {} \in SUBSET Optional
  OBVIOUS
<1>3. none \in OptionalFields
  BY <1>1, <1>2 DEF OptionalFields
<1>4. RunContext(id) = [namespace |-> "ns", execution_id |-> id, fields |-> none]
  BY DEF RunContext
<1> HIDE DEF none
<1>5. RunContext(id) \in Contexts
  BY <1>3, <1>4 DEF Contexts
<1>6. RunContext(id).fields = none
  BY <1>4
<1> QED
  BY <1>1, <1>5, <1>6 DEF Kept

LEMMA NoContextIs == NoContext.execution_id = ""
BY DEF NoContext

\* What stands in the metadata of an envelope that is not marked.
HeaderHolds(h, context) ==
  /\ h = [k \in BaseKeys \cup Kept(context) |-> h[k]]
  /\ DOMAIN h = BaseKeys \cup Kept(context)
  /\ h["encoding"] = "json/wf_v1"
  /\ h["namespace"] = context.namespace
  /\ h["execution_id"] = context.execution_id
  /\ \A k \in Kept(context) :
       h[k] = IF k = "__internal_on_behalf_of" /\ context.fields[k] # "true"
              THEN "false" ELSE context.fields[k]

LEMMA HeaderIs ==
  ASSUME NEW context \in Contexts
  PROVE  HeaderHolds(Header(context), context)
<1> DEFINE base == Base(context)
           echo == Echoed(context)
           h == Header(context)
<1>1. /\ DOMAIN base = BaseKeys
      /\ base["encoding"] = "json/wf_v1"
      /\ base["namespace"] = context.namespace
      /\ base["execution_id"] = context.execution_id
  BY DEF Base, BaseKeys
<1>2. /\ DOMAIN echo = Kept(context)
      /\ \A k \in Kept(context) :
           echo[k] = IF k = "__internal_on_behalf_of" /\ context.fields[k] # "true"
                     THEN "false" ELSE context.fields[k]
  BY DEF Echoed, Kept
<1>3. h = Merge(base, echo)
  BY DEF Header
<1> HIDE DEF base, echo, h
<1>4. h = [k \in BaseKeys \cup Kept(context) |-> IF k \in BaseKeys THEN base[k] ELSE echo[k]]
  BY <1>1, <1>2, <1>3 DEF Merge
<1>5. BaseKeys \cap Kept(context) = {}
  BY ContextIs DEF BaseKeys, Optional
<1>6. /\ h = [k \in BaseKeys \cup Kept(context) |-> h[k]]
      /\ DOMAIN h = BaseKeys \cup Kept(context)
  BY <1>4
<1>7. /\ h["encoding"] = "json/wf_v1"
      /\ h["namespace"] = context.namespace
      /\ h["execution_id"] = context.execution_id
  BY <1>1, <1>4 DEF BaseKeys
<1>8. \A k \in Kept(context) : h[k] = echo[k]
  BY <1>4, <1>5
<1>9. HeaderHolds(h, context)
  BY <1>2, <1>6, <1>7, <1>8 DEF HeaderHolds
<1> QED
  BY <1>9 DEF h

\* The mark is one key more, and nothing else.
LEMMA MarkedIs ==
  ASSUME NEW context \in Contexts, NEW h, HeaderHolds(h, context), NEW empty \in BOOLEAN
  PROVE  LET md == Marked(h, empty)
         IN  /\ DOMAIN md = DOMAIN h \cup (IF empty THEN {"empty_payload"} ELSE {})
             /\ \A k \in DOMAIN h : md[k] = h[k]
             /\ HasMark(md) <=> empty
             /\ Unmarked(md) = h
<1> DEFINE md == Marked(h, empty)
<1>1. "empty_payload" \notin DOMAIN h
  BY ContextIs DEF HeaderHolds, BaseKeys, Optional
<1>2. DOMAIN Mark = {"empty_payload"}
  BY DEF Mark
<1>3. /\ DOMAIN md = DOMAIN h \cup (IF empty THEN {"empty_payload"} ELSE {})
      /\ \A k \in DOMAIN h : md[k] = h[k]
  <2>1. CASE empty
    <3>1. md = [k \in DOMAIN h \cup DOMAIN Mark |-> IF k \in DOMAIN h THEN h[k] ELSE Mark[k]]
      BY <2>1 DEF Marked, Merge
    <3> QED
      BY <1>2, <2>1, <3>1
  <2>2. CASE ~ empty
    BY <2>2 DEF Marked
  <2> QED
    BY <2>1, <2>2
<1> HIDE DEF md
<1>4. HasMark(md) <=> empty
  BY <1>1, <1>3 DEF HasMark
<1>5. DOMAIN md \ {"empty_payload"} = DOMAIN h
  BY <1>1, <1>3
<1>6. Unmarked(md) = [k \in DOMAIN h |-> md[k]]
  BY <1>5 DEF Unmarked
<1>7. Unmarked(md) = [k \in DOMAIN h |-> h[k]]
  BY <1>3, <1>6
<1>8. Unmarked(md) = h
  BY <1>7 DEF HeaderHolds
<1> QED
  BY <1>3, <1>4, <1>8 DEF md

\* The context read from an envelope is the one it was written from.
LEMMA ContextIsRead ==
  ASSUME NEW context \in Contexts, NEW empty \in BOOLEAN
  PROVE  Survives(ContextOf(Marked(Header(context), empty)), context)
<1> DEFINE h == Header(context)
           md == Marked(h, empty)
           x == ContextOf(md)
<1>1. HeaderHolds(h, context)
  BY HeaderIs
<1> HIDE DEF h
<1>2. /\ DOMAIN md = DOMAIN h \cup (IF empty THEN {"empty_payload"} ELSE {})
      /\ \A k \in DOMAIN h : md[k] = h[k]
  BY <1>1, MarkedIs
<1> HIDE DEF md
<1>3. DOMAIN md \cap Optional = Kept(context)
  BY <1>1, <1>2, ContextIs DEF HeaderHolds, BaseKeys, Optional
<1>4. /\ md["namespace"] = context.namespace /\ md["execution_id"] = context.execution_id
      /\ \A k \in Kept(context) : md[k] = h[k]
  BY <1>1, <1>2 DEF HeaderHolds, BaseKeys
<1>5. /\ x.namespace = context.namespace /\ x.execution_id = context.execution_id
      /\ x.fields = [k \in Kept(context) |->
                       IF k = "__internal_on_behalf_of" THEN (IF md[k] = "true" THEN "true" ELSE "")
                       ELSE md[k]]
  BY <1>3, <1>4 DEF ContextOf
<1>6. ASSUME NEW k \in Kept(context) PROVE x.fields[k] = context.fields[k]
  <2>1. k \in DOMAIN context.fields /\ context.fields[k] \in {"", "true"}
    BY ContextIs DEF Kept
  <2>2. md[k] = IF k = "__internal_on_behalf_of" /\ context.fields[k] # "true"
                THEN "false" ELSE context.fields[k]
    BY <1>1, <1>4 DEF HeaderHolds
  <2>3. x.fields[k] = IF k = "__internal_on_behalf_of" THEN (IF md[k] = "true" THEN "true" ELSE "")
                      ELSE md[k]
    BY <1>5
  <2> QED
    BY <2>1, <2>2, <2>3
<1>7. DOMAIN x.fields = Kept(context)
  BY <1>5
<1> HIDE DEF x
<1>8. Kept(x) = Kept(context)
  BY <1>6, <1>7 DEF Kept
<1>9. Survives(x, context)
  BY <1>5, <1>6, <1>8 DEF Survives
<1> QED
  BY <1>9 DEF x, md, h

\* And it is written back as it was.
LEMMA SameHeader ==
  ASSUME NEW context, NEW x, Survives(x, context)
  PROVE  Header(x) = Header(context)
<1> DEFINE Named(ns, id) ==
             [k \in {"encoding", "namespace", "execution_id", "encoding_options"} |->
                CASE k = "encoding" -> "json/wf_v1" [] k = "namespace" -> ns
                  [] k = "execution_id" -> id [] OTHER -> ""]
           Sent(k, v) == IF k = "__internal_on_behalf_of" /\ v # "true" THEN "false" ELSE v
<1>1. /\ Base(x) = Named(x.namespace, x.execution_id)
      /\ Base(context) = Named(context.namespace, context.execution_id)
  BY DEF Base
<1>2. /\ Echoed(x) = [k \in Kept(x) |-> Sent(k, x.fields[k])]
      /\ Echoed(context) = [k \in Kept(context) |-> Sent(k, context.fields[k])]
  BY DEF Echoed, Kept
<1> HIDE DEF Named, Sent
<1>3. Base(x) = Base(context)
  BY <1>1 DEF Survives
<1>4. \A k \in Kept(context) : Sent(k, x.fields[k]) = Sent(k, context.fields[k])
  BY DEF Survives
<1>5. Echoed(x) = [k \in Kept(context) |-> Sent(k, x.fields[k])]
  BY <1>2 DEF Survives
<1>6. Echoed(x) = Echoed(context)
  BY <1>2, <1>4, <1>5
<1> QED
  BY <1>3, <1>6 DEF Header

-----------------------------------------------------------------------------
(* The journey.                                                            *)

\* A value of a run: null or a text, inside so many objects.
IsValue(v) ==
  /\ v = [is |-> v.is, text |-> v.text, echoes |-> v.echoes]
  /\ v.is \in {"text", "null"} /\ v.text \in Seq(Characters) /\ v.echoes \in Nat
  /\ v.is = "null" => v.text = << >>

LEMMA NothingIsQuoted == jsonQuote(<< >>) = << >>
<1> DEFINE none == << >>
<1>1. Len(none) = 0
  OBVIOUS
<1>2. PICK q : jsonQuote(none) = q[Len(none)]
               /\ \A i \in 0..Len(none) : q[i] = QuoteUpTo(q, none, i)
  BY <1>1, jsonQuoteIs
<1> QED
  BY <1>1, <1>2 DEF QuoteUpTo

LEMMA NullIsValue == IsValue(JsonNull) /\ Written(JsonNull) = JsonNull
<1> DEFINE none == << >>
<1>1. none \in Seq(Characters)
  OBVIOUS
<1>2. jsonQuote(none) = none
  BY NothingIsQuoted
<1>3. JsonNull = [is |-> "null", text |-> none, echoes |-> 0]
  BY DEF JsonNull
<1>4. IsValue(JsonNull)
  BY <1>1, <1>3 DEF IsValue
<1> HIDE DEF none
<1>5. Written(JsonNull) = [is |-> "null", text |-> jsonQuote(none), echoes |-> 0]
  BY <1>3 DEF Written
<1> QED
  BY <1>2, <1>3, <1>4, <1>5

LEMMA WrittenIs ==
  ASSUME NEW v, IsValue(v)
  PROVE  /\ Written(v) = [is |-> v.is, text |-> jsonQuote(v.text), echoes |-> v.echoes]
         /\ Written(v) # NoBytes
         /\ Meaning(Written(v)) = v
         /\ isEmptyValue(Written(v)) <=> v.is = "null" /\ v.echoes = 0
<1> DEFINE json == Written(v)
<1>1. json = [is |-> v.is, text |-> jsonQuote(v.text), echoes |-> v.echoes]
  BY DEF IsValue, Written
<1>2. NoBytes.is = "none"
  BY DEF NoBytes
<1>3. json # NoBytes
  BY <1>1, <1>2 DEF IsValue
<1>4. jsonUnquote(jsonQuote(v.text)) = v.text
  BY TextsComeBack DEF IsValue
<1> HIDE DEF json
<1>5. Meaning(json) = [is |-> v.is, text |-> jsonUnquote(jsonQuote(v.text)), echoes |-> v.echoes]
  BY <1>1, <1>3 DEF Meaning
<1>6. Meaning(json) = v
  BY <1>4, <1>5 DEF IsValue
<1>7. JsonNull.is = "null" /\ JsonNull.echoes = 0
  BY DEF JsonNull
<1>8. ASSUME v.is = "null", v.echoes = 0 PROVE json = JsonNull
  <2>1. v.text = JsonNull.text /\ JsonNull = [is |-> "null", text |-> JsonNull.text, echoes |-> 0]
    BY <1>8 DEF IsValue, JsonNull
  <2>2. v = JsonNull
    BY <1>8, <2>1 DEF IsValue
  <2> QED
    BY <2>2, NullIsValue DEF json
<1>9. isEmptyValue(json) <=> v.is = "null" /\ v.echoes = 0
  BY <1>1, <1>3, <1>7, <1>8 DEF isEmptyValue
<1> QED
  BY <1>1, <1>3, <1>6, <1>9 DEF json

\* A handler's result, as it is sent.
Result(activity, json) ==
  LET r == invoke(activity, json).value IN IF r = NoBytes THEN JsonNull ELSE r

\* A handler does in JSON what it is for.
LEMMA HandlerHandles ==
  ASSUME NEW v, IsValue(v), NEW activity \in Activities,
         invoke(activity, Written(v)).ok
  PROVE  /\ IsValue(Handled(activity, v))
         /\ Result(activity, Written(v)) = Written(Handled(activity, v))
         /\ isEmptyValue(invoke(activity, Written(v)).value)
              <=> isEmptyValue(Written(Handled(activity, v)))
<1> DEFINE json == Written(v)
           r == invoke(activity, json).value
           w == Handled(activity, v)
<1>1. json = [is |-> v.is, text |-> jsonQuote(v.text), echoes |-> v.echoes] /\ json # NoBytes
  BY WrittenIs
<1>2. ASSUME IsValue(w), r = Written(w)
      PROVE  /\ Result(activity, json) = Written(w)
             /\ isEmptyValue(r) <=> isEmptyValue(Written(w))
  BY <1>2, WrittenIs DEF Result
<1>3. CASE activity = "device.echo"
  <2>1. w = [is |-> v.is, text |-> v.text, echoes |-> v.echoes + 1]
    BY <1>3 DEF Handled, IsValue
  <2>2. IsValue(w)
    BY <2>1 DEF IsValue
  <2> HIDE DEF json
  <2>3. r = [is |-> v.is, text |-> jsonQuote(v.text), echoes |-> v.echoes + 1]
    BY <1>1, <1>3 DEF invoke, Success
  <2>4. Written(w) = [is |-> v.is, text |-> jsonQuote(v.text), echoes |-> v.echoes + 1]
    BY <2>1 DEF Written
  <2> QED
    BY <1>2, <2>2, <2>3, <2>4 DEF json
<1>4. CASE activity = "quiet"
  <2>1. r = NoBytes /\ w = JsonNull
    BY <1>4 DEF invoke, Success, Handled
  <2>2. isEmptyValue(NoBytes) /\ isEmptyValue(JsonNull)
    BY DEF isEmptyValue
  <2> HIDE DEF r, w
  <2>3. Result(activity, json) = JsonNull
    BY <2>1 DEF Result, r
  <2> QED
    BY <2>1, <2>2, <2>3, NullIsValue DEF r, w
<1>5. CASE activity = "shout"
  <2>1. json.is = "text" /\ json.echoes = 0 /\ r = JsonText(jsonQuote(jsonUnquote(json.text)))
    BY <1>5 DEF invoke, Success, Failed
  <2>2. w = v
    BY <1>5 DEF Handled
  <2> HIDE DEF json, r, w
  <2>3. json.text = jsonQuote(v.text) /\ v.is = "text" /\ v.echoes = 0
    BY <1>1, <2>1
  <2>4. jsonUnquote(jsonQuote(v.text)) = v.text
    BY TextsComeBack DEF IsValue
  <2>5. r = [is |-> "text", text |-> jsonQuote(v.text), echoes |-> 0]
    BY <2>1, <2>3, <2>4 DEF JsonText
  <2>6. r = json
    BY <1>1, <2>3, <2>5
  <2> QED
    BY <1>2, <2>2, <2>6 DEF json, r, w
<1> QED
  BY <1>3, <1>4, <1>5 DEF Activities

ForeignMetadata == {<< >>, [k \in {"encoding"} |-> "binary/null"]}

\* The letter is a record with what its run is about.
LetterIs ==
  /\ letter = [sender |-> letter.sender, run |-> letter.run, activity |-> letter.activity,
               value |-> letter.value, asked |-> letter.asked, payload |-> letter.payload,
               stage |-> letter.stage]
  /\ letter.activity \in Activities
  /\ IsValue(letter.value)

\* It holds the value in an envelope of its run, with or without the mark; a run of
\* this system has a context of two names.
InEnvelope ==
  /\ letter.run \in Contexts
  /\ letter.payload = outbound(Written(letter.value), letter.run)
  /\ \E empty \in BOOLEAN : letter.asked = Marked(Header(letter.run), empty)
  /\ letter.sender = "loop" => \E id \in Ids : letter.run = RunContext(id)

\* Or in a plain payload, in answer to one or to none.
InPlain ==
  /\ letter.payload = Wrapped(PlainMetadata, Written(letter.value))
  /\ letter.asked = PlainMetadata /\ letter.sender = "other"

\* Or it is a question without input, or in an encoding no worker reads.
InNothing ==
  /\ letter.payload = NoInput /\ letter.value = JsonNull
  /\ letter.asked = PlainMetadata /\ letter.sender = "other" /\ letter.stage # "answered"
InForeign ==
  /\ \E md \in ForeignMetadata : letter.payload = Wrapped(md, Written(letter.value))
  /\ letter.sender = "other" /\ letter.stage # "answered"

LetterInv == LetterIs /\ (InEnvelope \/ InPlain \/ InNothing \/ InForeign)

LEMMA PlainIsRead ==
  ASSUME NEW json
  PROVE  LET input == inputOf(Wrapped(PlainMetadata, json))
         IN  input.ok /\ input.argument = json /\ input.context = NoContext
<1> DEFINE payload == Wrapped(PlainMetadata, json)
<1>1. payload.metadata = PlainMetadata /\ payload.data = json
  BY DEF Wrapped
<1>2. DOMAIN PlainMetadata = {"encoding"} /\ PlainMetadata["encoding"] = "json/plain"
  BY DEF PlainMetadata
<1>3. payload # NoInput
  <2> DEFINE none == << >>
  <2>1. NoInput.metadata = none /\ "encoding" \notin DOMAIN none
    BY DEF NoInput, Wrapped
  <2> HIDE DEF none
  <2> QED
    BY <1>1, <1>2, <2>1
<1> HIDE DEF payload
<1>4. LET input == decodeActivityInput(payload)
      IN  input.ok /\ input.argument = json /\ input.context = NoContext
  BY <1>1, <1>2 DEF decodeActivityInput
<1>5. inputOf(payload) = decodeActivityInput(payload)
  BY <1>3 DEF inputOf
<1> QED
  BY <1>4, <1>5 DEF payload

LEMMA ForeignIsRefused ==
  ASSUME NEW md \in ForeignMetadata, NEW v, IsValue(v)
  PROVE  ~ inputOf(Wrapped(md, Written(v))).ok
<1> DEFINE payload == Wrapped(md, Written(v))
<1>1. payload.metadata = md /\ payload.data = Written(v)
  BY DEF Wrapped
<1>2. payload # NoInput
  <2>1. NoInput.data = NoBytes
    BY DEF NoInput, Wrapped
  <2> QED
    BY <1>1, <2>1, WrittenIs
<1> HIDE DEF payload
<1>3. "encoding" \in DOMAIN md => md["encoding"] = "binary/null"
  <2> DEFINE none == << >>
  <2>1. "encoding" \notin DOMAIN none
    OBVIOUS
  <2> HIDE DEF none
  <2>2. CASE md = none
    BY <2>1, <2>2
  <2>3. CASE md = [k \in {"encoding"} |-> "binary/null"]
    BY <2>3
  <2> QED
    BY <2>2, <2>3 DEF ForeignMetadata, none
<1>4. ~ decodeActivityInput(payload).ok
  BY <1>1, <1>3 DEF decodeActivityInput
<1> QED
  BY <1>2, <1>4 DEF inputOf, payload

LEMMA EnvelopeIsRead ==
  ASSUME NEW context \in Contexts, NEW v, IsValue(v)
  PROVE  LET input == inputOf(outbound(Written(v), context))
         IN  /\ input.argument = Written(v)
             /\ input.ok <=> context.execution_id # ""
             /\ input.ok => Survives(input.context, context)
<1> DEFINE json == Written(v)
           empty == isEmptyValue(json)
           md == Marked(Header(context), empty)
           payload == outbound(json, context)
<1>1. payload.metadata = md /\ payload.data = json
  BY DEF outbound, encodeActivityResult, Wrapped
<1>2. empty \in BOOLEAN
  BY DEF isEmptyValue
<1>3. json # NoBytes
  BY WrittenIs
<1> HIDE DEF payload, json, empty
<1>4. HeaderHolds(Header(context), context)
  BY HeaderIs
<1>5. /\ DOMAIN Header(context) \subseteq DOMAIN md
      /\ \A k \in DOMAIN Header(context) : md[k] = Header(context)[k]
  BY <1>2, <1>4, MarkedIs
<1>6. /\ "encoding" \in DOMAIN md /\ md["encoding"] = "json/wf_v1"
      /\ md["execution_id"] = context.execution_id
  BY <1>4, <1>5 DEF HeaderHolds, BaseKeys
<1>7. Survives(ContextOf(md), context)
  BY <1>2, ContextIsRead
<1> HIDE DEF md
<1>8. payload # NoInput
  BY <1>1, <1>3 DEF NoInput, Wrapped
<1>9. inputOf(payload) = decodeActivityInput(payload)
  BY <1>8 DEF inputOf
<1>10. LET input == decodeActivityInput(payload)
       IN  /\ input.argument = json
           /\ input.ok <=> context.execution_id # ""
           /\ input.ok => input.context = ContextOf(md)
  BY <1>1, <1>6 DEF decodeActivityInput
<1> QED
  BY <1>7, <1>9, <1>10 DEF payload, json

\* The answer to what is in an envelope is in one of the same run.
LEMMA AnswerIsEnvelope ==
  ASSUME NEW context \in Contexts, NEW v, IsValue(v), NEW activity \in Activities,
         inputOf(outbound(Written(v), context)).ok, invoke(activity, Written(v)).ok
  PROVE  AnswerTo(outbound(Written(v), context), activity)
           = outbound(Written(Handled(activity, v)), context)
<1> DEFINE payload == outbound(Written(v), context)
           r == invoke(activity, Written(v)).value
           new == Written(Handled(activity, v))
<1>1. PICK input : input = inputOf(payload)
  OBVIOUS
<1>2. input.argument = Written(v) /\ input.context.execution_id # "" /\ Survives(input.context, context)
  BY <1>1, EnvelopeIsRead DEF Survives
<1>3. /\ (IF r = NoBytes THEN JsonNull ELSE r) = new
      /\ isEmptyValue(r) <=> isEmptyValue(new)
  BY HandlerHandles DEF Result
<1>4. AnswerTo(payload, activity) = respond(input, r)
  BY <1>1, <1>2 DEF AnswerTo
<1> HIDE DEF payload, r, new
<1>5. respond(input, r) = encodeActivityResult(new, input.context, isEmptyValue(r))
  BY <1>2, <1>3 DEF respond
<1>6. Header(input.context) = Header(context)
  BY <1>2, SameHeader
<1>7. isEmptyValue(r) = isEmptyValue(new)
  BY <1>3 DEF isEmptyValue
<1>8. encodeActivityResult(new, input.context, isEmptyValue(r))
        = Wrapped(Marked(Header(context), isEmptyValue(new)), new)
  BY <1>6, <1>7 DEF encodeActivityResult
<1> QED
  BY <1>4, <1>5, <1>8 DEF outbound, encodeActivityResult, payload, new

\* The answer to a plain one is plain.
LEMMA AnswerIsPlain ==
  ASSUME NEW payload, NEW v, IsValue(v), NEW activity \in Activities,
         inputOf(payload).argument = Written(v), inputOf(payload).context = NoContext,
         invoke(activity, Written(v)).ok
  PROVE  AnswerTo(payload, activity) = Wrapped(PlainMetadata, Written(Handled(activity, v)))
<1> DEFINE r == invoke(activity, Written(v)).value
<1>1. (IF r = NoBytes THEN JsonNull ELSE r) = Written(Handled(activity, v))
  BY HandlerHandles DEF Result
<1>2. AnswerTo(payload, activity) = respond(inputOf(payload), r)
  BY DEF AnswerTo
<1> HIDE DEF r
<1>3. respond(inputOf(payload), r) = plainPayload(r)
  BY NoContextIs DEF respond
<1> QED
  BY <1>1, <1>2, <1>3 DEF plainPayload

LEMMA AnswersKeepLetter ==
  ASSUME LetterInv, NEW on, AnswersTask(on)
  PROVE  LetterInv'
<1> DEFINE v == letter.value
           activity == letter.activity
           new == AnswerTo(letter.payload, activity)
           w == Handled(activity, v)
<1>1. /\ inputOf(letter.payload).ok
      /\ invoke(activity, inputOf(letter.payload).argument).ok
      /\ letter' = [letter EXCEPT !.stage = "answered", !.payload = new, !.value = w]
  BY DEF AnswersTask, HandlerRuns
<1>2. IsValue(v) /\ activity \in Activities
  BY DEF LetterInv, LetterIs
<1> HIDE DEF new, w
<1>3. letter' = [sender |-> letter.sender, run |-> letter.run, activity |-> activity,
                 value |-> w, asked |-> letter.asked, payload |-> new, stage |-> "answered"]
  BY <1>1 DEF LetterInv, LetterIs
<1>4. ASSUME inputOf(letter.payload).argument = Written(v)
      PROVE  invoke(activity, Written(v)).ok /\ IsValue(w) /\ LetterIs'
  <2>1. invoke(activity, Written(v)).ok
    BY <1>1, <1>4
  <2>2. IsValue(w)
    BY <1>2, <2>1, HandlerHandles DEF w
  <2>3. LetterIs'
    BY <1>2, <1>3, <2>2 DEF LetterIs, IsValue
  <2> QED
    BY <2>1, <2>2, <2>3
<1>5. CASE InEnvelope
  <2>1. letter.run \in Contexts /\ letter.payload = outbound(Written(v), letter.run)
    BY <1>5 DEF InEnvelope
  <2>2. inputOf(letter.payload).argument = Written(v)
    BY <1>2, <2>1, EnvelopeIsRead
  <2>3. invoke(activity, Written(v)).ok /\ LetterIs'
    BY <1>4, <2>2
  <2>4. new = outbound(Written(w), letter.run)
    BY <1>1, <1>2, <2>1, <2>3, AnswerIsEnvelope DEF new, w
  <2>5. InEnvelope'
    BY <1>3, <1>5, <2>1, <2>4 DEF InEnvelope
  <2> QED
    BY <2>3, <2>5 DEF LetterInv
<1>6. ASSUME inputOf(letter.payload).argument = Written(v),
             inputOf(letter.payload).context = NoContext,
             letter.asked = PlainMetadata, letter.sender = "other"
      PROVE  LetterInv'
  <2>1. invoke(activity, Written(v)).ok /\ LetterIs'
    BY <1>4, <1>6
  <2>2. new = Wrapped(PlainMetadata, Written(w))
    BY <1>2, <1>6, <2>1, AnswerIsPlain DEF new, w
  <2>3. InPlain'
    BY <1>3, <1>6, <2>2 DEF InPlain
  <2> QED
    BY <2>1, <2>3 DEF LetterInv
<1>7. CASE InPlain
  <2>1. /\ letter.payload = Wrapped(PlainMetadata, Written(v))
        /\ letter.asked = PlainMetadata /\ letter.sender = "other"
    BY <1>7 DEF InPlain
  <2>2. inputOf(letter.payload).argument = Written(v) /\ inputOf(letter.payload).context = NoContext
    BY <2>1, PlainIsRead
  <2> QED
    BY <1>6, <2>1, <2>2
<1>8. CASE InNothing
  <2>1. letter.payload = NoInput /\ v = JsonNull /\ letter.asked = PlainMetadata /\ letter.sender = "other"
    BY <1>8 DEF InNothing
  <2>2. inputOf(letter.payload).argument = JsonNull /\ inputOf(letter.payload).context = NoContext
    BY <2>1 DEF inputOf
  <2>3. Written(v) = JsonNull
    BY <2>1, NullIsValue
  <2> QED
    BY <1>6, <2>1, <2>2, <2>3
<1>9. CASE InForeign
  BY <1>1, <1>2, <1>9, ForeignIsRefused DEF InForeign
<1> QED
  BY <1>5, <1>7, <1>8, <1>9 DEF LetterInv

\* What this system's workflow sends on is what it was sent, in the envelope it was in.
LEMMA InboundIsOutbound ==
  ASSUME LetterInv, letter.sender = "loop"
  PROVE  /\ InEnvelope
         /\ outbound(inbound(letter.payload), letter.run) = letter.payload
         /\ letter.payload.metadata
              = Marked(Header(letter.run), isEmptyValue(Written(letter.value)))
<1>1. InEnvelope
  BY DEF LetterInv, InPlain, InNothing, InForeign
<1> DEFINE json == Written(letter.value)
<1>2. letter.payload = outbound(json, letter.run)
  BY <1>1 DEF InEnvelope
<1> HIDE DEF json
<1>3. /\ letter.payload.data = json
      /\ letter.payload.metadata = Marked(Header(letter.run), isEmptyValue(json))
  BY <1>2 DEF outbound, encodeActivityResult, Wrapped
<1>4. inbound(letter.payload) = json
  BY <1>3 DEF inbound, decodeActivityInput, Wrapped
<1> QED
  BY <1>1, <1>2, <1>3, <1>4 DEF json

LEMMA SchedulesKeepLetter ==
  ASSUME LetterInv, SchedulesNext
  PROVE  LetterInv'
<1> DEFINE md == Marked(Header(letter.run), isEmptyValue(Written(letter.value)))
<1>1. letter.sender = "loop"
  BY DEF SchedulesNext
<1>2. /\ InEnvelope
      /\ outbound(inbound(letter.payload), letter.run) = letter.payload
      /\ letter.payload.metadata = md
  BY <1>1, InboundIsOutbound
<1>3. PICK activity \in Activities :
        letter' = [letter EXCEPT !.stage = "sent", !.activity = activity,
                                 !.payload = letter.payload, !.asked = letter.payload.metadata]
  BY <1>2 DEF SchedulesNext
<1>4. isEmptyValue(Written(letter.value)) \in BOOLEAN
  BY DEF isEmptyValue
<1>5. \E empty \in BOOLEAN : md = Marked(Header(letter.run), empty)
  BY <1>4
<1> HIDE DEF md
<1>6. letter' = [sender |-> letter.sender, run |-> letter.run, activity |-> activity,
                 value |-> letter.value, asked |-> md, payload |-> letter.payload,
                 stage |-> "sent"]
  BY <1>2, <1>3 DEF LetterInv, LetterIs
<1>7. LetterIs'
  BY <1>6 DEF LetterInv, LetterIs, IsValue
<1>8. InEnvelope'
  BY <1>2, <1>5, <1>6 DEF InEnvelope
<1> QED
  BY <1>7, <1>8 DEF LetterInv

\* A letter of which only the stage changes, and not to an answer.
LEMMA StageKeepsLetter ==
  ASSUME LetterInv, NEW stage, letter' = [letter EXCEPT !.stage = stage],
         stage # "answered" \/ InEnvelope
  PROVE  LetterInv'
<1>1. letter' = [sender |-> letter.sender, run |-> letter.run, activity |-> letter.activity,
                 value |-> letter.value, asked |-> letter.asked, payload |-> letter.payload,
                 stage |-> stage]
  BY DEF LetterInv, LetterIs
<1>2. LetterIs'
  BY <1>1 DEF LetterInv, LetterIs, IsValue
<1>3. InEnvelope => InEnvelope'
  BY <1>1 DEF InEnvelope
<1>4. InPlain => InPlain'
  BY <1>1 DEF InPlain
<1>5. stage # "answered" => (InNothing => InNothing') /\ (InForeign => InForeign')
  BY <1>1 DEF InNothing, InForeign
<1> QED
  BY <1>2, <1>3, <1>4, <1>5 DEF LetterInv

LEMMA CompletesKeepsLetter ==
  ASSUME LetterInv, CompletesRun
  PROVE  LetterInv'
<1>1. outbound(inbound(letter.payload), letter.run) = letter.payload
  BY InboundIsOutbound DEF CompletesRun
<1>2. letter' = [letter EXCEPT !.stage = "closed", !.payload = letter.payload]
  BY <1>1 DEF CompletesRun
<1>3. letter' = [letter EXCEPT !.stage = "closed"]
  BY <1>2 DEF LetterInv, LetterIs
<1> QED
  BY <1>3, StageKeepsLetter

LEMMA FirstValueIs ==
  ASSUME NEW value \in FirstValues
  PROVE  IsValue(value)
<1>1. CASE value = JsonNull
  BY <1>1, NullIsValue
<1>2. CASE \E text \in Texts : value = JsonText(text)
  <2>1. PICK text \in Texts : value = JsonText(text)
    BY <1>2
  <2>2. text \in Seq(Characters)
    BY CodecAssumption
  <2> QED
    BY <2>1, <2>2 DEF JsonText, IsValue
<1> QED
  BY <1>1, <1>2 DEF FirstValues

\* A letter that goes out is what it says.
LEMMA LetterHas ==
  ASSUME NEW sender, NEW run, NEW activity \in Activities, NEW value, IsValue(value),
         NEW payload, letter = Letter(sender, run, activity, value, payload)
  PROVE  /\ LetterIs
         /\ letter.sender = sender /\ letter.run = run /\ letter.value = value
         /\ letter.payload = payload /\ letter.stage = "sent"
         /\ letter.asked = IF payload = NoInput THEN PlainMetadata ELSE payload.metadata
<1>1. PICK asked : asked = IF payload = NoInput THEN PlainMetadata ELSE payload.metadata
  OBVIOUS
<1>2. letter = [sender |-> sender, run |-> run, activity |-> activity, value |-> value,
                asked |-> asked, payload |-> payload, stage |-> "sent"]
  BY <1>1 DEF Letter
<1> QED
  BY <1>1, <1>2 DEF LetterIs

LEMMA FirstEnvelope ==
  ASSUME NEW sender, NEW run \in Contexts, NEW activity \in Activities,
         NEW value, IsValue(value),
         letter = Letter(sender, run, activity, value, outbound(Written(value), run)),
         sender = "loop" => \E id \in Ids : run = RunContext(id)
  PROVE  LetterInv
<1> DEFINE json == Written(value)
           payload == outbound(json, run)
           empty == isEmptyValue(json)
<1>1. payload.metadata = Marked(Header(run), empty) /\ payload.data = json
  BY DEF outbound, encodeActivityResult, Wrapped
<1>2. empty \in BOOLEAN
  BY DEF isEmptyValue
<1>3. payload # NoInput
  BY <1>1, WrittenIs DEF NoInput, Wrapped
<1> HIDE DEF empty, payload
<1>4. /\ LetterIs /\ letter.sender = sender /\ letter.run = run /\ letter.value = value
      /\ letter.payload = payload /\ letter.asked = payload.metadata
  BY <1>3, LetterHas DEF payload
<1>5. \E e \in BOOLEAN : letter.asked = Marked(Header(letter.run), e)
  BY <1>1, <1>2, <1>4
<1>6. InEnvelope
  BY <1>4, <1>5 DEF InEnvelope, payload
<1> QED
  BY <1>4, <1>6 DEF LetterInv

LEMMA FirstBare ==
  ASSUME NEW run, NEW activity \in Activities, NEW value, IsValue(value),
         NEW md, md = PlainMetadata \/ md \in ForeignMetadata,
         letter = Letter("other", run, activity, value, Wrapped(md, Written(value)))
  PROVE  LetterInv
<1> DEFINE payload == Wrapped(md, Written(value))
<1>1. payload.metadata = md /\ payload.data = Written(value)
  BY DEF Wrapped
<1>2. payload # NoInput
  BY <1>1, WrittenIs DEF NoInput, Wrapped
<1> HIDE DEF payload
<1>3. /\ LetterIs /\ letter.sender = "other" /\ letter.value = value
      /\ letter.payload = payload /\ letter.asked = md /\ letter.stage = "sent"
  BY <1>1, <1>2, LetterHas DEF payload
<1>4. CASE md = PlainMetadata
  BY <1>3, <1>4 DEF LetterInv, InPlain, payload
<1>5. CASE md \in ForeignMetadata
  BY <1>3, <1>5 DEF LetterInv, InForeign, payload
<1> QED
  BY <1>4, <1>5

LEMMA FirstNothing ==
  ASSUME NEW activity \in Activities, NEW stage, stage # "answered",
         letter = [Letter("other", NoContext, activity, JsonNull, NoInput) EXCEPT !.stage = stage]
  PROVE  LetterInv
<1> DEFINE none == NoInput
           run == NoContext
<1> HIDE DEF none, run
<1>1. letter = [sender |-> "other", run |-> run, activity |-> activity, value |-> JsonNull,
                asked |-> PlainMetadata, payload |-> none, stage |-> stage]
  BY DEF Letter, none, run
<1>2. LetterIs
  BY <1>1, NullIsValue DEF LetterIs
<1>3. InNothing
  BY <1>1 DEF InNothing, none
<1> QED
  BY <1>2, <1>3 DEF LetterInv

LEMMA FirstLetter ==
  ASSUME Init
  PROVE  LetterInv
<1>1. CASE topic # "letter"
  <2>1. letter = [Letter("other", NoContext, "quiet", JsonNull, NoInput) EXCEPT !.stage = "none"]
    BY <1>1 DEF Init
  <2>2. "quiet" \in Activities
    BY DEF Activities
  <2> QED
    BY <2>1, <2>2, FirstNothing
<1>2. CASE topic = "letter" /\ RunStarts
  <2>1. PICK id \in Ids \ {""}, activity \in Activities, value \in FirstValues :
          letter = Letter("loop", RunContext(id), activity, value,
                          outbound(Written(value), RunContext(id)))
    BY <1>2 DEF RunStarts
  <2>2. RunContext(id) \in Contexts /\ IsValue(value)
    BY RunContextIs, FirstValueIs
  <2> QED
    BY <2>1, <2>2, FirstEnvelope
<1>3. CASE topic = "letter" /\ OthersAsk
  <2>1. PICK activity \in Activities, value \in FirstValues :
          \/ \E context \in Contexts :
               letter = Letter("other", context, activity, value, outbound(Written(value), context))
          \/ \E payload \in {plainPayload(Written(value)),
                             Wrapped([k \in {"encoding"} |-> "binary/null"], Written(value)),
                             Wrapped(<< >>, Written(value))} :
               letter = Letter("other", NoContext, activity, value, payload)
          \/ value = JsonNull /\ letter = Letter("other", NoContext, activity, value, NoInput)
    BY <1>3 DEF OthersAsk
  <2>2. IsValue(value)
    BY FirstValueIs
  <2>3. CASE \E context \in Contexts :
               letter = Letter("other", context, activity, value, outbound(Written(value), context))
    BY <2>2, <2>3, FirstEnvelope
  <2>4. CASE \E payload \in {plainPayload(Written(value)),
                             Wrapped([k \in {"encoding"} |-> "binary/null"], Written(value)),
                             Wrapped(<< >>, Written(value))} :
               letter = Letter("other", NoContext, activity, value, payload)
    <3>1. plainPayload(Written(value)) = Wrapped(PlainMetadata, Written(value))
      BY <2>2, WrittenIs DEF plainPayload
    <3>2. \E md : /\ md = PlainMetadata \/ md \in ForeignMetadata
                  /\ letter = Letter("other", NoContext, activity, value, Wrapped(md, Written(value)))
      BY <2>4, <3>1 DEF ForeignMetadata
    <3> QED
      BY <2>2, <3>2, FirstBare
  <2>5. CASE value = JsonNull /\ letter = Letter("other", NoContext, activity, value, NoInput)
    <3>1. letter = [Letter("other", NoContext, activity, JsonNull, NoInput) EXCEPT !.stage = "sent"]
      BY <2>5 DEF Letter
    <3> QED
      BY <3>1, FirstNothing
  <2> QED
    BY <2>1, <2>3, <2>4, <2>5
<1> QED
  BY <1>1, <1>2, <1>3 DEF Init, CodecInit

LEMMA LetterTravels ==
  ASSUME LetterInv, [Next]_ConversionVars
  PROVE  LetterInv'
<1>1. CASE UNCHANGED letter
  BY <1>1 DEF LetterInv, LetterIs, InEnvelope, InPlain, InNothing, InForeign
<1>2. ASSUME NEW on, AnswersTask(on) PROVE LetterInv'
  BY <1>2, AnswersKeepLetter
<1>3. CASE SchedulesNext
  BY <1>3, SchedulesKeepLetter
<1>4. CASE CompletesRun
  BY <1>4, CompletesKeepsLetter
<1>5. CASE TimesOut \/ \E on \in {"desktop", "device"} : Unread(on) \/ respondFailed(on) \/ AnswersNothing(on)
  <2>1. \E stage \in {"sent", "unread", "failed", "unanswered"} :
          letter' = [letter EXCEPT !.stage = stage]
    BY <1>5 DEF TimesOut, Unread, respondFailed, AnswersNothing
  <2> QED
    BY <2>1, StageKeepsLetter
<1> QED
  BY <1>1, <1>2, <1>3, <1>4, <1>5 DEF Next, CodecNext, ConversionVars

AtMost(S, n) == IsFiniteSet(S) /\ Cardinality(S) <= n

LEMMA OneMore ==
  ASSUME NEW S, NEW x, NEW n \in Nat, AtMost(S, n)
  PROVE  AtMost(S \cup {x}, n + 1)
<1>1. IsFiniteSet(S) /\ Cardinality(S) <= n
  BY DEF AtMost
<1>2. Cardinality(S) \in Nat
  BY <1>1, FS_CardinalityType
<1>3. /\ IsFiniteSet(S \cup {x})
      /\ Cardinality(S \cup {x}) = IF x \in S THEN Cardinality(S) ELSE Cardinality(S) + 1
  BY <1>1, FS_AddElement
<1>4. Cardinality(S \cup {x}) <= n + 1
  BY <1>1, <1>2, <1>3
<1> QED
  BY <1>3, <1>4 DEF AtMost

\* A run of this system has four keys in its envelopes, and the mark makes five.
LEMMA RunIsNamed ==
  ASSUME NEW id \in Ids, NEW empty \in BOOLEAN
  PROVE  LET md == Marked(Header(RunContext(id)), empty)
         IN  /\ md["execution_id"] = RunContext(id).execution_id
             /\ md["namespace"] = RunContext(id).namespace
             /\ Cardinality(DOMAIN md) <= DeviceKeys
<1> DEFINE context == RunContext(id)
           h == Header(context)
           md == Marked(h, empty)
           five == BaseKeys \cup {"empty_payload"}
<1>1. context \in Contexts /\ Kept(context) = {}
  BY RunContextIs
<1> HIDE DEF context
<1>2. HeaderHolds(h, context)
  BY <1>1, HeaderIs
<1> HIDE DEF h
<1>3. /\ DOMAIN md = DOMAIN h \cup (IF empty THEN {"empty_payload"} ELSE {})
      /\ \A k \in DOMAIN h : md[k] = h[k]
  BY <1>1, <1>2, MarkedIs
<1> HIDE DEF md
<1>4. md["execution_id"] = context.execution_id /\ md["namespace"] = context.namespace
  BY <1>2, <1>3 DEF HeaderHolds, BaseKeys
<1>5. DOMAIN md \subseteq five
  BY <1>1, <1>2, <1>3 DEF HeaderHolds
<1>6. AtMost(five, 5)
  <2> DEFINE one == {"encoding"}
             two == one \cup {"namespace"}
             three == two \cup {"execution_id"}
             four == three \cup {"encoding_options"}
  <2>1. AtMost(one, 1)
    BY FS_Singleton DEF AtMost
  <2>2. five = four \cup {"empty_payload"}
    BY DEF BaseKeys
  <2> HIDE DEF one, five
  <2>3. AtMost(one \cup {"namespace"}, 1 + 1)
    BY <2>1, OneMore
  <2>4. AtMost(two, 2)
    BY <2>3
  <2> HIDE DEF two
  <2>5. AtMost(two \cup {"execution_id"}, 2 + 1)
    BY <2>4, OneMore
  <2>6. AtMost(three, 3)
    BY <2>5
  <2> HIDE DEF three
  <2>7. AtMost(three \cup {"encoding_options"}, 3 + 1)
    BY <2>6, OneMore
  <2>8. AtMost(four, 4)
    BY <2>7
  <2> HIDE DEF four
  <2>9. AtMost(four \cup {"empty_payload"}, 4 + 1)
    BY <2>8, OneMore
  <2> QED
    BY <2>2, <2>9
<1> HIDE DEF five
<1>7. /\ Cardinality(five) \in Nat /\ Cardinality(five) <= 5
      /\ Cardinality(DOMAIN md) <= Cardinality(five) /\ Cardinality(DOMAIN md) \in Nat
  BY <1>5, <1>6, FS_Subset, FS_CardinalityType DEF AtMost
<1>8. DeviceKeys \in Nat /\ DeviceKeys >= 5
  BY CodecAssumption
<1>9. Cardinality(DOMAIN md) <= DeviceKeys
  BY <1>7, <1>8
<1> QED
  BY <1>4, <1>9 DEF md, h, context

LEMMA LetterArrives ==
  ASSUME LetterInv
  PROVE  EnvelopeKeepsItsRun
<1> DEFINE md == letter.payload.metadata
           json == letter.payload.data
           v == letter.value
<1>1. IsValue(v)
  BY DEF LetterInv, LetterIs
<1>2. Meaning(Written(v)) = v
  BY <1>1, WrittenIs
<1>3. CASE InEnvelope
  <2> DEFINE empty == isEmptyValue(Written(v))
             h == Header(letter.run)
  <2>1. md = Marked(h, empty) /\ json = Written(v)
    BY <1>3 DEF InEnvelope, outbound, encodeActivityResult, Wrapped
  <2>2. empty \in BOOLEAN
    BY DEF isEmptyValue
  <2>3. letter.run \in Contexts /\ HeaderHolds(h, letter.run)
    BY <1>3, HeaderIs DEF InEnvelope
  <2>4. PICK b \in BOOLEAN : letter.asked = Marked(h, b)
    BY <1>3 DEF InEnvelope
  <2> HIDE DEF empty, h
  <2>5. (HasMark(md) <=> empty) /\ Unmarked(md) = h
    BY <2>1, <2>2, <2>3, MarkedIs
  <2>6. Unmarked(letter.asked) = h
    BY <2>3, <2>4, MarkedIs
  <2>7. letter.sender = "loop" =>
          /\ md["execution_id"] = letter.run.execution_id
          /\ md["namespace"] = letter.run.namespace
          /\ Cardinality(DOMAIN md) <= DeviceKeys
    <3> SUFFICES ASSUME letter.sender = "loop"
                 PROVE  /\ md["execution_id"] = letter.run.execution_id
                        /\ md["namespace"] = letter.run.namespace
                        /\ Cardinality(DOMAIN md) <= DeviceKeys
      OBVIOUS
    <3>1. PICK id \in Ids : letter.run = RunContext(id)
      BY <1>3 DEF InEnvelope
    <3> QED
      BY <2>1, <2>2, <3>1, RunIsNamed DEF h
  <2>8. Meaning(json) = v /\ (HasMark(md) <=> isEmptyValue(json))
    BY <1>2, <2>1, <2>5 DEF empty
  <2> HIDE DEF md, json
  <2> QED
    BY <2>5, <2>6, <2>7, <2>8 DEF EnvelopeKeepsItsRun, md, json
<1>4. ASSUME letter.sender = "other", Meaning(json) = v, "execution_id" \notin DOMAIN md,
             letter.stage = "answered" => Unmarked(md) = Unmarked(letter.asked)
      PROVE  EnvelopeKeepsItsRun
  BY <1>4 DEF EnvelopeKeepsItsRun
<1>5. CASE InPlain
  <2>1. md = PlainMetadata /\ json = Written(v)
    BY <1>5 DEF InPlain, Wrapped
  <2>2. "execution_id" \notin DOMAIN md
    BY <2>1 DEF PlainMetadata
  <2>3. letter.sender = "other" /\ letter.asked = PlainMetadata
    BY <1>5 DEF InPlain
  <2>4. Unmarked(md) = Unmarked(letter.asked)
    BY <2>1, <2>3
  <2> QED
    BY <1>2, <1>4, <2>1, <2>2, <2>3, <2>4
<1> DEFINE none == << >>
<1>6. \A k : k \in DOMAIN none <=> FALSE
  OBVIOUS
<1> HIDE DEF none
<1>7. CASE InNothing
  <2>1. md = none /\ json = NoBytes
    BY <1>7 DEF InNothing, NoInput, Wrapped, none
  <2>2. Meaning(json) = v
    BY <1>7, <2>1 DEF InNothing, Meaning
  <2> QED
    BY <1>4, <1>6, <1>7, <2>1, <2>2 DEF InNothing
<1>8. CASE InForeign
  <2>1. PICK m \in ForeignMetadata : letter.payload = Wrapped(m, Written(v))
    BY <1>8 DEF InForeign
  <2>2. md = m /\ json = Written(v)
    BY <2>1 DEF Wrapped
  <2>3. "execution_id" \notin DOMAIN m
    <3>1. CASE m = none
      BY <1>6, <3>1
    <3>2. CASE m = [k \in {"encoding"} |-> "binary/null"]
      BY <3>2
    <3> QED
      BY <3>1, <3>2 DEF ForeignMetadata, none
  <2> QED
    BY <1>2, <1>4, <1>8, <2>2, <2>3 DEF InForeign
<1> QED
  BY <1>3, <1>5, <1>7, <1>8 DEF LetterInv

\* Whatever the value, through any number of activities and redeliveries, on either kind
\* of worker and whatever room it has: the bytes say what the handlers have made of the
\* value, a worker answers in the context it was asked in, and an envelope of this
\* system's own runs names the run (workflow_loop.cpp:133-192, payload_codec.cpp:35-110,
\* worker_loop.cpp:99-130, worker_main.cpp:55-92).
THEOREM EnvelopesKeepTheirRuns == Spec => []EnvelopeKeepsItsRun
<1>1. Init => LetterInv
  BY FirstLetter
<1>2. LetterInv /\ [Next]_ConversionVars => LetterInv'
  BY LetterTravels
<1>3. LetterInv => EnvelopeKeepsItsRun
  BY LetterArrives
<1> QED
  BY <1>1, <1>2, <1>3, PTL DEF Spec

-----------------------------------------------------------------------------
(* The histories the service records.                                      *)

\* An event names an activity only if it is one of an activity's, and has payloads
\* only if it carries a value: never more than one.
WellRecorded(e) ==
  /\ e = Proto(e.event_type, e.name, e.ref, e.payloads)
  /\ IsList(e.payloads) /\ Len(e.payloads) <= 1
  /\ \/ e.event_type = "ACTIVITY_TASK_SCHEDULED"
     \/ e.event_type = "ACTIVITY_TASK_COMPLETED" /\ e.name = Nothing
     \/ /\ e.event_type \in Ends \cup {"ACTIVITY_TASK_STARTED"}
        /\ e.payloads = << >> /\ e.name = Nothing
     \/ e.event_type = "WORKFLOW_EXECUTION_SIGNALED" /\ e.ref = 0
     \/ e.event_type = "WORKFLOW_EXECUTION_STARTED" /\ e.ref = 0
     \/ /\ e.event_type \in ClosedTypes \cup {"WORKFLOW_TASK_STARTED", "WORKFLOW_TASK_COMPLETED"}
        /\ e.ref = 0 /\ e.payloads = << >> /\ e.name = Nothing

RecordedInv ==
  /\ IsList(recorded)
  /\ \A i \in 1..Len(recorded) : WellRecorded(recorded[i])

LEMMA ArgumentIs ==
  ASSUME NEW p \in Arguments
  PROVE  IsList(p) /\ Len(p) <= 1
<1>1. CASE p = << >>
  BY <1>1 DEF IsList
<1>2. ASSUME NEW v, p = <<v>> PROVE IsList(p) /\ Len(p) <= 1
  BY <1>2 DEF IsList
<1> QED
  BY <1>1, <1>2 DEF Arguments

LEMMA NoArgumentIs == IsList(<< >>) /\ Len(<< >>) = 0
  BY DEF IsList

LEMMA StepsRecordWell ==
  ASSUME DecodingNext
  PROVE  \E e : WellRecorded(e) /\ recorded' = Append(recorded, e)
<1>1. CASE Schedule
  <2> DEFINE ref == Cardinality(Of("ACTIVITY_TASK_SCHEDULED")) + 1
  <2>1. PICK name \in {"A", "B"}, p \in Arguments :
           Record(Proto("ACTIVITY_TASK_SCHEDULED", name, ref, p))
    BY <1>1 DEF Schedule
  <2> HIDE DEF ref
  <2>2. WellRecorded(Proto("ACTIVITY_TASK_SCHEDULED", name, ref, p))
    BY ArgumentIs DEF WellRecorded, Proto
  <2> QED
    BY <2>1, <2>2 DEF Record
<1>2. CASE Start
  <2>1. PICK i : Record(Proto("ACTIVITY_TASK_STARTED", Nothing, i, << >>))
    BY <1>2 DEF Start
  <2>2. WellRecorded(Proto("ACTIVITY_TASK_STARTED", Nothing, i, << >>))
    BY NoArgumentIs DEF WellRecorded, Proto
  <2> QED
    BY <2>1, <2>2 DEF Record
<1>3. CASE End
  <2>1. PICK i : \/ \E p \in Arguments : Record(Proto("ACTIVITY_TASK_COMPLETED", Nothing, i, p))
                 \/ \E t \in Ends \ {"ACTIVITY_TASK_COMPLETED"} :
                       Record(Proto(t, Nothing, i, << >>))
    BY <1>3 DEF End
  <2>2. ASSUME NEW p \in Arguments
        PROVE  WellRecorded(Proto("ACTIVITY_TASK_COMPLETED", Nothing, i, p))
    BY ArgumentIs DEF WellRecorded, Proto
  <2>3. ASSUME NEW t \in Ends PROVE WellRecorded(Proto(t, Nothing, i, << >>))
    BY NoArgumentIs DEF WellRecorded, Proto
  <2> QED
    BY <2>1, <2>2, <2>3 DEF Record
<1>4. CASE Signal
  <2>1. PICK p \in Arguments : Record(Proto("WORKFLOW_EXECUTION_SIGNALED", "approve", 0, p))
    BY <1>4 DEF Signal
  <2>2. WellRecorded(Proto("WORKFLOW_EXECUTION_SIGNALED", "approve", 0, p))
    BY ArgumentIs DEF WellRecorded, Proto
  <2> QED
    BY <2>1, <2>2 DEF Record
<1>5. CASE TaskEvent \/ Close
  <2>1. PICK t \in ClosedTypes \cup {"WORKFLOW_TASK_STARTED", "WORKFLOW_TASK_COMPLETED"} :
           Record(Proto(t, Nothing, 0, << >>))
    BY <1>5 DEF TaskEvent, Close
  <2>2. WellRecorded(Proto(t, Nothing, 0, << >>))
    BY NoArgumentIs DEF WellRecorded, Proto
  <2> QED
    BY <2>1, <2>2 DEF Record
<1> QED
  BY <1>1, <1>2, <1>3, <1>4, <1>5 DEF DecodingNext

LEMMA RecordsAreWell ==
  ASSUME RecordedInv, [Next]_ConversionVars
  PROVE  RecordedInv'
<1>1. CASE recorded' = recorded
  BY <1>1 DEF RecordedInv
<1>2. CASE DecodingNext
  <2>1. PICK e : WellRecorded(e) /\ recorded' = Append(recorded, e)
    BY <1>2, StepsRecordWell
  <2> DEFINE old == recorded
             new == recorded'
  <2>2. IsList(old) /\ \A i \in 1..Len(old) : WellRecorded(old[i])
    BY DEF RecordedInv
  <2>3. new = Append(old, e)
    BY <2>1
  <2> HIDE DEF old, new
  <2>4. /\ IsList(new) /\ Len(new) = Len(old) + 1
        /\ \A i \in 1..Len(old) : new[i] = old[i]
        /\ new[Len(old) + 1] = e
    BY <2>2, <2>3, ListAppend
  <2>5. \A i \in 1..Len(new) : WellRecorded(new[i])
    BY <2>1, <2>2, <2>4 DEF IsList
  <2> QED
    BY <2>4, <2>5 DEF RecordedInv, new
<1> QED
  BY <1>1, <1>2 DEF Next, ConversionVars

LEMMA FirstRecorded ==
  ASSUME Init
  PROVE  RecordedInv
<1>1. CASE topic = "history"
  <2>1. PICK p \in Arguments : recorded = <<Proto("WORKFLOW_EXECUTION_STARTED", "W", 0, p)>>
    BY <1>1 DEF Init, DecodingInit
  <2>2. WellRecorded(Proto("WORKFLOW_EXECUTION_STARTED", "W", 0, p))
    BY ArgumentIs DEF WellRecorded, Proto
  <2> DEFINE e == Proto("WORKFLOW_EXECUTION_STARTED", "W", 0, p)
  <2> HIDE DEF e
  <2>3. recorded = <<e>>
    BY <2>1 DEF e
  <2>4. IsList(recorded) /\ Len(recorded) = 1 /\ recorded[1] = e
    BY <2>3 DEF IsList
  <2> QED
    BY <2>2, <2>4 DEF RecordedInv, e
<1>2. CASE topic # "history"
  <2>1. recorded = << >>
    BY <1>2 DEF Init
  <2> QED
    BY <2>1, NoArgumentIs DEF RecordedInv
<1> QED
  BY <1>1, <1>2

\* What a response holds of the events, and when it holds them all.
LEMMA ResponseIs ==
  ASSUME RecordedInv, NEW size \in PageSizes
  PROVE  /\ IsList(Response(size).events)
         /\ Len(Response(size).events) <= Len(recorded)
         /\ \A i \in 1..Len(Response(size).events) : Response(size).events[i] = recorded[i]
         /\ ~ Response(size).next_page_token => Response(size).events = recorded
<1> DEFINE events == Response(size).events
           n == IF Len(recorded) > size THEN size ELSE Len(recorded)
<1>1. Len(recorded) \in Nat /\ size \in Nat /\ n \in Nat /\ n <= Len(recorded)
  BY DecodingAssumption DEF RecordedInv, IsList
<1>2. DOMAIN recorded = 1..Len(recorded)
  BY DEF RecordedInv, IsList
<1>3. events = [i \in (1..Len(recorded)) \cap (1..size) |-> recorded[i]]
  BY <1>2 DEF Response
<1>4. (1..Len(recorded)) \cap (1..size) = 1..n
  BY <1>1
<1> HIDE DEF events, n
<1>5. events = [i \in 1..n |-> recorded[i]]
  BY <1>3, <1>4
<1>6. events = [i \in 1..n |-> events[i]] /\ \A i \in 1..n : events[i] = recorded[i]
  BY <1>5
<1>7. IsList(events) /\ Len(events) = n
  BY <1>1, <1>6, FunctionIsList
<1>8. Response(size).next_page_token <=> Len(recorded) > size
  BY DEF Response
<1>9. ASSUME ~ Response(size).next_page_token PROVE events = recorded
  <2>1. n = Len(recorded)
    BY <1>8, <1>9 DEF n
  <2> QED
    BY <1>6, <1>7, <2>1, ListsEqual DEF RecordedInv
<1> QED
  BY <1>1, <1>6, <1>7, <1>9 DEF events

LEMMA DeviceTakes ==
  ASSUME RecordedInv, NEW size \in PageSizes, nanopbParse(Response(size)).ok
  PROVE  /\ Response(size).events = recorded
         /\ nanopbParse(Response(size)).events = [i \in 1..Len(recorded) |-> mapEvent(recorded[i])]
<1>1. ~ Response(size).next_page_token
  BY DEF nanopbParse, Refused
<1>2. Response(size).events = recorded
  BY <1>1, ResponseIs
<1>3. nanopbParse(Response(size)).events = [i \in DOMAIN recorded |-> mapEvent(recorded[i])]
  BY <1>1, <1>2 DEF nanopbParse, Refused, Parsed
<1>4. DOMAIN recorded = 1..Len(recorded)
  BY DEF RecordedInv, IsList
<1> QED
  BY <1>2, <1>3, <1>4

LEMMA DeviceTakesAll ==
  ASSUME RecordedInv
  PROVE  WholeHistoryOnly
<1> SUFFICES ASSUME NEW size \in PageSizes, nanopbParse(Response(size)).ok
             PROVE  Len(nanopbParse(Response(size)).events) = Len(recorded)
  BY DEF WholeHistoryOnly
<1> DEFINE n == Len(recorded)
           events == nanopbParse(Response(size)).events
<1>1. n \in Nat /\ events = [i \in 1..n |-> mapEvent(recorded[i])]
  BY DeviceTakes DEF RecordedInv, IsList
<1> HIDE DEF n, events
<1>2. events = [i \in 1..n |-> events[i]]
  BY <1>1
<1>3. Len(events) = n
  BY <1>1, <1>2, FunctionIsList
<1> QED
  BY <1>3 DEF n, events

LEMMA SpecRecords == Spec => []RecordedInv
<1>1. Init => RecordedInv
  BY FirstRecorded
<1>2. RecordedInv /\ [Next]_ConversionVars => RecordedInv'
  BY RecordsAreWell
<1> QED
  BY <1>1, <1>2, PTL DEF Spec

\* However many events a run has and however the service cuts them into pages: the
\* device decides on all of them or on none (nanopb_workflow_adapter.cpp).
THEOREM WholeHistoriesOnly == Spec => []WholeHistoryOnly
<1>1. RecordedInv => WholeHistoryOnly
  BY DeviceTakesAll
<1> QED
  BY <1>1, SpecRecords, PTL

-----------------------------------------------------------------------------
(* The readers see the same events.                                        *)

LEMMA EventsAgree ==
  ASSUME NEW e, WellRecorded(e)
  PROVE  mapEvent(e) = hostEvent(e)
<1> DEFINE value == appendPayloads(e.payloads)
<1>1. e.payloads = << >> => value = Nothing
  BY DEF appendPayloads
<1>2. /\ DOMAIN DeviceTypes = {"WORKFLOW_EXECUTION_STARTED", "ACTIVITY_TASK_SCHEDULED",
                               "ACTIVITY_TASK_COMPLETED", "ACTIVITY_TASK_FAILED",
                               "WORKFLOW_EXECUTION_COMPLETED", "WORKFLOW_EXECUTION_FAILED",
                               "WORKFLOW_EXECUTION_SIGNALED"}
      /\ \A t \in DOMAIN DeviceTypes : DeviceTypes[t] = mapEventType(t)
  BY DEF DeviceTypes, mapEventType
<1> HIDE DEF value
<1>3. CASE e.event_type \notin DOMAIN DeviceTypes
  <2>1. mapEventType(e.event_type) = "Unknown"
    BY <1>2, <1>3 DEF mapEventType
  <2> QED
    BY <1>3, <2>1 DEF mapEvent, hostEvent
<1>4. ASSUME e.event_type \in DOMAIN DeviceTypes
      PROVE  mapEvent(e) =
               Event(mapEventType(e.event_type),
                     IF e.event_type \in {"ACTIVITY_TASK_SCHEDULED", "WORKFLOW_EXECUTION_SIGNALED"}
                     THEN e.name ELSE Nothing,
                     value, e.ref)
  BY <1>2, <1>4 DEF mapEvent, Event, value
<1>5. CASE e.event_type = "ACTIVITY_TASK_SCHEDULED"
  BY <1>2, <1>4, <1>5 DEF hostEvent, mapEventType, value
<1>6. CASE e.event_type = "ACTIVITY_TASK_COMPLETED"
  BY <1>2, <1>4, <1>6 DEF hostEvent, mapEventType, value, ActivityEndEvent
<1>7. CASE e.event_type = "ACTIVITY_TASK_FAILED"
  <2>1. e.payloads = << >>
    BY <1>7 DEF WellRecorded, ClosedTypes
  <2> QED
    BY <1>1, <1>2, <1>4, <1>7, <2>1 DEF hostEvent, mapEventType, ActivityEndEvent
<1>8. CASE e.event_type = "WORKFLOW_EXECUTION_SIGNALED"
  <2>1. e.ref = 0
    BY <1>8 DEF WellRecorded, Ends
  <2> QED
    BY <1>2, <1>4, <1>8, <2>1 DEF hostEvent, mapEventType, value, SignaledEvent
<1>9. CASE e.event_type = "WORKFLOW_EXECUTION_STARTED"
  <2>1. e.ref = 0
    BY <1>9 DEF WellRecorded, Ends
  <2> QED
    BY <1>2, <1>4, <1>9, <2>1 DEF hostEvent, mapEventType, value, StartedEvent
<1>10. CASE e.event_type \in {"WORKFLOW_EXECUTION_COMPLETED", "WORKFLOW_EXECUTION_FAILED"}
  <2>1. e.ref = 0 /\ e.payloads = << >>
    BY <1>10 DEF WellRecorded, Ends
  <2> QED
    BY <1>1, <1>2, <1>4, <1>10, <2>1 DEF hostEvent, mapEventType, value, Bare, Event
<1> QED
  BY <1>2, <1>3, <1>5, <1>6, <1>7, <1>8, <1>9, <1>10

LEMMA ExportAgrees ==
  ASSUME NEW e, WellRecorded(e), e.payloads # <<Null>>
  PROVE  jsonEvent(e) = hostEvent(e)
<1> DEFINE t == mapEventType(e.event_type)
           value == appendPayloads(e.payloads)
           new == IF t \in {"ActivityFailed", "WorkflowFailed"} THEN Nothing
                  ELSE extractPayloads(e.payloads)
<1>1. extractPayloads(e.payloads) = value
  <2>1. CASE e.payloads = << >>
    BY <2>1 DEF extractPayloads, appendPayloads
  <2>2. CASE e.payloads # << >>
    <3> DEFINE p == e.payloads
    <3>1. IsList(p) /\ Len(p) <= 1
      BY DEF WellRecorded
    <3>2. Len(p) = 1
      <4>1. Len(p) \in Nat
        BY <3>1 DEF IsList
      <4>2. Len(p) = 0 => p = << >>
        BY <3>1, NoArgumentIs, ListsEqual
      <4> QED
        BY <2>2, <3>1, <4>1, <4>2
    <3>3. p[1] # Null
      <4> DEFINE one == <<Null>>
      <4>1. IsList(one) /\ Len(one) = 1 /\ one[1] = Null
        BY DEF IsList
      <4> HIDE DEF one
      <4>2. p[1] = Null => p = one
        BY <3>1, <3>2, <4>1, ListsEqual
      <4> QED
        BY <4>2 DEF one
    <3>4. Head(p) = p[1]
      BY <3>1, <3>2 DEF IsList
    <3> QED
      BY <2>2, <3>3, <3>4 DEF extractPayloads, appendPayloads
  <2> QED
    BY <2>1, <2>2
<1>2. CASE t = "Unknown"
  BY <1>2 DEF jsonEvent, hostEvent
<1>3. ASSUME t # "Unknown" PROVE jsonEvent(e) = [hostEvent(e) EXCEPT !.value = new]
  BY <1>3 DEF jsonEvent
<1>4. ASSUME NEW kind, NEW name, NEW v, NEW ref, hostEvent(e) = Event(kind, name, v, ref), new = v
      PROVE  [hostEvent(e) EXCEPT !.value = new] = hostEvent(e)
  BY <1>4 DEF Event
<1> HIDE DEF value, new, t
<1>7. CASE t \in {"Started", "ActivityScheduled", "ActivityCompleted", "Signaled", "WorkflowCompleted"}
  <2>1. new = value
    BY <1>1, <1>7 DEF new
  <2>2. \E kind, name, ref : hostEvent(e) = Event(kind, name, value, ref)
    BY <1>7 DEF hostEvent, t, value, StartedEvent, ActivityEndEvent, SignaledEvent
  <2> QED
    BY <1>3, <1>4, <1>7, <2>1, <2>2
<1>8. CASE t \in {"ActivityFailed", "WorkflowFailed"}
  <2>1. new = Nothing
    BY <1>8 DEF new
  <2>2. \E kind, name, ref : hostEvent(e) = Event(kind, name, Nothing, ref)
    BY <1>8 DEF hostEvent, t, ActivityEndEvent, Bare
  <2> QED
    BY <1>3, <1>4, <1>8, <2>1, <2>2
<1>9. t \in {"Started", "ActivityScheduled", "ActivityCompleted", "Signaled", "WorkflowCompleted",
            "ActivityFailed", "WorkflowFailed", "Unknown"}
  BY DEF t, mapEventType
<1> QED
  BY <1>2, <1>7, <1>8, <1>9

-----------------------------------------------------------------------------
(* The writers say the same of every command the engine decides.           *)

Sendable(c) == hostCommand(c) = nanopbCommand(c)

LEMMA CommandsAreSendable ==
  /\ \A seq, name, value : Sendable(ScheduleActivity(seq, name, value))
  /\ \A value : Sendable(CompleteWorkflow(value))
  /\ Sendable(FailWorkflow)
<1>1. ASSUME NEW seq, NEW name, NEW value PROVE Sendable(ScheduleActivity(seq, name, value))
  BY DEF Sendable, hostCommand, nanopbCommand, ScheduleActivity, Command
<1>2. ASSUME NEW value PROVE Sendable(CompleteWorkflow(value))
  BY DEF Sendable, hostCommand, nanopbCommand, CompleteWorkflow, Command
<1>3. Sendable(FailWorkflow)
  BY DEF Sendable, hostCommand, nanopbCommand, FailWorkflow, Command
<1> QED
  BY <1>1, <1>2, <1>3

\* A context holds one command at most, none while it goes on, and any can be sent.
Sends(c) ==
  /\ IsList(c.commands) /\ Len(c.commands) <= 1
  /\ \A i \in 1..Len(c.commands) : Sendable(c.commands[i])
  /\ c.outcome = "Continue" => c.commands = << >>

LEMMA SendsOne ==
  ASSUME NEW c, c.commands = << >>, NEW d, d.outcome = "Stop", NEW cmd, Sendable(cmd),
         d.commands = Append(c.commands, cmd)
  PROVE  Sends(d)
<1> DEFINE none == << >>
           one == Append(none, cmd)
<1>1. IsList(one) /\ Len(one) = 1 /\ one[1] = cmd
  BY OneCommand
<1>2. d.commands = one
  OBVIOUS
<1> HIDE DEF one
<1> QED
  BY <1>1, <1>2 DEF Sends

LEMMA SendsNone ==
  ASSUME NEW d, d.commands = << >>
  PROVE  Sends(d)
<1> DEFINE none == << >>
<1>1. IsList(none) /\ Len(none) = 0
  BY NoArgumentIs
<1> QED
  BY <1>1 DEF Sends

LEMMA OpenStepSends ==
  ASSUME NEW step, NEW run, NEW c, c.commands = << >>, NEW d, StepMakes(step, run, c, d)
  PROVE  Sends(d)
<1>1. ASSUME d.outcome = "Stop", NEW cmd, Sendable(cmd), d.commands = Append(c.commands, cmd)
      PROVE  Sends(d)
  BY <1>1, SendsOne
<1>2. CASE Fails(step, run, c, d)
  BY <1>1, <1>2, CommandsAreSendable DEF Fails
<1>3. CASE Schedules(step, run, c, d)
  BY <1>1, <1>3, CommandsAreSendable DEF Schedules
<1>4. CASE Completes(step, c, d)
  BY <1>1, <1>4, CommandsAreSendable DEF Completes
<1>5. CASE \/ Passes(step, c, d) \/ Takes(step, run, c, d) \/ Awaits(step, run, c, d)
           \/ TakesSignal(step, run, c, d) \/ Waits(step, run, c, d) \/ Branches(step, c, d)
           \/ Errs(step, run, c, d)
  <2>1. d.commands = c.commands
    BY <1>5 DEF Passes, Takes, Awaits, TakesSignal, Waits, Branches, Errs, SameBut, CtxFields
  <2> QED
    BY <2>1, SendsNone
<1> QED
  BY <1>2, <1>3, <1>4, <1>5 DEF StepMakes

\* What a walk reads of a history that has closed.
IsClosedRun(run) ==
  /\ run.finished
  /\ Len(run.records) \in Nat
  /\ \A k \in 1..Len(run.records) : run.records[k].status \in Statuses

\* d is a context with the commands of c.
Quiet(c, d) == IsCtx(d) /\ d.commands = c.commands

LEMMA QuietMoves ==
  ASSUME NEW c, NEW d, Quiet(c, d)
  PROVE  /\ Quiet(c, Stop(d))
         /\ Quiet(c, Error(d))
         /\ \A i : Quiet(c, Advance(d, i))
<1>1. "commands" \in CtxFields \ {"at"} /\ "commands" \in CtxFields \ {"outcome"}
  BY DEF CtxFields
<1>2. IsCtx(d)
  BY DEF Quiet
<1>3. Quiet(c, Stop(d))
  <2>1. IsCtx(Stop(d)) /\ Stop(d).commands = d.commands
    BY <1>1, <1>2, StopCtx
  <2> QED
    BY <2>1 DEF Quiet
<1>4. Quiet(c, Error(d))
  <2>1. IsCtx(Error(d)) /\ Error(d).commands = d.commands
    BY <1>1, <1>2, ErrorCtx
  <2> QED
    BY <2>1 DEF Quiet
<1>5. ASSUME NEW i PROVE Quiet(c, Advance(d, i))
  <2>1. IsCtx(Advance(d, i)) /\ Advance(d, i).commands = d.commands
    BY <1>1, <1>2, AdvanceCtx
  <2> QED
    BY <2>1 DEF Quiet
<1> QED
  BY <1>3, <1>4, <1>5

LEMMA QuietBinds ==
  ASSUME NEW c, NEW d, Quiet(c, d), NEW key, NEW val
  PROVE  Quiet(c, BindResult(d, key, val))
<1>1. IsCtx(d) /\ d.commands = c.commands /\ "commands" \in CtxFields \ {"results"}
  BY DEF CtxFields, Quiet
<1>2. IsCtx(BindResult(d, key, val)) /\ BindResult(d, key, val).commands = d.commands
  BY <1>1, BindCtx
<1> QED
  BY <1>1, <1>2 DEF Quiet

LEMMA QuietAwaits ==
  ASSUME NEW c, NEW d, Quiet(c, d), NEW rec
  PROVE  Quiet(c, AwaitRecord(d, rec))
<1>1. IsCtx(d) /\ d.commands = c.commands /\ "commands" \in CtxFields \ {"outcome", "pending"}
  BY DEF CtxFields, Quiet
<1>2. IsCtx(AwaitRecord(d, rec))
  BY <1>1, AwaitCtx
<1>3. AwaitRecord(d, rec).commands = d.commands
  BY <1>1 DEF AwaitRecord, Stop, IsCtx, CtxFields
<1> QED
  BY <1>1, <1>2, <1>3 DEF Quiet

LEMMA QuietClaims ==
  ASSUME NEW c, IsCtx(c)
  PROVE  /\ Quiet(c, c)
         /\ \A rec : Quiet(c, ClaimRecord(c, rec))
         /\ \A name, idx : Quiet(c, ClaimSignal(c, name, idx))
         /\ \A name : Quiet(c, WaitFor(c, name))
<1>1. /\ "commands" \in CtxFields \ {"cursor", "nextSeq"}
      /\ "commands" \in CtxFields \ {"claim", "consumed"}
      /\ "commands" \in CtxFields \ {"waiting"}
  BY DEF CtxFields
<1>2. ASSUME NEW rec PROVE Quiet(c, ClaimRecord(c, rec))
  BY <1>1, ClaimRecordCtx DEF Quiet
<1>3. ASSUME NEW name, NEW idx PROVE Quiet(c, ClaimSignal(c, name, idx))
  BY <1>1, ClaimSignalCtx DEF Quiet
<1>4. ASSUME NEW name PROVE Quiet(c, WaitFor(c, name))
  BY <1>1, WaitForCtx DEF Quiet
<1>5. Quiet(c, c)
  BY DEF Quiet
<1> QED
  BY <1>2, <1>3, <1>4, <1>5

LEMMA ClosedEmits ==
  ASSUME NEW c, NEW run, run.finished, NEW cmd
  PROVE  Emit(c, run, cmd) = c
  BY DEF Emit

\* Of a closed history a record emits nothing, whatever has come of its activity.
LEMMA ClosedRecord ==
  ASSUME NEW step, NEW run, run.finished, NEW c, IsCtx(c), NEW rec, rec.status \in Statuses
  PROVE  Quiet(c, WalkScheduled(step, run, c, rec))
<1>1. PICK claimed : claimed = ClaimRecord(c, rec)
  OBVIOUS
<1>2. Quiet(c, claimed) /\ Quiet(c, Error(c))
  BY <1>1, QuietClaims, QuietMoves
<1>3. CASE rec.name # step.name
  <2>1. WalkScheduled(step, run, c, rec) = Error(c)
    BY <1>3 DEF WalkScheduled
  <2> QED
    BY <1>2, <2>1
<1>4. CASE rec.name = step.name /\ rec.status = "ActivityCompleted"
  <2>1. PICK bound : bound = BindResult(claimed, step.id, rec.value)
    OBVIOUS
  <2>2. WalkScheduled(step, run, c, rec) =
          IF rec.value = BadJson THEN Error(c) ELSE Advance(bound, step.next)
    BY <1>1, <1>4, <2>1 DEF WalkScheduled
  <2>3. Quiet(c, Advance(bound, step.next))
    BY <1>2, <2>1, QuietBinds, QuietMoves
  <2> QED
    BY <1>2, <2>2, <2>3
<1>5. CASE rec.name = step.name /\ rec.status = "ActivityFailed"
  <2>1. WalkScheduled(step, run, c, rec) = Stop(Emit(claimed, run, FailWorkflow))
    BY <1>1, <1>5 DEF WalkScheduled
  <2>2. Emit(claimed, run, FailWorkflow) = claimed
    BY ClosedEmits
  <2> QED
    BY <1>2, <2>1, <2>2, QuietMoves
<1>6. CASE rec.name = step.name /\ rec.status = "InFlight"
  <2>1. WalkScheduled(step, run, c, rec) = AwaitRecord(claimed, rec)
    BY <1>1, <1>6 DEF WalkScheduled
  <2> QED
    BY <1>2, <2>1, QuietAwaits
<1> QED
  BY <1>3, <1>4, <1>5, <1>6 DEF Statuses, ActivityEnds

LEMMA ClosedActivity ==
  ASSUME NEW step, NEW run, IsClosedRun(run), NEW c, IsCtx(c)
  PROVE  Quiet(c, WalkActivity(step, run, c))
<1>1. c.cursor \in Nat /\ Len(run.records) \in Nat /\ run.finished
  BY DEF IsCtx, IsClosedRun
<1>2. Quiet(c, Advance(c, step.next)) /\ Quiet(c, Stop(c))
  BY QuietClaims, QuietMoves
<1>3. CASE step.id \in DOMAIN c.results
  <2>1. WalkActivity(step, run, c) = Advance(c, step.next)
    BY <1>3 DEF WalkActivity
  <2> QED
    BY <1>2, <2>1
<1>4. CASE step.id \notin DOMAIN c.results /\ c.cursor >= Len(run.records)
  <2>1. WalkActivity(step, run, c) = Stop(c)
    BY <1>1, <1>4 DEF WalkActivity
  <2> QED
    BY <1>2, <2>1
<1>5. CASE step.id \notin DOMAIN c.results /\ c.cursor < Len(run.records)
  <2>1. PICK rec : rec = run.records[c.cursor + 1]
    OBVIOUS
  <2>2. WalkActivity(step, run, c) = WalkScheduled(step, run, c, rec)
    BY <1>1, <1>5, <2>1 DEF WalkActivity
  <2>3. c.cursor + 1 \in 1..Len(run.records)
    BY <1>1, <1>5
  <2>4. rec.status \in Statuses
    BY <2>1, <2>3 DEF IsClosedRun
  <2> QED
    BY <1>1, <2>2, <2>4, ClosedRecord
<1> QED
  BY <1>1, <1>3, <1>4, <1>5

LEMMA ClosedWait ==
  ASSUME NEW step, NEW run, IsClosedRun(run), NEW c, IsCtx(c)
  PROVE  Quiet(c, WalkWaitSignal(step, run, c))
<1> DEFINE idx == Count(run.base, step.name) + Count(c.claim, step.name)
           signals == SignalsNamed(run.history, step.name)
           payload == Payload(run.history[signals[idx + 1]].value)
<1>1. PICK bound : bound = BindResult(ClaimSignal(c, step.name, idx), step.id, payload)
  OBVIOUS
<1>2. PICK both : both = BindResult(bound, step.bindTo, payload)
  OBVIOUS
<1>3. WalkWaitSignal(step, run, c) \in
        {Advance(c, step.next), Stop(c), Error(c), Advance(bound, step.next),
         Advance(both, step.next)}
  BY <1>1, <1>2 DEF WalkWaitSignal, IsClosedRun
<1> HIDE DEF idx, payload
<1>4. Quiet(c, bound)
  BY <1>1, QuietClaims, QuietBinds
<1>5. Quiet(c, both)
  BY <1>2, <1>4, QuietBinds
<1>6. Quiet(c, Advance(bound, step.next)) /\ Quiet(c, Advance(both, step.next))
  BY <1>4, <1>5, QuietMoves
<1>7. Quiet(c, Advance(c, step.next)) /\ Quiet(c, Stop(c)) /\ Quiet(c, Error(c))
  BY QuietClaims, QuietMoves
<1> QED
  BY <1>3, <1>6, <1>7

LEMMA ClosedStep ==
  ASSUME NEW step, NEW run, IsClosedRun(run), NEW c, IsCtx(c)
  PROVE  Quiet(c, WalkStep(step, run, c))
<1>1. Quiet(c, Stop(c)) /\ Quiet(c, Error(c)) /\ \A i : Quiet(c, Advance(c, i))
  BY QuietClaims, QuietMoves
<1>2. CASE step.kind = "activity"
  BY <1>2, ClosedActivity DEF WalkStep
<1>3. CASE step.kind = "wait_signal"
  BY <1>3, ClosedWait DEF WalkStep
<1>4. CASE step.kind = "conditional"
  <2>1. WalkStep(step, run, c) = WalkConditional(step, c)
    BY <1>4 DEF WalkStep
  <2> QED
    BY <1>1, <2>1 DEF WalkConditional
<1>5. CASE step.kind = "complete"
  <2>1. WalkStep(step, run, c) = Stop(c)
    BY <1>5 DEF WalkStep, WalkComplete, IsClosedRun
  <2> QED
    BY <1>1, <2>1
<1>6. CASE step.kind \notin {"activity", "wait_signal", "conditional", "complete"}
  BY <1>1, <1>6 DEF WalkStep
<1> QED
  BY <1>2, <1>3, <1>4, <1>5, <1>6

\* Each step leaves the walk with what can be sent.
LEMMA WalkSends ==
  ASSUME NEW spec, Len(spec) \in Nat, NEW run, IsOpenRun(run) \/ IsClosedRun(run),
         NEW ctx0, IsCtx(ctx0), ctx0.commands = << >>, NEW w, IsWalk(w, spec, run, ctx0)
  PROVE  Sends(w[Len(spec)])
<1> DEFINE Good == {i \in 0..Len(spec) : IsCtx(w[i]) /\ Sends(w[i])}
<1>1. 0 \in Good
  BY SendsNone DEF IsWalk
<1>2. ASSUME NEW i \in 0..(Len(spec) - 1), i \in Good PROVE i + 1 \in Good
  <2>1. /\ i + 1 \in 1..Len(spec) /\ i + 1 \in 0..Len(spec) /\ (i + 1) - 1 = i
        /\ IsCtx(w[i]) /\ Sends(w[i])
    BY <1>2
  <2>2. w[i + 1] = Visit(spec, run, w[i], i + 1)
    BY <2>1 DEF IsWalk
  <2>3. CASE ~ (w[i].at = i + 1 /\ w[i].outcome = "Continue")
    <3>1. w[i + 1] = w[i]
      BY <2>2, <2>3 DEF Visit
    <3> QED
      BY <2>1, <3>1
  <2>4. CASE w[i].at = i + 1 /\ w[i].outcome = "Continue"
    <3>1. w[i + 1] = WalkStep(spec[i + 1], run, w[i])
      BY <2>2, <2>4 DEF Visit
    <3>2. w[i].commands = << >>
      BY <2>1, <2>4 DEF Sends
    <3>3. CASE IsOpenRun(run)
      <4>1. StepMakes(spec[i + 1], run, w[i], w[i + 1])
        BY <2>1, <3>1, <3>3, StepIs
      <4>2. IsCtx(w[i + 1])
        BY <4>1 DEF StepMakes
      <4>3. Sends(w[i + 1])
        BY <3>2, <4>1, OpenStepSends
      <4> QED
        BY <2>1, <4>2, <4>3
    <3>4. CASE IsClosedRun(run)
      <4>1. Quiet(w[i], w[i + 1])
        BY <2>1, <3>1, <3>4, ClosedStep
      <4>2. IsCtx(w[i + 1]) /\ w[i + 1].commands = << >>
        BY <3>2, <4>1 DEF Quiet
      <4>3. Sends(w[i + 1])
        BY <4>2, SendsNone
      <4> QED
        BY <2>1, <4>2, <4>3
    <3> QED
      BY <3>3, <3>4
  <2> QED
    BY <2>3, <2>4
<1> HIDE DEF Good
<1>3. \A i \in 0..Len(spec) : i \in Good
  BY <1>1, <1>2, UpwardInduction
<1>4. Len(spec) \in Good
  BY <1>3
<1> QED
  BY <1>4 DEF Good

\* A replay reads an open history or a closed one.
LEMMA ReplayReads ==
  ASSUME NEW spec, NEW history, Len(history) \in Nat
  PROVE  LET run == RunFrom(history, FreshState(spec)) IN IsOpenRun(run) \/ IsClosedRun(run)
<1> DEFINE none == << >>
<1>1. PICK st : st = FreshState(spec)
  OBVIOUS
<1>2. st.watermark = 0 /\ st.nextSeq = 1 /\ st.consumed = none
  BY <1>1 DEF FreshState, EmptyMap
<1>3. \A key : key \in DOMAIN none <=> FALSE
  OBVIOUS
<1> HIDE DEF none
<1>4. IsPrior(st)
  BY <1>2, <1>3 DEF IsPrior
<1>5. CASE HistoryFinished(history, st)
  <2>1. IsList(ActRecords(history, st))
    BY <1>2, ActRecordsAre
  <2>2. \A k \in 1..Len(ActRecords(history, st)) : ActRecords(history, st)[k].status \in Statuses
    BY <1>2, RecordsHaveStatus
  <2>3. IsClosedRun(RunFrom(history, st))
    BY <1>5, <2>1, <2>2 DEF IsClosedRun, RunFrom, IsList
  <2> QED
    BY <1>1, <2>3
<1>6. CASE ~ HistoryFinished(history, st)
  <2>1. NeverClosed(history)
    BY <1>2, <1>6 DEF NeverClosed, HistoryFinished, InSuffix, Suffix
  <2> QED
    BY <1>1, <1>4, <2>1, RunIsOpen
<1> QED
  BY <1>5, <1>6

LEMMA ReplaySends ==
  ASSUME NEW spec, Len(spec) \in Nat, NEW history, Len(history) \in Nat,
         Replay(spec, history).ok
  PROVE  LET commands == Replay(spec, history).commands
         IN  /\ IsList(commands) /\ Len(commands) <= 1
             /\ \A i \in 1..Len(commands) : Sendable(commands[i])
<1>1. PICK st : st = FreshState(spec)
  OBVIOUS
<1>2. st.nextSeq = 1
  BY <1>1 DEF FreshState
<1>3. PICK w : /\ IsWalkFrom(w, spec, history, st)
               /\ DecideFrom(spec, history, st) =
                    IF Refuses(history, st, w[Len(spec)]) THEN Failure
                    ELSE AnswerOf(spec, history, st, w[Len(spec)])
  BY DecideWalks
<1>4. PICK run : run = RunFrom(history, st)
  OBVIOUS
<1>5. PICK ctx0 : ctx0 = StartFrom(history, st)
  OBVIOUS
<1>6. IsCtx(ctx0)
  BY <1>2, <1>5, StartIsCtx
<1>7. ctx0.commands = << >>
  BY <1>5 DEF StartFrom
<1>8. IsOpenRun(run) \/ IsClosedRun(run)
  BY <1>1, <1>4, ReplayReads
<1>9. IsWalk(w, spec, run, ctx0)
  BY <1>3, <1>4, <1>5 DEF IsWalkFrom
<1>10. Sends(w[Len(spec)])
  BY <1>6, <1>7, <1>8, <1>9, WalkSends
<1>11. Replay(spec, history) = DecideFrom(spec, history, st)
  BY <1>1 DEF Replay
<1>12. Replay(spec, history).commands = w[Len(spec)].commands
  BY <1>3, <1>11 DEF Failure, AnswerOf
<1> QED
  BY <1>10, <1>12 DEF Sends

LEMMA AnswersAgree ==
  ASSUME NEW commands, IsList(commands), Len(commands) <= 1,
         \A i \in 1..Len(commands) : Sendable(commands[i])
  PROVE  hostAnswer(commands) = nanopbAnswer(commands)
<1>1. DeviceCommands \in Nat \ {0}
  BY DecodingAssumption
<1>2. ~ (Len(commands) > DeviceCommands)
  BY <1>1 DEF IsList
<1>3. DOMAIN commands = 1..Len(commands)
  BY DEF IsList
<1>4. [i \in DOMAIN commands |-> hostCommand(commands[i])] =
        [i \in DOMAIN commands |-> nanopbCommand(commands[i])]
  BY <1>3 DEF Sendable
<1> QED
  BY <1>2, <1>4 DEF hostAnswer, nanopbAnswer

-----------------------------------------------------------------------------
(* The twins.                                                              *)

LEMMA TwinsReadAlike ==
  ASSUME RecordedInv, NEW size \in PageSizes, nanopbParse(Response(size)).ok
  PROVE  hostParse(Response(size)).events = nanopbParse(Response(size)).events
<1>1. /\ Response(size).events = recorded
      /\ nanopbParse(Response(size)).events = [i \in 1..Len(recorded) |-> mapEvent(recorded[i])]
  BY DeviceTakes
<1>2. DOMAIN recorded = 1..Len(recorded)
  BY DEF RecordedInv, IsList
<1>3. hostParse(Response(size)).events = [i \in 1..Len(recorded) |-> hostEvent(recorded[i])]
  BY <1>1, <1>2 DEF hostParse, Parsed
<1>4. \A i \in 1..Len(recorded) : mapEvent(recorded[i]) = hostEvent(recorded[i])
  BY EventsAgree DEF RecordedInv
<1> QED
  BY <1>1, <1>3, <1>4

LEMMA ExportReadsAlike ==
  ASSUME RecordedInv, NEW size \in PageSizes, nanopbParse(Response(size)).ok,
         \A i \in DOMAIN recorded : recorded[i].payloads # <<Null>>
  PROVE  loadHistoryJson(recorded).events = hostParse(Response(size)).events
<1>1. Response(size).events = recorded
  BY DeviceTakes
<1>2. DOMAIN recorded = 1..Len(recorded)
  BY DEF RecordedInv, IsList
<1>3. hostParse(Response(size)).events = [i \in DOMAIN recorded |-> hostEvent(recorded[i])]
  BY <1>1 DEF hostParse, Parsed
<1>4. loadHistoryJson(recorded).events = [i \in DOMAIN recorded |-> jsonEvent(recorded[i])]
  BY DEF loadHistoryJson, Parsed
<1>5. \A i \in DOMAIN recorded : jsonEvent(recorded[i]) = hostEvent(recorded[i])
  BY <1>2, ExportAgrees DEF RecordedInv
<1> QED
  BY <1>3, <1>4, <1>5

LEMMA TwinsDecideAlike ==
  ASSUME RecordedInv
  PROVE  TwinsAnswerAlike
<1> SUFFICES ASSUME NEW size \in PageSizes, nanopbParse(Response(size)).ok, NEW spec \in Specs
             PROVE  LET h == Decided(spec, hostParse(Response(size)))
                        d == Decided(spec, nanopbParse(Response(size)))
                    IN  /\ h.ok = d.ok
                        /\ h.ok => hostAnswer(h.commands) = nanopbAnswer(d.commands)
                        /\ (\A i \in DOMAIN recorded : recorded[i].payloads # <<Null>>) =>
                             Decided(spec, loadHistoryJson(recorded)) = h
  BY DEF TwinsAnswerAlike
<1>1. PICK h : h = Decided(spec, hostParse(Response(size)))
  OBVIOUS
<1>2. h = Decided(spec, nanopbParse(Response(size)))
  BY <1>1, TwinsReadAlike DEF Decided
<1>3. PICK history : history = nanopbParse(Response(size)).events
  OBVIOUS
<1>4. Len(history) \in Nat
  <2>1. history = [i \in 1..Len(recorded) |-> mapEvent(recorded[i])]
    BY <1>3, DeviceTakes
  <2>2. Len(recorded) \in Nat
    BY DEF RecordedInv, IsList
  <2>3. history = [i \in 1..Len(recorded) |-> history[i]]
    BY <2>1
  <2> QED
    BY <2>2, <2>3, FunctionIsList
<1>5. Len(spec) \in Nat
  BY DecodingAssumption
<1>6. h = Replay(spec, history)
  BY <1>2, <1>3 DEF Decided
<1>7. h.ok => hostAnswer(h.commands) = nanopbAnswer(h.commands)
  BY <1>4, <1>5, <1>6, ReplaySends, AnswersAgree
<1>8. (\A i \in DOMAIN recorded : recorded[i].payloads # <<Null>>) =>
         Decided(spec, loadHistoryJson(recorded)) = h
  BY <1>1, ExportReadsAlike DEF Decided
<1> QED
  BY <1>1, <1>2, <1>7, <1>8

\* Whatever the spec and whatever the service has recorded, in any order and at any
\* length: the desktop adapter and the device's, when both take the poll response,
\* answer alike, and a replay of the export says the same of it.
THEOREM TwinsAgree == Spec => []TwinsAnswerAlike
<1>1. Spec => []RecordedInv
  BY SpecRecords
<1> QED
  BY <1>1, TwinsDecideAlike, PTL
=============================================================================
