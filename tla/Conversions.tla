----------------------------- MODULE Conversions -----------------------------
(***************************************************************************)
(* Histories, payloads and the clock in one run.  They share nothing: a    *)
(* behaviour is about one of them, its topic, and the others stand still.  *)
(***************************************************************************)
EXTENDS HistoryDecoding, PayloadCodec, DeviceClock

VARIABLE topic

ConversionVars == <<topic, recorded, letter, clockVars>>

\* Any one state of those that satisfy the initial predicates.
Init ==
  /\ topic \in {"history", "letter", "clock"}
  /\ IF topic = "history" THEN DecodingInit ELSE recorded = << >>
  /\ IF topic = "letter" THEN CodecInit
     ELSE letter = [Letter("other", NoContext, "quiet", JsonNull, NoInput)
                      EXCEPT !.stage = "none"]
  /\ IF topic = "clock" THEN ClockInit
     ELSE millis = 0 /\ lastBeat = 0 /\ silence = 0

Next ==
  /\ UNCHANGED topic
  /\ \/ topic = "history" /\ DecodingNext /\ UNCHANGED <<letter, clockVars>>
     \/ topic = "letter" /\ CodecNext /\ UNCHANGED <<recorded, clockVars>>
     \/ topic = "clock" /\ ClockNext /\ UNCHANGED <<recorded, letter>>

Spec == Init /\ [][Next]_ConversionVars

\* A run: device.echo, a wait, a branch on what was signalled, device.echo.
Asking == <<Activity("a", "A", From(Input), 2),
            WaitSignal("gate", "approve", Nothing, 3),
            Conditional("gate", "eq", 1, 4, 5, 6),
            Activity("b", "B", From("gate"), 6),
            Complete(From("a"), 6),
            Complete(From("gate"), 7)>>
Plain == <<Activity("a", "A", From(Input), 2), Activity("b", "B", From("a"), 3),
           Complete(From("b"), 4)>>
TwoSpecs == {Asking, Plain}

ShortTexts == UNION {[1..n -> Characters] : n \in 0..2}
=============================================================================
