------------------------------- MODULE Timing -------------------------------
(***************************************************************************)
(* Frames and durations (mutations/timing.go).  Both are int64 in the      *)
(* code: integers modulo Word, with a sign, whose division truncates       *)
(* towards zero.                                                           *)
(***************************************************************************)
EXTENDS Integers

CONSTANTS
    Second,  \* time.Second, in the unit of a duration (10^9)
    Rate,    \* the sample rate
    Word     \* 2^64

ASSUME TimingAssumption ==
    /\ Second \in Nat \ {0}
    /\ Rate \in Nat \ {0}
    /\ Word \in Nat \ {0} /\ Word % 2 = 0

\* The int64 that a product or a sum comes out as.
Int64(x) == ((x + Word \div 2) % Word) - Word \div 2

\* Division as Go has it.
Quotient(x, y) == IF x >= 0 THEN x \div y ELSE -((-x) \div y)

FramesToDuration(frames) == Quotient(Int64(frames * Second), Rate)

\* To the nearest frame, away from zero in the middle.
DurationToFrames(d) ==
    LET half == Second \div 2
        ns == Int64(d * Rate)
    IN Quotient(Int64(IF d >= 0 THEN ns + half ELSE ns - half), Second)

=============================================================================
