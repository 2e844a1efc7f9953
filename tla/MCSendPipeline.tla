------------------------------ MODULE MCSendPipeline ------------------------------
(* A bounded instance of SendPipeline: two calls, two candidates.                 *)
EXTENDS SendPipeline, TLC

CONSTANTS hello, bye, other

Symm == Permutations(Texts)

\* A click that shows nothing, one that changes a few pixels, and one that finds an
\* editable control and sees a caret blink.
MCSignals ==
    LET quiet == [visual |-> 0, brightness |-> 0, edges |-> 0, editable |-> 0, tests |-> 0]
    IN {quiet, [quiet EXCEPT !.visual = 1, !.brightness = -2],
        [quiet EXCEPT !.editable = 1, !.tests = 1]}

\* Under a hundredth, between the thresholds of 0.01 and 0.05, and over both.
MCDiffs == {5, 30, 200}
================================================================================
