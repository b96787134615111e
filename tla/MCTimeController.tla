-------------------------- MODULE MCTimeController --------------------------
(* Short chains, one button at a time and the pairs whose order matters.   *)
EXTENDS TimeController

ShortStopwatch == <<2, 2, 2>>
ShortWatch     == <<2, 3, 2, 2, 2, 2>>

OneOrTwo == {{}, {"R"}, {"L"}, {"U"}, {"D"}, {"R", "L"}, {"U", "D"}}
=============================================================================
