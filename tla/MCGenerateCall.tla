--------------------------- MODULE MCGenerateCall ---------------------------
(* A call of at most three attempts: short backoffs, a deadline that some    *)
(* schedules meet, and provider windows within, at and beyond the cap.       *)
EXTENDS GenerateCall

MCRetryAfters == {0, 3, 5}
MCAttemptTimes == {0, 2}
MCOversleeps == {0, 1}
=============================================================================
