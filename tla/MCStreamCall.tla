---------------------------- MODULE MCStreamCall ----------------------------
(* A stream of at most two or three attempts, each of at most a start and    *)
(* two output events.                                                        *)
EXTENDS StreamCall

MCRetryAfters == {1, 5}
MCTimes == {1}
MCNoOversleep == {0}
=============================================================================
