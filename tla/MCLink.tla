------------------------------- MODULE MCLink -------------------------------
(***************************************************************************)
(* The link at a scale of a few bytes: frames of three to five bytes, and  *)
(* an oversized one, through buffers of three, so that reads cut headers   *)
(* and bodies; an acknowledgement channel of one; and, with the one that   *)
(* a fetch may lease beyond Concurrency, three jobs at once, enough to     *)
(* fill every buffer of the cycle.                                         *)
(***************************************************************************)
EXTENDS Link

\* Two errors past the limit, one of them of two-byte characters.
LongErrors == {[chars |-> 5, width |-> 1], [chars |-> 2, width |-> 2]}

\* Job 1 does not fit a frame, the name of job 2 is too long for its field, and
\* the prior steps of job 5 do not fit a frame.
Sizes == <<2, 0, 1, 1, 1>>
Prior == <<0, 0, 0, 1, 3>>
Names == <<1, 2, 1, 1, 1>>

=============================================================================
