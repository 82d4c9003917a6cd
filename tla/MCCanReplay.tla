---------------------------- MODULE MCCanReplay -----------------------------
(***************************************************************************)
(* A file with a line before the window, an unreadable line, two frames of *)
(* channel 1 and one of another channel in it, and a line after it; and a  *)
(* file of one frame, which two replays can have.                          *)
(***************************************************************************)
EXTENDS CanReplay

Line(k, t) == [kind |-> k, ts |-> t]

MCFile == << Line("can1", 2), Line("bad", 0), Line("can1", 3),
             Line("other", 5), Line("can1", 6), Line("can1", 7) >>

MCFiles == { MCFile, << Line("can1", 3) >> }
=============================================================================
