----------------------------- MODULE MCRunLoop -----------------------------
(* Small clocks for RunLoop.                                               *)
EXTENDS RunLoop

ShortAndLong == {0, 2}

=============================================================================
