---------------------------- MODULE BufferingOps ----------------------------
(***************************************************************************)
(* Class Buffering::Data (buffering.hh): why the pipeline is paused while  *)
(* its buffer is being filled.  The object is a record with the members    *)
(* state_ and level_.                                                      *)
(*                                                                         *)
(* A percentage is represented by the class set_buffer_level() puts it in: *)
(* "0", "LOW" (1 to 14), "MID" (15 to 99) and "100".                       *)
(***************************************************************************)

BufferingStates ==
    {"NOT_BUFFERING", "PAUSED_PENDING", "PAUSED_FOR_BUFFERING", "PAUSED_PIGGYBACK"}

Levels == {"FULL", "MEDIUM", "UNDERRUN"}

NotBuffering == [state |-> "NOT_BUFFERING", level |-> "FULL"]

IsBuffering(b) == b.state # "NOT_BUFFERING"

LevelOf(b, percent) ==
    CASE percent = "100" -> "FULL"
      [] percent = "0" \/ (percent = "LOW" /\ ~IsBuffering(b)) -> "UNDERRUN"
      [] OTHER -> "MEDIUM"

SetBufferLevel(b, percent) == [b EXCEPT !.level = LevelOf(b, percent)]

\* The LevelChange returned by set_buffer_level().
LevelChange(b, percent) ==
    LET new == LevelOf(b, percent)
    IN  CASE new = "FULL" /\ b.level # "FULL" -> "FULL_DETECTED"
          [] new = "UNDERRUN" /\ b.level # "UNDERRUN" -> "UNDERRUN_DETECTED"
          [] OTHER -> "NONE"

StartBuffering(b, startState) == [b EXCEPT !.state = startState]

EnteredPause(b) ==
    IF b.state = "PAUSED_PENDING" THEN [b EXCEPT !.state = "PAUSED_FOR_BUFFERING"] ELSE b

\* try_leave_buffering_state() returns BUFFER_FILLED.
BufferFilled(b) ==
    b.state \in {"PAUSED_FOR_BUFFERING", "PAUSED_PIGGYBACK"} /\ b.level = "FULL"

LeaveBuffering(b) == IF BufferFilled(b) THEN [b EXCEPT !.state = "NOT_BUFFERING"] ELSE b
=============================================================================
