------------------------------- MODULE PongGame -------------------------------
(* What pong61 shows the server: a ball that goes one diagonal step at a   *)
(* time, each step answered or let go before the next one is begun, until  *)
(* the game ends.                                                          *)
EXTENDS Integers

CONSTANTS Width, Height

VARIABLES at,     \* the last position that was answered or let go
          over

Board == (0..Width-1) \X (0..Height-1)

GameInit == at = <<0, 0>> /\ over = FALSE

Step == /\ ~over
        /\ \E dx, dy \in {-1, 1} : at' = <<at[1] + dx, at[2] + dy>>
        /\ at' \in Board
        /\ UNCHANGED over

End == over' = TRUE /\ UNCHANGED at

GameSpec == GameInit /\ [][Step \/ End]_<<at, over>>
==============================================================================
