---------------------------- MODULE MCDailyStreak ----------------------------
(* Two players, two processes.                                              *)
EXTENDS DailyStreak

\* A cycle of two rewards, shorter than the run of days a player can win.
MCRewards == <<1, 2>>

=============================================================================
