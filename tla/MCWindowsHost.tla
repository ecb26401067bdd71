---------------------------- MODULE MCWindowsHost ----------------------------
EXTENDS WindowsHost

CONSTANTS user, service, other, cache, state

MCFiles == <<cache, state>>

Nothing == [start |-> 0, reload |-> 0, stop |-> 0, prepare |-> 0, foreign |-> 0,
            fault |-> 0, crash |-> 0, lost |-> 0, appCrash |-> 0]

(* There and back; with the app or a helper dying; with steps failing; with *)
(* answers lost; and with another account that wants the tunnel.            *)
MCScenarios ==
  {[Nothing EXCEPT !.start = 3, !.prepare = 3, !.crash = 2, !.appCrash = 1],
   [Nothing EXCEPT !.start = 4, !.reload = 1, !.prepare = 3, !.fault = 3],
   [Nothing EXCEPT !.start = 3, !.prepare = 2, !.lost = 2, !.stop = 1],
   [Nothing EXCEPT !.start = 3, !.prepare = 3, !.fault = 2, !.crash = 1, !.lost = 1],
   [Nothing EXCEPT !.start = 1, !.reload = 1, !.stop = 1, !.prepare = 1, !.foreign = 2,
                   !.fault = 1, !.crash = 1]}
=============================================================================
