---------------------------- MODULE MCSimControl ----------------------------
(* Instances of SimControl: a few configurations of two or three processes. *)
EXTENDS SimControl

Zero == [p \in Procs |-> 0]
AllIn(mode) == [p \in Procs |-> mode]

Plain ==
    [procs |-> {0, 1}, mode |-> AllIn("Multiprocess"), startFF |-> {}, restarts |-> Zero,
     toggles |-> Zero, forks |-> {}, quits |-> {}, hooks |-> {}, ffi |-> {}, target |-> 3,
     beats |-> {}, maxDumps |-> 1, maxPhases |-> 3, stops |-> FALSE]

\* Process 1 is toggled twice while the master may end; hooks are ignored.
SyncedToggles ==
    [Plain EXCEPT !.toggles = [Zero EXCEPT ![1] = 2], !.quits = {0}, !.hooks = {0, 1},
                  !.stops = TRUE]

\* Fast-forwarding is not synced: the program may enter it before the toggle.
FreeToggles ==
    [SyncedToggles EXCEPT !.mode = AllIn("Never"), !.startFF = {0}, !.quits = {}, !.maxPhases = 2]

\* Process 1 starts in synced fast-forward, ends, and is restarted.
Restarts ==
    [Plain EXCEPT !.startFF = {1}, !.restarts = [Zero EXCEPT ![1] = 1], !.quits = {0, 1},
                  !.mode = AllIn("Always"), !.beats = {0, 1}, !.procs = {0, 1, 2}]

\* Two processes reach their heartbeats; the second dump ends the simulation.
Heartbeats ==
    [Plain EXCEPT !.procs = {0, 1, 2}, !.beats = {0, 1}, !.maxDumps = 2, !.startFF = {1},
                  !.hooks = {1}, !.mode = AllIn("Never")]

\* Process 1 alternates between fast-forward and simulation at FFI points.
Points(t) == [Plain EXCEPT !.ffi = {1}, !.target = t, !.maxPhases = 5]

\* A process that never pauses the others forks.
Forking ==
    [Plain EXCEPT !.procs = {0}, !.forks = {0}, !.quits = {0, 1}, !.startFF = {0},
                  !.hooks = {0, 1}, !.mode = AllIn("Always")]

\* The master is toggled and ends: it waits for the other in fast-forward.
MasterToggled == [Plain EXCEPT !.toggles = [Zero EXCEPT ![0] = 1], !.quits = {0, 1}]

MCConfigs ==
    {SyncedToggles, FreeToggles, Restarts, Heartbeats, Forking, MasterToggled}
    \cup {Points(t) : t \in 2 .. 5}

\* The program is toggled and ends before the phase does.
ToggledEnds == {[SyncedToggles EXCEPT !.quits = {1}, !.stops = FALSE]}

\* The default mode, with a child that the configuration does not name.
DefaultFork == {[Forking EXCEPT !.mode = AllIn("Multiprocess"), !.quits = {}]}

=============================================================================
