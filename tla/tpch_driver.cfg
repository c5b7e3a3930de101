\* Two commands of tpch.sh in a row, with up to three failures anywhere.
SPECIFICATION Spec
CONSTANTS
  Slots = {1, 2, 3}
  Faults = {"slow", "stop_fails", "boot_fails", "server_dies", "client_fails"}
  MaxFaults = 3
  NumQueries = 2
  Commands = {"prepare", "run-quick", "prepare-from-cache", "run-from-cache", "run"}
  MaxCommands = 2
CHECK_DEADLOCK FALSE
INVARIANTS TypeOK RowsAreReal PreparedIsServing
PROPERTIES DirNotPulledAway ScriptEnds
