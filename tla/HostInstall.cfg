SPECIFICATION InstallSpec
CONSTANTS
    Installs = {c1, c2}
    Packages = {"g", "g++"}
    Clean <- MCClean
    Alike <- MCAlike
    Managers = {"cargo"}
    Requests = {"any", "cargo", "winget", "emerge"}
    MaxOwn = 1
    MaxSeconds = 1
SYMMETRY Perms
INVARIANTS
    MentorRunDelivers
CHECK_DEADLOCK FALSE
