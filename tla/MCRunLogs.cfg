\* Two builds of one run, a stream capped at two entries and one fault.
SPECIFICATION LogSpec
CONSTANTS
    Builds = {b1, b2}
    Runtimes = {"host", "docker"}
    MaxIds = 4
    MaxLen = 2
    Page = 1
    Count = 2
    MaxLogFaults = 1
INVARIANTS
    ArchiveLosesNothing
    ReadersSeeNoHole
SYMMETRY BuildSymmetry
CHECK_DEADLOCK FALSE
