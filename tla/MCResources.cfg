\* Two requests at a time, six in all: enough for a host of each org, a group,
\* and an addition of both hosts that overlaps an edit or a deletion; or for a
\* secret, a host, and a delete that overlaps an edit.  One replica of the api
\* that is started three times, its releases going forward.  Two requests for
\* one project, two retries of a registration, two faults.
CONSTANTS
    Callers = {"c1", "c2"}
    Secrets = {"s1"}
    Hosts = {"h1", "h2"}
    Groups = {"g1"}
    Orgs = {"o1", "o2"}
    Keks = {"k1", "k2"}
    MaxCalls = 6
    Replicas = {"r1"}
    Builds = {1, 2, 3}
    Order <- MCOrder
    Shipped <- MCShipped
    Slugs = {"b"}
    Builtins <- MCBuiltins
    Tenants = {"o1"}
    Users = {"u1"}
    RollsBack = FALSE
    MaxStarts = 3
    MaxRequests = 2
    Ids = {p1, p2}
    MaxRetry = 2
    MaxEdits = 2
    MaxFaults = 2
SPECIFICATION MCSpec
INVARIANTS
    MembersSound
    LatestIsLast
    HooksVerify
PROPERTIES
    UsedSecretKept
    RegistrationEnds
\* The bounds on requests, starts and faults are reached.
CHECK_DEADLOCK FALSE
