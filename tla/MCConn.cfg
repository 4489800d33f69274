SPECIFICATION Spec
CONSTANTS
    Caller = {User, Ensure, Reprompt, Resume, s1}
    User = User
    Ensure = Ensure
    Reprompt = Reprompt
    Resume = Resume
    Nobody = Nobody
    MaxClient = 2
    MaxDelayed = 1
    Creds = {"cached"}
    DialErrors = {"transient", "auth-failed"}
    MaxEvents = 3
INVARIANTS
    TypeOK
    ClientMatchesStatus
    EntryHasScheduler
PROPERTIES
    DropsForCause
    SuppressHolds
    KeepsRetrying
CHECK_DEADLOCK FALSE
