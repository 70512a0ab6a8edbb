SPECIFICATION Spec
CONSTANTS
    c1 = c1
    c2 = c2
    Parts = {"feed", "dashboard", "engine", "autopause", "workflows", "preview", "moderation", "login", "clock"}
    Viewer = "mine"
    Streams = {1, 2}
    Produced <- MCProduced
    MaxLog = 4
    QueueSize = 2
    Campaigns = {c1, c2}
    MaxLive = 2
    MaxMounts = 1
    MaxOpens = 2
    MaxMoves = 2
    Legs = {"scripted", "platform"}
    Sinks = {"validating", "keeping"}
    EnabledBlocks = {"calendar", "email"}
    MaxToolHops = 2
    MaxModelRetries = 1
    Policy <- MCPolicy
    CallMinute = 1110
    AskedMinutes = {1080, 1140, 1200}
    BusyTimes <- MCBusyTimes
    MaxUtterances = 2
    Watched = {c1, c2}
    Threshold = 2
    Window = 1
    PauseCooldown = 2
    PageCooldown = 2
    MaxTime = 3
    MaxEvents = 5
    Library <- DefaultLibrary
    Routes <- DefaultRoutes
    Events = {1, 2}
    Outcomes = {"booked", "qualified", "no_answer", "voicemail", "opted_out", "not_qualified"}
    Attempts = {1, 2}
    MaxAttempts = 2
    BackoffBase = 1
    BackoffCap = 2
    MaxClock = 2
    MaxDeliveries = 2
    MaxFrames = 3
    MaxGap = 1
    MinNew = 3
    MinInterval = 2
    MaxWords = 5
    MaxNow = 3
    Browsers = {"b1", "b2"}
    Accounts = {"a1"}
    Workers = {"w1", "w2"}
    StateTtl = 1
    SessionTtl = 1
    MaxStates = 2
    MaxCallbacks = 2
    MaxDay = 3
    Locked <- MCLocked
    Envelopes <- MCEnvelopes
    People = {p1, p2}
    PerMinute = 1
    Starts = {0, 32370, 71970}
    Durations = {30, 3610}
    Delays = {0, 40}
    Horizon = 180000
INVARIANTS OperationsTypeOK StreamHasNoGap DashboardInventsNothing TextCallEndsHonestly AutomationsRunOnce PreviewIsTornDown HarmIsCut SignInIsSpentOnce DialsAreTimely
PROPERTIES BreachStopsTheCampaign
CHECK_DEADLOCK FALSE
