\* The bot's life cycle: load, failed and successful starts, kills,
\* reconnects and unload, with deleteschedule searching by callback.
CONSTANTS
    Ids <- MC_Ids
    DeleteScheduleSearches = TRUE
    NULL = NULL

SPECIFICATION Spec

INVARIANT OneCallbackEach
INVARIANT CallbacksSeeBot
INVARIANT RetryPending
INVARIANT NothingAfterUnload
INVARIANT HookArgsPositional
INVARIANT DestructiveCommandsGuarded
PROPERTY LifecycleRefined
