SPECIFICATION Spec
CONSTANTS
    Accounts = {"RETAIL", "PREMIUM"}
    Entries <- MCEntries
    Usages <- MCUsages
    Clocks = {9, 30, 45}
    Windows <- MCWindows
    Offset = 11
    ScoreTables <- MCScoreTables
    Loaded = {0, 1}
    Renderings <- MCRenderings
    Priorities = {2, 3}
    None = None
INVARIANTS MandatedKept SettingsObeyed DueOnTime PreviewAgrees MarginCallComplete OneSegment
CHECK_DEADLOCK FALSE
