SPECIFICATION Spec
SYMMETRY Names
VIEW ToolView
CONSTANTS
    Calls = {c1, c2, c3}
    Layouts = {l1}
    NoPrompt = NoPrompt
    Quota = 3
    Wanted = 2
    WriteCap = 1
    PromptCap = 2
    MaxResets = 1
    MaxChanges = 1
INVARIANTS
    TypeOK
    QuotaKept
    AnswersOfThisSession
    OneDialogPerLayout
PROPERTIES
    HeardNoStands
    NothingSentAfterCancel
    WritesUnderPolicy
CHECK_DEADLOCK FALSE
