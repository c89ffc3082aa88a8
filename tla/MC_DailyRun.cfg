SPECIFICATION Spec
CONSTANTS
    Documents = {markdown, html}
    MaxDay = 2
    MaxRuns = 3
INVARIANTS
    ReportBacked
    ReportRecoverable
