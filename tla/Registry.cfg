SPECIFICATION FairSpec
CONSTANTS
    Callers = {p, q}
    Tasks = {a}
    MaxGen <- MCMaxGen
    MaxResumes <- MCMaxResumes
    MaxStops <- MCMaxStops
INVARIANTS
    TypeOK
    OneLiveRun
    RunStatusIsTrue
    ResumeAfterRun
    AnswerIsConsistent
PROPERTIES
    FilesAreTheRuns
    ClosedRunsLeave
