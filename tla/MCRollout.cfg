SPECIFICATION Spec
CONSTANTS
    app = app
    worker = worker
    e1 = e1
    e2 = e2
    Processes = {app, worker}
    Releases = {2, 3, 4}
    Runs = {e1, e2}
    MaxJobs = 4
SYMMETRY Symmetry
INVARIANTS
    SchemaSound
    PassOnlyFromLateWriter
    BlockedOnlyByData
