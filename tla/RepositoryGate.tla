--------------------------- MODULE RepositoryGate ---------------------------
(***************************************************************************)
(* tools/gate.py, the check a change must pass before it is committed      *)
(* (`--commit`) and before a stage is declared complete (without it).      *)
(*                                                                         *)
(* The gate calls its checks one after the other; a check adds findings,   *)
(* and a check that raises adds one of its own.  An action is one check.   *)
(* git, the test command and the auditing tools are external: each call    *)
(* may answer, answer badly or not at all.                                 *)
(*                                                                         *)
(* A file is what the checks can tell of it.  The checks that count words, *)
(* comments, layout and documents are one, TextCounts, whose outcome is    *)
(* free; of the others the findings that only advise are left out unless a *)
(* property reads them.                                                    *)
(***************************************************************************)
EXTENDS Integers, Sequences, Functions

CONSTANTS
    Endpoints,      \* a method and a path
    Fragments,      \* literal parts of paths, between path variables
    FragmentsOf,    \* those of an endpoint; GET / and GET /{id} have none
    Repositories    \* states the checked repository may be in

Dirs  == {"service", "tests", "samples", "tools"}
Files == [dir : Dirs, forbidden : BOOLEAN, readable : BOOLEAN, code : BOOLEAN,
          secret : BOOLEAN, labels : SUBSET {"open", "internal"}, test : {"none", "named", "other"},
          exposes : SUBSET Endpoints, mentions : SUBSET Fragments]

(* SPEC.yaml: entries are well formed or not, put a verb in the path, name *)
(* a whole collection, carry a reason or not.  A root names a directory in *)
(* plain spelling or in another one ("./service"); "whole" is ".".         *)
Entries == [endpoint : Endpoints, formed : BOOLEAN, reason : BOOLEAN, bulk : BOOLEAN, verb : BOOLEAN]
Roots   == [names : Dirs \cup {"whole", "nowhere"}, plain : BOOLEAN]
Specs   == [file : {"absent", "broken", "read"},
            endpoints : SUBSET Entries, exclude : SUBSET Entries, roots : SUBSET Roots,
            command : {"none", "unparsable", "shell", "plain"}]

ASSUME FragmentAssumption == FragmentsOf \in [Endpoints -> SUBSET Fragments]

ASSUME GateAssumption ==
    \A w \in Repositories :
        /\ w.git \in {"none", "answers", "fails", "hangs"}
        /\ w.files \subseteq Files /\ w.tracked \subseteq w.files
        /\ w.spec \in Specs
        /\ w.large \in BOOLEAN /\ w.ignored \in BOOLEAN /\ w.restyled \in BOOLEAN
        /\ w.manifests \subseteq {"npm", "lock", "requirements", "pyproject", "jvm"}
        /\ w.exceptions \subseteq {"reasoned", "unreasoned"}
        /\ w.garbled \subseteq {"lock", "exceptions"}      \* files that are not UTF-8

VARIABLES
    world,      \* the repository
    commit,     \* COMMIT_MODE
    step,       \* checks called so far
    findings,   \* [level, code]
    counts,     \* what the checks that count texts came to
    audit       \* what npm and pip-audit answered

gateVars == <<world, commit, step, findings, counts, audit>>

Found(level, code) == [level |-> level, code |-> code]
If(cond, level, code) == {f \in {Found(level, code)} : cond}

(***************************************************************************)
(* What the checks look at                                                 *)
(***************************************************************************)
HasGit(w)  == w.git # "none"
HasSpec(w) == w.spec.file = "read"

(* tracked_set: without git every file; an exit code is not looked at, so  *)
(* a git that fails tracks nothing.                                        *)
Tracked(w) == IF ~HasGit(w) THEN w.files
              ELSE IF w.git = "answers" THEN w.tracked
              ELSE {}

(* _security_targets: code and settings that would be committed.           *)
Targets(w) == {x \in Tracked(w) : x.code}

Sources(w) == {x \in w.files : x.code}

(* Tests by name: T1 looks for "test" in Python and Java, T2 for "spec" and*)
(* in other languages too.                                                 *)
Named(w)   == {x \in w.files : x.test = "named"}
Tests(w)   == {x \in w.files : x.test # "none"}

(* _under_code_roots: no roots are the whole repository; a root covers what*)
(* begins with it as it is spelt.                                          *)
UnderRoots(x, s) == s.roots = {} \/ \E r \in s.roots : r.plain /\ r.names = x.dir

(* _spec_endpoints and _code_endpoints.                                    *)
Specified(s)  == {e.endpoint : e \in {e \in s.endpoints : e.formed}}
Excluded(s)   == {e.endpoint : e \in {e \in s.exclude : e.formed}}
Exposed(w, s) == UNION {x.exposes : x \in {x \in Sources(w) : UnderRoots(x, s)}}

(***************************************************************************)
(* The checks                                                              *)
(***************************************************************************)
Hygiene(w) ==
    If(\E x \in Tracked(w) : x.forbidden, "BLOCK", "H1")
        \cup If(HasGit(w) /\ ~w.ignored, "BLOCK", "H2")

PastLevel(c) == IF c THEN "INFO" ELSE "BLOCK"

(* check_history; sh answers with nothing when git does not answer.        *)
History(w, c) == If(w.git = "answers" /\ w.restyled, PastLevel(c), "G3")

HistoryComments(w) == If(w.large /\ Named(w) = {}, "BLOCK", "T1")

(* A root is a directory that is there, however it is spelt.               *)
AnyRoots(w, s) == TRUE
RootsExist(w, s) ==
    \A r \in s.roots : r.names = "whole" \/ \E x \in w.files : x.dir = r.names

ValidSpec(w, s) ==
    /\ \A e \in s.endpoints : e.formed
    /\ \A e \in s.exclude : e.formed /\ e.reason
    /\ RootsExist(w, s)

(* What a change under construction is forgiven: an endpoint to come.      *)
PendingLevel(c) == IF c THEN "INFO" ELSE "BLOCK"

ForgivenExcess(c) == PendingLevel(c)
ExcessLevel(c) == "BLOCK"

CheckSpec(w, c) ==
    IF w.spec.file = "broken" THEN {Found("BLOCK", "S0")}
    ELSE IF ~HasSpec(w) THEN {}
    ELSE IF ~ValidSpec(w, w.spec) THEN {Found("BLOCK", "S0")}
    ELSE IF w.spec.endpoints = {} THEN {}
    ELSE LET s == w.spec
             code == Exposed(w, s)
         IN  IF code = {} THEN {Found(PendingLevel(c), "S3")}
             ELSE If(~(Specified(s) \subseteq code \cup Excluded(s)), PendingLevel(c), "S3")
                  \cup If(~(code \subseteq Specified(s) \cup Excluded(s)), ExcessLevel(c), "S4")

TestsUnderRoots(w, s) == {x \in Tests(w) : UnderRoots(x, s)}

(* The tests beside the sources, or else the repository's test directory.  *)
TestsInScope(w, s) ==
    LET beside == TestsUnderRoots(w, s)
    IN  IF beside # {} THEN beside ELSE {x \in Tests(w) : x.dir = "tests"}

(* The tests are searched as one text, for every fragment of the path; a   *)
(* path without a fragment is asked of nobody.                             *)
Mentioned(w, s) == UNION {x.mentions : x \in TestsInScope(w, s)}
Untested(w, s)  == {ep \in Specified(s) : ~(FragmentsOf[ep] \subseteq Mentioned(w, s))}

NothingInScope(w) == TestsUnderRoots(w, w.spec) = {}
NothingToAsk(w) == Tests(w) = {}

SpecTestCoverage(w) ==
    If(HasSpec(w) /\ ~NothingToAsk(w) /\ Untested(w, w.spec) # {}, "WARN", "T2")

(* check_api_design: no verb in a path, and PUT or DELETE of a whole       *)
(* collection needs a reason.                                              *)
ApiDesign(w) ==
    IF ~HasSpec(w) THEN {}
    ELSE If(\E e \in w.spec.endpoints : e.formed /\ e.verb, "BLOCK", "A1")
         \cup If(\E e \in w.spec.endpoints : e.formed /\ e.bulk /\ ~e.reason, "BLOCK", "A4")

(* check_internal_leak skips the harness's own directories.                *)
Deliverables(w) == {x \in w.files : x.readable /\ x.dir # "tools"}
InternalLeak(w) ==
    If(\E x \in Deliverables(w) : "open" \in x.labels, "BLOCK", "L1")
        \cup If(\E x \in Deliverables(w) : "internal" \in x.labels, "BLOCK", "L2")

(* check_tests_run: run is what _run makes of the command.                 *)
TestsRun(w, c, run) ==
    LET command == IF HasSpec(w) THEN w.spec.command ELSE "none" IN
    CASE ~c -> {}
      [] c /\ command = "none" -> {Found("WARN", "V1")}
      [] c /\ command \in {"unparsable", "shell"} -> {Found("BLOCK", "V1")}
      [] c /\ command = "plain" -> {Found(IF run = "passed" THEN "INFO" ELSE "BLOCK", "V1")}

Secrets(w) == If(\E x \in Targets(w) : x.secret /\ x.readable, "BLOCK", "X1")

(* check_sast: only what is printed counts, the exit code does not.        *)
Sast(w, c, semgrep) ==
    IF ~c \/ Targets(w) = {} THEN {}
    ELSE CASE semgrep \in {"absent", "silent", "garbled"} -> {Found("WARN", "X2")}
           [] semgrep = "errors" -> {Found("BLOCK", "X2")}
           [] semgrep = "warnings" -> {Found("WARN", "X2")}
           [] semgrep = "clean" -> {Found("INFO", "X2")}

(* check_deps.  A finding names its tool: its X3 is of npm, pip or the JVM.*)
(* An answer of npm that cannot be read leaves no finding.                 *)
Npm(npm) ==
    CASE npm = "absent" -> {Found("WARN", "X3_npm")}
      [] npm = "garbled" -> {}
      [] npm = "severe" -> {Found("BLOCK", "X3_npm")}
      [] npm = "clean" -> {Found("INFO", "X3_npm")}

NpmFindings(w, a) == IF "npm" \in w.manifests THEN Npm(a.npm) ELSE {}

(* The file pip-audit is pointed at.                                       *)
Target(w) == IF "lock" \in w.manifests THEN "lock"
             ELSE IF "requirements" \in w.manifests THEN "requirements"
             ELSE "none"

PrintedIsComplete(pip) == pip.printed = "read"
Completed(pip) == pip.printed = "read" /\ pip.exit = 0

Audited(w, pip) == Target(w) # "none" /\ pip.installed

(* _audit_python_deps.                                                     *)
Pip(w, pip) ==
    IF ~Audited(w, pip) THEN {Found("WARN", "X3_pip")}
    ELSE (IF pip.vulnerable THEN {Found("BLOCK", "X3_pip")}
          ELSE {Found(IF Completed(pip) THEN "INFO" ELSE "WARN", "X3_pip")})
         \cup If(pip.skipped \/ w.exceptions # {}, "WARN", "X3_pip")

HasPython(w) == w.manifests \cap {"lock", "requirements", "pyproject"} # {}

Deps(w, c, a) ==
    IF ~c THEN {}
    ELSE NpmFindings(w, a)
         \cup (IF HasPython(w) THEN Pip(w, a.pip) ELSE {})
         \cup If("jvm" \in w.manifests, "WARN", "X3_jvm")

(* What check_deps does not guard: npm's counts, the lock file and the     *)
(* exceptions, which must be UTF-8, and the advisories that pip-audit lists*)
NpmRaises(w, a) == "npm" \in w.manifests /\ a.npm = "malformed"
PipRaises(w, pip) ==
    /\ HasPython(w) /\ Audited(w, pip)
    /\ \/ Target(w) = "lock" /\ "lock" \in w.garbled
       \/ "exceptions" \in w.garbled
       \/ pip.printed = "malformed"

(***************************************************************************)
(* The main loop                                                           *)
(***************************************************************************)
Checks ==
    <<"check_hygiene", "check_history", "text_counts", "check_history_comments", "check_spec",
      "check_spec_test_coverage", "check_api_design", "check_internal_leak", "check_tests_run",
      "check_secrets", "check_sast", "check_deps">>

SecurityChecks == {"check_secrets", "check_sast", "check_deps"}

(* Calls that are not guarded: git ls-files, and opening a source to read. *)
Raises(w, c, check, a) ==
    \/ check \in {"check_hygiene", "check_secrets"} /\ w.git = "hangs"
    \/ check = "check_sast" /\ c /\ w.git = "hangs"
    \/ check = "check_history_comments" /\ \E x \in Sources(w) : ~x.readable
    \/ /\ check = "check_spec" /\ HasSpec(w)
       /\ ValidSpec(w, w.spec) /\ w.spec.endpoints # {}
       /\ \E x \in Sources(w) : UnderRoots(x, w.spec) /\ ~x.readable
    \/ /\ check = "check_spec_test_coverage" /\ HasSpec(w)
       /\ Specified(w.spec) # {}
       /\ \E x \in TestsInScope(w, w.spec) : ~x.readable
    \/ /\ check = "check_deps" /\ c /\ w.manifests # {}
       /\ NpmRaises(w, a) \/ PipRaises(w, a.pip)

(* What a check that raises has found before: npm comes before pip.        *)
FoundBefore(w, check, a) ==
    IF check = "check_deps" /\ ~NpmRaises(w, a) THEN NpmFindings(w, a) ELSE {}

Unrun(check) == Found(IF check \in SecurityChecks THEN "BLOCK" ELSE "WARN", "!!")

PipAudits == {p \in [installed : BOOLEAN, exit : {0, 1}, printed : {"garbled", "malformed", "read"},
                     vulnerable : BOOLEAN, skipped : BOOLEAN] :
                 /\ p.vulnerable \/ p.skipped => p.printed = "read"
                 /\ ~p.installed => p.exit = 0 /\ p.printed = "garbled"}
NpmAudits == {"absent", "garbled", "malformed", "severe", "clean"}

(* What the tools of a check may answer, in a repository that has them     *)
(* called.                                                                 *)
AnswersTo(w, c, check) ==
    IF check = "text_counts" THEN {"none", "WARN", "BLOCK"}
    ELSE IF check = "check_tests_run" /\ c /\ w.spec.command = "plain" THEN {"passed", "failed", "unrunnable"}
    ELSE IF check = "check_sast" /\ c
      THEN {"absent", "silent", "garbled", "errors", "warnings", "clean"}
    ELSE IF check = "check_deps" /\ c /\ w.manifests # {} THEN [npm : NpmAudits, pip : PipAudits]
    ELSE {"none"}

Result(w, c, check, a) ==
    IF Raises(w, c, check, a) THEN FoundBefore(w, check, a) \cup {Unrun(check)}
    ELSE CASE check = "check_hygiene" -> Hygiene(w)
           [] check = "check_history" -> History(w, c)
           [] check = "text_counts" -> If(a # "none", a, "C")
           [] check = "check_history_comments" -> HistoryComments(w)
           [] check = "check_spec" -> CheckSpec(w, c)
           [] check = "check_spec_test_coverage" -> SpecTestCoverage(w)
           [] check = "check_api_design" -> ApiDesign(w)
           [] check = "check_internal_leak" -> InternalLeak(w)
           [] check = "check_tests_run" -> TestsRun(w, c, a)
           [] check = "check_secrets" -> Secrets(w)
           [] check = "check_sast" -> Sast(w, c, a)
           [] check = "check_deps" -> Deps(w, c, a)

GateTypeOK ==
    /\ world \in Repositories
    /\ commit \in BOOLEAN
    /\ step \in 0..Len(Checks)
    /\ \A f \in findings : f.level \in {"BLOCK", "WARN", "INFO"}
    /\ counts \in {"none", "WARN", "BLOCK"}
    /\ step = Len(Checks) => audit \in AnswersTo(world, commit, "check_deps")

GateInit ==
    /\ world \in Repositories
    /\ commit \in BOOLEAN
    /\ step = 0
    /\ findings = {}
    /\ counts = "none"
    /\ audit = "none"

RunCheck ==
    /\ step < Len(Checks)
    /\ step' = step + 1
    /\ LET check == Checks[step + 1] IN
       \E a \in AnswersTo(world, commit, check) :
           /\ counts' = IF check = "text_counts" THEN a ELSE counts
           /\ audit' = IF check = "check_deps" THEN a ELSE audit
           /\ findings' = findings \cup Result(world, commit, check, a)
    /\ UNCHANGED <<world, commit>>

GateNext == RunCheck

GateSpec == GateInit /\ [][GateNext]_gateVars

(***************************************************************************)
(* Properties                                                              *)
(***************************************************************************)
Done      == step = Len(Checks)
Blocks(F) == {f.code : f \in {f \in F : f.level = "BLOCK"}}
Reported(level, code) == Found(level, code) \in findings

(* The exit code: 0 is COMMIT READY, or a stage that is complete.          *)
Passed == Done /\ Blocks(findings) = {}

(* What the plain gate says of the same repository and the same texts.     *)
PlainFindings ==
    UNION {Result(world, FALSE, check, IF check = "text_counts" THEN counts ELSE "none") :
              check \in Range(Checks)}

(* COMMIT_MODE's comment: a commit is forgiven endpoints that are still to *)
(* come (and a history it cannot change), every other blocker of the plain *)
(* gate blocks it too.                                                     *)
CommitForgivesOnlyPending ==
    commit /\ Passed => Blocks(PlainFindings) \subseteq {"S3", "G3"}

(* What passes exposes nothing, in a source that the roots match, that     *)
(* SPEC.yaml does not list or except with a reason; roots that name nothing*)
(* and entries that cannot be read are no way around it (such roots mean   *)
(* the whole repository here), and a run that could not read a source says *)
(* so.  Nothing is claimed of a source beside which a root is spelt in a   *)
(* way that matches no file, as "." is: it is not compared.  When that     *)
(* leaves no endpoint at all, S3 says so.                                  *)
Meant(w, s) ==
    {x \in Sources(w) : UnderRoots(x, s) \/ \A r \in s.roots : r.names = "nowhere"}

SurfaceIsSpecified ==
    Passed /\ HasSpec(world) /\ world.spec.endpoints # {} /\ ~Reported("WARN", "!!") =>
        /\ \A x \in Meant(world, world.spec) : \A ep \in x.exposes :
              \/ ep \in Specified(world.spec)
              \/ \E e \in world.spec.exclude : e.endpoint = ep /\ e.reason
        /\ Exposed(world, world.spec) = {} => Reported("INFO", "S3")

(* A path of the specification of which the tests lack a literal part is   *)
(* reported, or that there are no tests is; a repository too small for T1  *)
(* that has none is the one that falls between T1 and T2.                  *)
UntestedIsSaid ==
    Done /\ HasSpec(world) /\ ~Reported("WARN", "!!") =>
        \/ \A ep \in Specified(world.spec) :
              FragmentsOf[ep] \subseteq UNION {x.mentions : x \in Tests(world)}
        \/ Reported("WARN", "T2")
        \/ Reported("BLOCK", "T1")
        \/ ~world.large /\ Tests(world) = {}

(* check_deps: without a warning or a blocker about pip's audit, and unless*)
(* it raised and was reported as dead, what would be deployed was audited  *)
(* to the end, with nothing skipped and nothing excepted.                  *)
UnauditedIsSaid ==
    Done /\ commit /\ HasPython(world) =>
        \/ Reported("WARN", "X3_pip") \/ Reported("BLOCK", "X3_pip")
        \/ Raises(world, commit, "check_deps", audit) /\ Reported("BLOCK", "!!")
        \/ LET pip == audit.pip
           IN  /\ pip.installed /\ pip.exit = 0 /\ pip.printed = "read" /\ ~pip.skipped
               /\ "lock" \in world.manifests \/ "requirements" \in world.manifests
               /\ world.exceptions = {}

(* A check of the security axis that raises blocks: a dead check is not    *)
(* read as a pass.                                                         *)
DeadCheckBlocks ==
    Done => \A check \in SecurityChecks :
                Raises(world, commit, check, audit) => Reported("BLOCK", "!!")

(* What is not checked is said.                                            *)
NothingUncheckedPasses == UntestedIsSaid /\ UnauditedIsSaid /\ DeadCheckBlocks

VerdictSound == GateTypeOK /\ CommitForgivesOnlyPending
=============================================================================
