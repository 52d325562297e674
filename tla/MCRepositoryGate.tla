-------------------------- MODULE MCRepositoryGate --------------------------
(* Small repositories for TLC: one service, its tests, a sample project.   *)
EXTENDS RepositoryGate

CONSTANTS e1, e2, e3, f1, f2

(* A collection, an item of it, and a path of a variable only.             *)
MCFragmentsOf == [ep \in {e1, e2, e3} |-> IF ep = e1 THEN {f1} ELSE IF ep = e2 THEN {f1, f2} ELSE {}]

Plain == [dir |-> "service", forbidden |-> FALSE, readable |-> TRUE, code |-> TRUE,
          secret |-> FALSE, labels |-> {}, test |-> "none", exposes |-> {}, mentions |-> {}]

Routes(eps)      == [Plain EXCEPT !.exposes = eps]
Test(dir, fs)    == [Plain EXCEPT !.dir = dir, !.test = "named", !.mentions = fs]
OtherTest(dir, fs) == [Test(dir, fs) EXCEPT !.test = "other", !.code = FALSE]
Sample           == [Plain EXCEPT !.dir = "samples", !.exposes = {e2}]
Blemished        == {[Plain EXCEPT !.secret = TRUE], [Plain EXCEPT !.labels = {"open"}],
                     [Plain EXCEPT !.labels = {"internal"}],
                     [Plain EXCEPT !.forbidden = TRUE], [Plain EXCEPT !.readable = FALSE],
                     [Plain EXCEPT !.labels = {"open"}, !.dir = "tools"],
                     [Test("tests", {f1}) EXCEPT !.readable = FALSE]}

Entry(ep) == [endpoint |-> ep, formed |-> TRUE, reason |-> FALSE, bulk |-> FALSE, verb |-> FALSE]
Root(dir) == [names |-> dir, plain |-> TRUE]
Dotted(dir) == [names |-> dir, plain |-> FALSE]

ASpec == [file |-> "read", endpoints |-> {Entry(e1)}, exclude |-> {}, roots |-> {Root("service")}, command |-> "plain"]

ARepository ==
    [git |-> "answers", files |-> {Routes({e1}), Test("tests", {f1})},
     tracked |-> {Routes({e1}), Test("tests", {f1})}, spec |-> ASpec, large |-> TRUE,
     ignored |-> TRUE, restyled |-> FALSE, manifests |-> {}, exceptions |-> {}, garbled |-> {}]

With(files) == [ARepository EXCEPT !.files = files, !.tracked = files]

Listed  == {{}, {Entry(e1)}, {Entry(e1), Entry(e2)}, {Entry(e1), Entry(e3)},
            {[Entry(e1) EXCEPT !.formed = FALSE]}}
RootSets == {{}, {Root("service")}, {Root("nowhere")}, {Root("nowhere"), Root("service")},
             {Dotted("service")}, {Dotted("whole")}, {Dotted("service"), Root("samples")}}

Drift(files, listed, excluded, roots, large) ==
    [With(files) EXCEPT
        !.spec = [ASpec EXCEPT !.endpoints = listed, !.exclude = excluded, !.roots = roots,
                               !.command = "none"],
        !.large = large]

(* The specification and the code drift apart, or it and the tests.        *)
Drifted ==
    {Drift({Routes(eps)} \cup more, listed, excluded, roots, FALSE) :
        eps \in SUBSET {e1, e2}, more \in {{}, {Sample}}, listed \in Listed,
        excluded \in {{}, {[Entry(e2) EXCEPT !.reason = TRUE]}, {Entry(e2)}}, roots \in RootSets}
    \cup
    {Drift({Routes({e1, e2})} \cup more, listed, {}, roots, large) :
        more \in {{}, {Test("tests", {f1})}, {Test("samples", {f1, f2})}, {Test("service", {f2})},
                  {OtherTest("service", {f1})}, {OtherTest("service", {f1}), Test("service", {f2})},
                  {Sample, Test("tests", {f1}), Test("samples", {f2})}},
        listed \in Listed, roots \in RootSets, large \in BOOLEAN}

(* Everything else, one thing at a time.                                   *)
Others ==
    {[With({Routes({e1}), Test("tests", {f1}), x}) EXCEPT !.git = git, !.restyled = restyled,
            !.ignored = ignored] :
        x \in Blemished, git \in {"none", "answers", "fails", "hangs"},
        restyled \in BOOLEAN, ignored \in BOOLEAN}
    \cup {[ARepository EXCEPT !.files = @ \cup {x}] : x \in Blemished}
    \cup {[ARepository EXCEPT !.spec.file = f] : f \in {"absent", "broken"}}
    \cup {[ARepository EXCEPT !.spec.command = command] : command \in {"none", "unparsable", "shell"}}
    \cup {[ARepository EXCEPT !.spec.endpoints = {[Entry(e1) EXCEPT !.bulk = bulk, !.verb = ~bulk,
                                                                     !.reason = reason]}] :
              bulk \in BOOLEAN, reason \in BOOLEAN}
    \cup {[ARepository EXCEPT !.manifests = {"npm", "lock"}, !.git = "hangs"]}
    \cup {[ARepository EXCEPT !.manifests = m, !.exceptions = e, !.garbled = g, !.tracked = {},
                             !.spec.command = "none"] :
              m \in SUBSET {"npm", "lock", "requirements", "pyproject", "jvm"},
              e \in {{}, {"reasoned"}, {"reasoned", "unreasoned"}},
              g \in {{}, {"lock"}, {"exceptions"}}}

MCRepositories == Drifted \cup Others
=============================================================================
