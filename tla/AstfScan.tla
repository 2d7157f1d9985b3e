------------------------------ MODULE AstfScan ------------------------------
(***************************************************************************)
(* POST /security-scan (centralwatch_security/routers.py) and the script it *)
(* runs (scripts/security_scan.sh).  The script downloads the ASTF jar when *)
(* it is missing, removes the report of the scan before, runs ASTF and      *)
(* tells the outcome by its exit code: 0 and 1 are ASTF's "no findings" and *)
(* "findings", and 1 is also what "set -e" exits with when a test or a      *)
(* command of the script fails.                                             *)
(*                                                                          *)
(* Nothing keeps two scans apart: they share the jar, its temporary file    *)
(* and the report.  When the time is up only the script is killed; a curl   *)
(* or java it waits for goes on alone.  The container's file system         *)
(* survives a restart.                                                      *)
(***************************************************************************)
EXTENDS Naturals, FiniteSets

CONSTANTS
    Scans,          \* the requests, each of which runs one scan
    NoScan,
    Failing,        \* the commands of the script that may fail by themselves
    PartialCodes    \* exit codes of an ASTF that may leave a part of its report

ASSUME ScanAssumption == NoScan \notin Scans
ASSUME FailureAssumption == /\ Failing \subseteq {"mkdir", "move", "remove", "count"}
                            /\ PartialCodes \subseteq 0..2

VARIABLES
    jar,        \* ASTF_JAR: what it holds, and the last curl that opened it
    tmp,        \* tmp_jar: the same
    report,     \* REPORT_PATH: the scan whose ASTF wrote it, and its size
    step,       \* where the router and the script of each scan are
    child,      \* the program each scan has started and that still runs
    astf,       \* ghost: ASTF's exit code, NotRun before it has one
    wrote,      \* ghost: the scans whose ASTF wrote a whole report
    broke,      \* ghost: the command of each script that failed by itself
    shown,      \* ghost: whose report there was when 200 was answered
    rc,         \* exit code of each script
    reply,      \* the router's answer, 0 before it
    findings,   \* findings_detected in the answer
    overlap     \* ghost: two scans have been under way at once

files == <<jar, tmp, report>>
ghosts == <<astf, wrote, overlap>>
marks == <<broke, shown>>
answers == <<reply, findings>>
vars == <<jar, tmp, report, step, child, astf, wrote, broke, shown, overlap, rc,
          reply, findings>>

NoFile   == [content |-> "none", writer |-> NoScan]
NoReport == [by |-> NoScan, size |-> 0]
NotRun   == 9

Script == {"mkdir", "check_jar", "download", "test_tmp", "move", "test_jar",
           "remove", "astf", "test_report", "count"}

TypeOK ==
    /\ {jar, tmp} \subseteq
         [content : {"none", "part", "full"}, writer : Scans \cup {NoScan}]
    /\ report \in [by : Scans \cup {NoScan}, size : 0..1]
    /\ step \in [Scans -> Script \cup {"new", "exited", "over"}]
    /\ child \in [Scans -> {"none", "curl", "java", "java on a broken jar"}]
    /\ astf \in [Scans -> 0..2 \cup {NotRun}]
    /\ wrote \subseteq Scans
    /\ broke \in [Scans -> {"none", "mkdir", "move", "remove", "count"}]
    /\ shown \in [Scans -> Scans \cup {NoScan}]
    /\ overlap \in BOOLEAN
    /\ rc \in [Scans -> 0..2]
    /\ reply \in [Scans -> {0, 200, 401, 500, 502, 504}]
    /\ findings \in [Scans -> BOOLEAN]

\* A new container: neither a jar nor a report.
Init ==
    /\ jar = NoFile
    /\ tmp = NoFile
    /\ report = NoReport
    /\ step = [s \in Scans |-> "new"]
    /\ child = [s \in Scans |-> "none"]
    /\ astf = [s \in Scans |-> NotRun]
    /\ wrote = {}
    /\ broke = [s \in Scans |-> "none"]
    /\ shown = [s \in Scans |-> NoScan]
    /\ overlap = FALSE
    /\ rc = [s \in Scans |-> 0]
    /\ reply = [s \in Scans |-> 0]
    /\ findings = [s \in Scans |-> FALSE]

Goto(s, there) == step' = [step EXCEPT ![s] = there]

Exit(s, code) == Goto(s, "exited") /\ rc' = [rc EXCEPT ![s] = code]

\* One line of the script: it goes on, or set -e makes it exit with 1.
Test(s, holds, there) ==
    IF holds THEN Goto(s, there) /\ UNCHANGED rc ELSE Exit(s, 1)

Answer(s, status) ==
    /\ Goto(s, "over")
    /\ reply' = [reply EXCEPT ![s] = status]

UnderWay(s) == step[s] \in Script \cup {"exited"} \/ child[s] # "none"

-----------------------------------------------------------------------------
(* The router starts the script.                                            *)

\* No valid token (401); no script, or one that cannot be executed (500).
Refuse(s) ==
    /\ step[s] = "new"
    /\ \E status \in {401, 500} : Answer(s, status)
    /\ UNCHANGED <<files, child, ghosts, marks, rc, findings>>

Start(s) ==
    /\ step[s] = "new"
    /\ Goto(s, "mkdir")
    /\ overlap' = (overlap \/ \E u \in Scans : UnderWay(u))
    /\ UNCHANGED <<files, child, astf, wrote, marks, rc, answers>>

\* A command of the script fails for a reason of its own, a read-only or full
\* disk for one, and changes nothing: set -e makes it exit with 1.
CommandFails(s) ==
    /\ step[s] \in Failing
    /\ broke' = [broke EXCEPT ![s] = step[s]]
    /\ Exit(s, 1)
    /\ UNCHANGED <<files, child, ghosts, shown, answers>>

MakeDirectory(s) ==
    /\ step[s] = "mkdir"
    /\ Goto(s, "check_jar")
    /\ UNCHANGED <<files, child, ghosts, marks, rc, answers>>

-----------------------------------------------------------------------------
(* The jar                                                                  *)

CheckJar(s) ==
    /\ step[s] = "check_jar"
    /\ Goto(s, IF jar.content = "none" THEN "download" ELSE "test_jar")
    /\ UNCHANGED <<files, child, ghosts, marks, rc, answers>>

\* Mutant of CurlOpens: curl writes to the jar itself.
CurlOpensJar(s) ==
    /\ step[s] = "download"
    /\ child[s] = "none"
    /\ child' = [child EXCEPT ![s] = "curl"]
    /\ jar' = [content |-> "part", writer |-> s]
    /\ UNCHANGED <<tmp, report, step, ghosts, marks, rc, answers>>

\* curl truncates tmp_jar and begins to fill it ...
CurlOpens(s) ==
    /\ step[s] = "download"
    /\ child[s] = "none"
    /\ child' = [child EXCEPT ![s] = "curl"]
    /\ tmp' = [content |-> "part", writer |-> s]
    /\ UNCHANGED <<jar, report, step, ghosts, marks, rc, answers>>

\* The file is whole when the curl that opened it last is done with it,
\* whatever its name is by then.
Filled(f, s) == IF f.writer = s THEN [f EXCEPT !.content = "full"] ELSE f

\* ... until it is done; the script goes on unless it was killed.
CurlEnds(s) ==
    /\ child[s] = "curl"
    /\ child' = [child EXCEPT ![s] = "none"]
    /\ jar' = Filled(jar, s)
    /\ tmp' = Filled(tmp, s)
    /\ IF step[s] = "download" THEN Goto(s, "test_tmp") ELSE UNCHANGED step
    /\ UNCHANGED <<report, ghosts, marks, rc, answers>>

\* It ends well and has fetched nothing.
CurlFetchesNothing(s) ==
    /\ child[s] = "curl"
    /\ child' = [child EXCEPT ![s] = "none"]
    /\ tmp' = IF tmp.writer = s THEN NoFile ELSE tmp
    /\ IF step[s] = "download" THEN Goto(s, "test_tmp") ELSE UNCHANGED step
    /\ UNCHANGED <<jar, report, ghosts, marks, rc, answers>>

\* curl gives up, before or after it has opened the file.
CurlFails(s) ==
    /\ step[s] = "download" \/ child[s] = "curl"
    /\ child' = [child EXCEPT ![s] = "none"]
    /\ IF step[s] = "download" THEN \E code \in 1..2 : Exit(s, code)
                               ELSE UNCHANGED <<step, rc>>
    /\ UNCHANGED <<files, ghosts, marks, answers>>

TestTmp(s) ==
    /\ step[s] = "test_tmp"
    /\ Test(s, tmp.content # "none", "move")
    /\ UNCHANGED <<files, child, ghosts, marks, answers>>

MoveTmp(s) ==
    /\ step[s] = "move"
    /\ Test(s, tmp.content # "none", "test_jar")
    /\ IF tmp.content # "none" THEN jar' = tmp /\ tmp' = NoFile ELSE UNCHANGED <<jar, tmp>>
    /\ UNCHANGED <<report, child, ghosts, marks, answers>>

TestJar(s) ==
    /\ step[s] = "test_jar"
    /\ Test(s, jar.content # "none", "remove")
    /\ UNCHANGED <<files, child, ghosts, marks, answers>>

-----------------------------------------------------------------------------
(* ASTF and its report                                                      *)

\* Mutant of RemoveReport: the report of the scan before is left where it is.
RemoveReportOmitted(s) ==
    /\ step[s] = "remove"
    /\ Goto(s, "astf")
    /\ UNCHANGED <<files, child, ghosts, marks, rc, answers>>

\* rm -f "$REPORT_PATH"
RemoveReport(s) ==
    /\ step[s] = "remove"
    /\ report' = NoReport
    /\ Goto(s, "astf")
    /\ UNCHANGED <<jar, tmp, child, ghosts, marks, rc, answers>>

Java == IF jar.content = "full" THEN "java" ELSE "java on a broken jar"

RunAstf(s) ==
    /\ step[s] = "astf"
    /\ child[s] = "none"
    /\ child' = [child EXCEPT ![s] = Java]
    /\ UNCHANGED <<files, step, ghosts, marks, rc, answers>>

\* java ends with this code; the script exits with codes above 1 at once.
JavaEnds(s, code) ==
    /\ child' = [child EXCEPT ![s] = "none"]
    /\ astf' = [astf EXCEPT ![s] = code]
    /\ IF step[s] # "astf" THEN UNCHANGED <<step, rc>>
       ELSE IF code > 1 THEN Exit(s, code)
       ELSE Goto(s, "test_report") /\ UNCHANGED rc
    /\ UNCHANGED <<jar, tmp, overlap, marks, answers>>

\* External: ASTF writes its report as its last act, to wherever the path
\* leads then.
AstfReports(s) ==
    /\ child[s] = "java"
    /\ \E code \in {0, 1} : JavaEnds(s, code)
    /\ report' = [by |-> s, size |-> 1]
    /\ wrote' = wrote \cup {s}

\* External: it ends, or dies, with a part of its report written.
AstfLeavesPart(s) ==
    /\ child[s] = "java"
    /\ \E code \in PartialCodes : JavaEnds(s, code)
    /\ report' = [by |-> s, size |-> 1]
    /\ UNCHANGED wrote

\* External: it ends without one, or leaves an empty one, whatever its exit
\* code: a JVM that dies of an exception exits with 1.
AstfLeavesNothing(s) ==
    /\ child[s] = "java"
    /\ \E code \in 0..2 : JavaEnds(s, code)
    /\ report' \in {report, [by |-> s, size |-> 0]}
    /\ UNCHANGED wrote

\* External: java finds no valid jar.
JarIsRejected(s) ==
    /\ child[s] = "java on a broken jar"
    /\ JavaEnds(s, 1)
    /\ UNCHANGED <<report, wrote>>

\* test -s "$REPORT_PATH"
TestReport(s) ==
    /\ step[s] = "test_report"
    /\ Test(s, report.size > 0, "count")
    /\ UNCHANGED <<files, child, ghosts, marks, answers>>

\* Mutant of CountBytes: the exit code of the last command, not ASTF's.
CountBytesExitsZero(s) ==
    /\ step[s] = "count"
    /\ Exit(s, IF report # NoReport THEN 0 ELSE 1)
    /\ UNCHANGED <<files, child, ghosts, marks, answers>>

\* wc -c < "$REPORT_PATH", and exit with ASTF's code
CountBytes(s) ==
    /\ step[s] = "count"
    /\ Exit(s, IF report # NoReport THEN astf[s] ELSE 1)
    /\ UNCHANGED <<files, child, ghosts, marks, answers>>

-----------------------------------------------------------------------------
(* The router ends.                                                         *)

\* Mutant of Timeout: the time is looked at between two programs only.
TimeoutBetweenPrograms(s) ==
    /\ step[s] \in Script
    /\ child[s] = "none"
    /\ Answer(s, 504)
    /\ UNCHANGED <<files, child, ghosts, marks, rc, findings>>

\* subprocess.run kills the script, not the program the script waits for.
Timeout(s) ==
    /\ step[s] \in Script
    /\ Answer(s, 504)
    /\ UNCHANGED <<files, child, ghosts, marks, rc, findings>>

\* The exit code, then the size of the report.
Report(s) ==
    /\ step[s] = "exited"
    /\ IF rc[s] \in {0, 1} /\ report.size > 0
       THEN /\ Answer(s, 200)
            /\ findings' = [findings EXCEPT ![s] = (rc[s] = 1)]
            /\ shown' = [shown EXCEPT ![s] = report.by]
       ELSE Answer(s, 502) /\ UNCHANGED <<findings, shown>>
    /\ UNCHANGED <<files, child, ghosts, broke, rc>>

\* Everything in the container dies and every file stays.
Restart ==
    /\ \E s \in Scans : UnderWay(s)
    /\ step' = [s \in Scans |-> IF UnderWay(s) THEN "over" ELSE step[s]]
    /\ child' = [s \in Scans |-> "none"]
    /\ UNCHANGED <<files, ghosts, marks, rc, answers>>

ScriptStep(s) ==
    \/ MakeDirectory(s) \/ CommandFails(s)
    \/ CheckJar(s) \/ CurlOpens(s) \/ TestTmp(s) \/ MoveTmp(s) \/ TestJar(s)
    \/ RemoveReport(s) \/ RunAstf(s) \/ TestReport(s) \/ CountBytes(s)

ChildStep(s) ==
    \/ CurlEnds(s) \/ CurlFetchesNothing(s) \/ CurlFails(s)
    \/ AstfReports(s) \/ AstfLeavesPart(s) \/ AstfLeavesNothing(s) \/ JarIsRejected(s)

Next ==
    \/ \E s \in Scans : \/ Refuse(s) \/ Start(s)
                        \/ ScriptStep(s) \/ ChildStep(s)
                        \/ Timeout(s) \/ Report(s)
    \/ Restart

Spec == Init /\ [][Next]_vars

\* The router's own steps are taken: the timer runs out, and the thread that
\* waits for the script goes on when it is over.  Nothing is assumed of curl
\* and java, which may hang.
FairSpec == Spec /\ \A s \in Scans : WF_vars(Timeout(s)) /\ WF_vars(Report(s))

-----------------------------------------------------------------------------
(* Properties                                                               *)

\* A scan that is answered with 200 and ran ASTF to its end.
Genuine(s) ==
    /\ s \in wrote
    /\ astf[s] = IF findings[s] THEN 1 ELSE 0

\* "A scan runs synchronously and the API returns success only after ASTF has
\* completed and written a non-empty HTML report" (README.md:314-315).
SuccessIsGenuine == \A s \in Scans : reply[s] = 200 => Genuine(s)

\* What was answered is what ASTF told in this very scan, and what it wrote, if
\* not all of it.  The exception is a script that failed at a command beside
\* ASTF, since set -e gives it the code of "findings".
Own(s) ==
    /\ shown[s] # s => findings[s] /\ broke[s] \in {"mkdir", "remove"}
    /\ astf[s] # (IF findings[s] THEN 1 ELSE 0) =>
           findings[s] /\ broke[s] \in {"mkdir", "remove", "count"}

\* As long as no two scans were ever under way at once, the program left
\* behind by a timeout included, 200 stands for the scan's own ASTF wherever
\* earlier scans failed or the container restarted, but for a failing mkdir, rm
\* or wc.  A download that fails is never taken for findings: while there is no
\* jar there is no report to go with its exit code.
SerialSuccessIsOwn == ~ overlap => \A s \in Scans : reply[s] = 200 => Own(s)

\* As long as no two scans were under way at once the jar is whole: neither a
\* download that failed nor one that was killed is ever taken for it.
SerialJarIsWhole == ~ overlap => jar.content \in {"none", "full"}

\* However scans interleave, "no findings" is never answered for a scan whose
\* own ASTF has not run to its end with that result.
CleanBillIsGenuine ==
    \A s \in Scans : reply[s] = 200 /\ ~ findings[s] => astf[s] = 0

\* A scan that was started is answered, even when curl or java hangs.
EveryScanAnswered ==
    \A s \in Scans : step[s] = "mkdir" ~> step[s] = "over"
=============================================================================
