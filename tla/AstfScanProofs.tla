--------------------------- MODULE AstfScanProofs ---------------------------
(***************************************************************************)
(* What holds of the ASTF scan trigger for any number of scans.            *)
(***************************************************************************)
EXTENDS AstfScan, TLAPS

\* What a scan is at, whatever the other scans do: its program runs only where the
\* script waits for one, and the code the script ends with is ASTF's when it is 0.
ScanOk(s) ==
    /\ child[s] = "curl" => step[s] \in {"download", "over"}
    /\ child[s] \notin {"none", "curl"} => step[s] \in {"astf", "over"}
    /\ step[s] \in {"test_report", "count"} => astf[s] \in {0, 1}
    /\ step[s] = "exited" /\ rc[s] = 0 => astf[s] = 0
    /\ reply[s] # 0 => step[s] = "over"
    /\ reply[s] = 200 => child[s] = "none" /\ (~findings[s] => astf[s] = 0)

\* The script ends with a code that will be answered with 200, and a report.
EndOk(s) ==
    /\ report.by # s => rc[s] = 1 /\ broke[s] \in {"mkdir", "remove"}
    /\ astf[s] # rc[s] => rc[s] = 1 /\ broke[s] \in {"mkdir", "remove", "count"}

\* What the files hold for a scan that is under way alone.
SerialOk(s) ==
    /\ child[s] = "curl" => tmp.writer = s
    /\ child[s] \notin {"none", "curl"} => jar.content = "full"
    /\ step[s] \in {"download", "test_tmp", "move"} => report.size = 0
    /\ step[s] \in {"test_tmp", "move"} => tmp.content \in {"none", "full"}
    /\ step[s] \in {"test_jar", "remove", "astf", "test_report", "count"} => jar.content = "full"
    /\ step[s] = "astf" => report.size = 0
    /\ step[s] = "test_report" /\ report.size > 0 => report.by = s
    /\ step[s] = "count" => report.size > 0 /\ report.by = s
    /\ step[s] = "exited" /\ rc[s] \in {0, 1} /\ report.size > 0 => EndOk(s)
    /\ reply[s] = 200 => Own(s)

\* The jar is whole, and it is there as soon as there is a report.
JarOk == jar.content \in {"none", "full"} /\ (report.size > 0 => jar.content = "full")

Serial ==
    ~overlap =>
        /\ \A s, u \in Scans : s # u => ~(UnderWay(s) /\ UnderWay(u))
        /\ JarOk
        /\ \A s \in Scans : SerialOk(s)

\* The inductive invariant.
Inv == TypeOK /\ (\A s \in Scans : ScanOk(s)) /\ Serial

-----------------------------------------------------------------------------
LEMMA FileShapes ==
    /\ NoFile \in [content : {"none", "part", "full"}, writer : Scans \cup {NoScan}]
    /\ NoFile.content = "none" /\ NoReport.size = 0
    /\ NoReport \in [by : Scans \cup {NoScan}, size : 0..1]
BY DEF NoFile, NoReport

Breaks == {"none", "mkdir", "move", "remove", "count"}
Replies == {0, 200, 401, 500, 502, 504}
Steps == Script \cup {"new", "exited", "over"}
Programs == {"none", "curl", "java", "java on a broken jar"}
Codes == 0..2 \cup {NotRun}

LEMMA Types ==
    ASSUME TypeOK
    PROVE  /\ step \in [Scans -> Steps] /\ child \in [Scans -> Programs]
           /\ astf \in [Scans -> Codes] /\ rc \in [Scans -> 0..2] /\ reply \in [Scans -> Replies]
           /\ wrote \subseteq Scans
           /\ broke \in [Scans -> Breaks] /\ shown \in [Scans -> Scans \cup {NoScan}]
BY DEF TypeOK, Steps, Programs, Codes, Replies, Breaks

LEMMA FindingsType ==
    ASSUME TypeOK
    PROVE  findings \in [Scans -> BOOLEAN]
BY DEF TypeOK

LEMMA InvInit == Init => Inv
<1> SUFFICES ASSUME Init PROVE Inv
  OBVIOUS
<1>1. TypeOK
  <2>1. /\ {jar, tmp} \subseteq [content : {"none", "part", "full"}, writer : Scans \cup {NoScan}]
        /\ report \in [by : Scans \cup {NoScan}, size : 0..1]
    BY FileShapes DEF Init
  <2>2. /\ step \in [Scans -> Script \cup {"new", "exited", "over"}]
        /\ child \in [Scans -> {"none", "curl", "java", "java on a broken jar"}]
        /\ astf \in [Scans -> 0..2 \cup {NotRun}]
        /\ rc \in [Scans -> 0..2] /\ reply \in [Scans -> {0, 200, 401, 500, 502, 504}]
    BY DEF Init
  <2>3. wrote \subseteq Scans /\ broke \in [Scans -> {"none", "mkdir", "move", "remove", "count"}]
        /\ shown \in [Scans -> Scans \cup {NoScan}] /\ overlap \in BOOLEAN /\ findings \in [Scans -> BOOLEAN]
    BY DEF Init
  <2>. QED BY <2>1, <2>2, <2>3 DEF TypeOK
<1>2. \A s \in Scans : ScanOk(s) /\ SerialOk(s) /\ ~UnderWay(s)
  BY DEF Init, ScanOk, SerialOk, UnderWay, Script
<1>3. JarOk
  BY FileShapes DEF Init, JarOk
<1>. QED BY <1>1, <1>2, <1>3 DEF Inv, Serial

\* Nobody's own state but that of s.
Only(s) ==
    /\ \A u \in Scans : u # s =>
        /\ step'[u] = step[u] /\ child'[u] = child[u] /\ astf'[u] = astf[u]
        /\ rc'[u] = rc[u] /\ reply'[u] = reply[u] /\ findings'[u] = findings[u]
        /\ broke'[u] = broke[u] /\ shown'[u] = shown[u]

\* A scan that is not under way is untouched by what the files become.
LEMMA Outside ==
    ASSUME Inv, NEW s \in Scans, Only(s), ~overlap, NEW u \in Scans, u # s, ~UnderWay(u)
    PROVE  SerialOk(u)' /\ ~UnderWay(u)'
<1>1. /\ step'[u] = step[u] /\ child'[u] = child[u] /\ astf'[u] = astf[u]
      /\ rc'[u] = rc[u] /\ reply'[u] = reply[u] /\ findings'[u] = findings[u]
      /\ broke'[u] = broke[u] /\ shown'[u] = shown[u]
  BY DEF Only
<1>2. child[u] = "none" /\ step[u] \notin Script /\ step[u] # "exited"
  BY DEF UnderWay
<1>3. reply[u] = 200 => Own(u)
  BY DEF Inv, Serial, SerialOk
<1>4. reply'[u] = 200 => Own(u)'
  BY <1>1, <1>3 DEF Own
<1>. QED BY <1>1, <1>2, <1>4 DEF SerialOk, JarOk, UnderWay, Script

\* One scan makes a step, and no other is under way.
LEMMA OneKeeps ==
    ASSUME Inv, NEW s \in Scans, Only(s), TypeOK', ScanOk(s)', overlap' = overlap,
           UnderWay(s),
           ~overlap => JarOk' /\ SerialOk(s)'
    PROVE  Inv'
<1>1. \A u \in Scans : ScanOk(u)'
  <2> SUFFICES ASSUME NEW u \in Scans, u # s PROVE ScanOk(u)'
    OBVIOUS
  <2>1. ScanOk(u)
    BY DEF Inv
  <2>. QED BY <2>1 DEF Only, ScanOk
<1>2. ASSUME ~overlap, NEW u \in Scans, u # s, UnderWay(s)
      PROVE  SerialOk(u)' /\ ~UnderWay(u)'
  <2>1. ~UnderWay(u)
    BY <1>2 DEF Inv, Serial
  <2>. QED BY <1>2, <2>1, Outside
<1>3. Serial'
  BY <1>2 DEF Inv, Serial
<1>. QED BY <1>1, <1>3 DEF Inv

LEMMA RefuseKeeps ==
    ASSUME Inv, NEW s \in Scans, Refuse(s)
    PROVE  Inv'
<1>1. PICK status \in {401, 500} :
        step' = [step EXCEPT ![s] = "over"] /\ reply' = [reply EXCEPT ![s] = status]
  BY DEF Refuse, Answer, Goto
<1>2. /\ step[s] = "new"
      /\ UNCHANGED <<jar, tmp, report, child, astf, wrote, broke, shown, overlap, rc, findings>>
  BY DEF Refuse, files, ghosts, marks
<1>3. /\ step' \in [Scans -> Steps] /\ reply' \in [Scans -> Replies]
      /\ step'[s] = "over" /\ reply'[s] \notin {0, 200}
      /\ \A u \in Scans : u # s => step'[u] = step[u] /\ reply'[u] = reply[u]
  BY <1>1, Types DEF Inv, Steps, Replies
<1>4. TypeOK'
  BY <1>2, <1>3 DEF Inv, TypeOK, Steps, Replies
<1>5. ASSUME NEW u \in Scans
      PROVE  ScanOk(u)' /\ (UnderWay(u)' => UnderWay(u))
  <2>1. ScanOk(u)
    BY DEF Inv
  <2>. QED BY <1>2, <1>3, <2>1 DEF ScanOk, UnderWay, Script
<1>6. ASSUME ~overlap, NEW u \in Scans
      PROVE  SerialOk(u)'
  <2>1. SerialOk(u)
    BY <1>6 DEF Inv, Serial
  <2>2. Own(u)' = Own(u) /\ EndOk(u)' = EndOk(u)
    BY <1>2 DEF Own, EndOk
  <2>. QED BY <1>2, <1>3, <2>1, <2>2 DEF SerialOk
<1>7. Serial'
  BY <1>2, <1>5, <1>6 DEF Inv, Serial, JarOk
<1>. QED BY <1>4, <1>5, <1>7 DEF Inv

LEMMA StartKeeps ==
    ASSUME Inv, NEW s \in Scans, Start(s)
    PROVE  Inv'
<1>1. /\ step[s] = "new" /\ step' = [step EXCEPT ![s] = "mkdir"]
      /\ overlap' = (overlap \/ \E u \in Scans : UnderWay(u))
      /\ UNCHANGED <<jar, tmp, report, child, astf, wrote, broke, shown, rc, reply, findings>>
  BY DEF Start, Goto, files, marks, answers
<1>2. overlap' \in BOOLEAN
  BY <1>1
<1>3. /\ step' \in [Scans -> Steps] /\ step'[s] = "mkdir"
      /\ \A u \in Scans : u # s => step'[u] = step[u]
  BY <1>1, Types DEF Inv, Steps, Script
<1>4. TypeOK'
  BY <1>1, <1>2, <1>3 DEF Inv, TypeOK, Steps
<1>5. ASSUME NEW u \in Scans
      PROVE  ScanOk(u)'
  <2>1. ScanOk(u)
    BY DEF Inv
  <2>. QED BY <1>1, <1>3, <2>1 DEF ScanOk
<1>6. Only(s)
  BY <1>1, <1>3 DEF Only
<1>7. ASSUME ~overlap'
      PROVE  ~overlap /\ \A u \in Scans : ~UnderWay(u)
  BY <1>1, <1>7
<1>8. ASSUME ~overlap', NEW u \in Scans, u # s
      PROVE  SerialOk(u)' /\ ~UnderWay(u)'
  BY <1>6, <1>7, <1>8, Outside
<1>9. ASSUME ~overlap'
      PROVE  SerialOk(s)'
  <2>1. child[s] = "none"
    BY <1>7, <1>9 DEF UnderWay
  <2>2. ScanOk(s)
    BY DEF Inv
  <2>. QED BY <1>1, <1>3, <2>1, <2>2 DEF ScanOk, SerialOk
<1>10. Serial'
  <2> SUFFICES ASSUME ~overlap'
               PROVE  /\ \A t, u \in Scans : t # u => ~(UnderWay(t)' /\ UnderWay(u)')
                      /\ JarOk'
                      /\ \A u \in Scans : SerialOk(u)'
    BY DEF Serial
  <2>1. JarOk'
    BY <1>1, <1>7 DEF Inv, Serial, JarOk
  <2>. QED BY <1>8, <1>9, <2>1
<1>. QED BY <1>4, <1>5, <1>10 DEF Inv
-----------------------------------------------------------------------------
(* The steps of a scan that is under way.                                    *)

Files == [content : {"none", "part", "full"}, writer : Scans \cup {NoScan}]
Reports == [by : Scans \cup {NoScan}, size : 0..1]

LEMMA StepKeeps ==
    ASSUME Inv, NEW s \in Scans, UnderWay(s), UNCHANGED overlap, Only(s),
           step' \in [Scans -> Steps], child' \in [Scans -> Programs], astf' \in [Scans -> Codes],
           rc' \in [Scans -> 0..2], reply' \in [Scans -> Replies], findings' \in [Scans -> BOOLEAN],
           wrote' \subseteq Scans, broke' \in [Scans -> Breaks], shown' \in [Scans -> Scans \cup {NoScan}],
           jar' \in Files, tmp' \in Files, report' \in Reports,
           ScanOk(s)', ~overlap => JarOk' /\ SerialOk(s)'
    PROVE  Inv'
<1>1. overlap' \in BOOLEAN
  BY DEF Inv, TypeOK
<1>2. TypeOK'
  <2>1. /\ {jar', tmp'} \subseteq [content : {"none", "part", "full"}, writer : Scans \cup {NoScan}]
        /\ report' \in [by : Scans \cup {NoScan}, size : 0..1]
    BY DEF Files, Reports
  <2>2. /\ step' \in [Scans -> Script \cup {"new", "exited", "over"}]
        /\ child' \in [Scans -> {"none", "curl", "java", "java on a broken jar"}]
        /\ astf' \in [Scans -> 0..2 \cup {NotRun}]
        /\ reply' \in [Scans -> {0, 200, 401, 500, 502, 504}]
    BY DEF Steps, Programs, Codes, Replies
  <2>3. broke' \in [Scans -> {"none", "mkdir", "move", "remove", "count"}]
    BY DEF Breaks
  <2>. QED BY <1>1, <2>1, <2>2, <2>3, Zenon DEF TypeOK
<1>. QED BY <1>2, OneKeeps

\* What is known of a scan before its step.
LEMMA Known ==
    ASSUME Inv, NEW s \in Scans
    PROVE  /\ ScanOk(s) /\ (~overlap => SerialOk(s) /\ JarOk)
           /\ step \in [Scans -> Steps] /\ child \in [Scans -> Programs] /\ astf \in [Scans -> Codes]
           /\ rc \in [Scans -> 0..2] /\ reply \in [Scans -> Replies] /\ findings \in [Scans -> BOOLEAN]
           /\ broke \in [Scans -> Breaks] /\ shown \in [Scans -> Scans \cup {NoScan}]
           /\ wrote \subseteq Scans /\ jar \in Files /\ tmp \in Files /\ report \in Reports
           /\ (step[s] \in Script \cup {"exited"} => UnderWay(s)) /\ (child[s] # "none" => UnderWay(s))
<1>1. jar \in Files /\ tmp \in Files /\ report \in Reports
  BY DEF Inv, TypeOK, Files, Reports
<1>. QED BY <1>1, Types, FindingsType DEF Inv, Serial, UnderWay

\* While the script runs a command that is soon over, nothing else of the scan does.
LEMMA CalmStep ==
    ASSUME Inv, NEW s \in Scans, step[s] \in Script
    PROVE  /\ UnderWay(s) /\ ScanOk(s) /\ reply[s] = 0
           /\ step[s] \notin {"download", "astf"} => child[s] = "none"
           /\ step[s] \in {"test_report", "count"} => astf[s] \in {0, 1}
BY Known DEF ScanOk, Script

LEMMA StepCell ==
    ASSUME step \in [Scans -> Steps], NEW s \in Scans, NEW there \in Steps, Goto(s, there)
    PROVE  /\ step' \in [Scans -> Steps] /\ step'[s] = there
           /\ \A u \in Scans : u # s => step'[u] = step[u]
BY DEF Goto

LEMMA ExitCell ==
    ASSUME step \in [Scans -> Steps], rc \in [Scans -> 0..2],
           NEW s \in Scans, NEW code \in 0..2, Exit(s, code)
    PROVE  /\ step' \in [Scans -> Steps] /\ step'[s] = "exited" /\ rc' \in [Scans -> 0..2] /\ rc'[s] = code
           /\ \A u \in Scans : u # s => step'[u] = step[u] /\ rc'[u] = rc[u]
BY DEF Exit, Goto, Steps

LEMMA TestCell ==
    ASSUME step \in [Scans -> Steps], rc \in [Scans -> 0..2],
           NEW s \in Scans, NEW holds \in BOOLEAN, NEW there \in Steps, Test(s, holds, there)
    PROVE  /\ step' \in [Scans -> Steps] /\ rc' \in [Scans -> 0..2]
           /\ \A u \in Scans : u # s => step'[u] = step[u] /\ rc'[u] = rc[u]
           /\ (holds /\ step'[s] = there /\ rc' = rc) \/ (~holds /\ step'[s] = "exited" /\ rc'[s] = 1)
<1>1. CASE holds
  BY <1>1, StepCell DEF Test
<1>2. CASE ~holds
  BY <1>2, ExitCell DEF Test
<1>. QED BY <1>1, <1>2

\* The lines of the script that start nothing.
LEMMA LinesKeep ==
    ASSUME Inv, NEW s \in Scans, CheckJar(s) \/ TestTmp(s) \/ TestJar(s)
    PROVE  Inv'
<1>1. /\ UNCHANGED <<jar, tmp, report, child, astf, wrote, broke, shown, overlap, reply, findings>>
      /\ step[s] \in {"check_jar", "test_tmp", "test_jar"}
  BY DEF CheckJar, TestTmp, TestJar, files, ghosts, marks, answers
<1>2. /\ step' \in [Scans -> Steps] /\ rc' \in [Scans -> 0..2]
      /\ \A u \in Scans : u # s => step'[u] = step[u] /\ rc'[u] = rc[u]
      /\ \/ step[s] = "check_jar" /\ step'[s] = "download" /\ jar.content = "none"
         \/ step[s] = "check_jar" /\ step'[s] = "test_jar" /\ jar.content # "none"
         \/ step[s] = "test_tmp" /\ step'[s] = "move"
         \/ step[s] = "test_tmp" /\ step'[s] = "exited" /\ rc'[s] = 1 /\ tmp.content = "none"
         \/ step[s] = "test_jar" /\ step'[s] = "remove"
         \/ step[s] = "test_jar" /\ step'[s] = "exited" /\ rc'[s] = 1 /\ jar.content = "none"
  <2>1. CASE CheckJar(s)
    BY <2>1, Known, StepCell DEF CheckJar, Steps, Script
  <2>2. CASE TestTmp(s)
    <3>1. Test(s, tmp.content # "none", "move") /\ "move" \in Steps /\ (tmp.content # "none") \in BOOLEAN
      BY <2>2 DEF TestTmp, Steps, Script
    <3>. QED BY <2>2, <3>1, Known, TestCell DEF TestTmp
  <2>3. CASE TestJar(s)
    <3>1. Test(s, jar.content # "none", "remove") /\ "remove" \in Steps /\ (jar.content # "none") \in BOOLEAN
      BY <2>3 DEF TestJar, Steps, Script
    <3>. QED BY <2>3, <3>1, Known, TestCell DEF TestJar
  <2>. QED BY <2>1, <2>2, <2>3
<1>3. Only(s)
  BY <1>1, <1>2 DEF Only
<1>4. UnderWay(s) /\ ScanOk(s)
  BY <1>1, Known DEF Script
<1>5. child[s] = "none" /\ reply[s] = 0
  BY <1>1, <1>4 DEF ScanOk
<1>6. ScanOk(s)'
  BY <1>1, <1>2, <1>5 DEF ScanOk
<1>7. ASSUME ~overlap
      PROVE  JarOk' /\ SerialOk(s)'
  <2>1. SerialOk(s) /\ JarOk
    BY <1>7, Known
  <2>2. step'[s] = "exited" => step[s] = "test_tmp" /\ report.size = 0
    BY <1>2, <2>1 DEF SerialOk
  <2>3. step'[s] = "download" => report.size = 0
    <3>1. report.size \in 0..1
      BY Known DEF Reports
    <3>2. step'[s] = "download" => jar.content = "none"
      BY <1>2
    <3>. QED BY <2>1, <3>1, <3>2 DEF JarOk
  <2>4. step'[s] \in {"test_jar", "remove"} => jar.content = "full"
    BY <1>2, <2>1 DEF SerialOk, JarOk
  <2>5. step'[s] = "move" => tmp.content \in {"none", "full"} /\ report.size = 0
    BY <1>2, <2>1 DEF SerialOk
  <2>. QED BY <1>1, <1>2, <1>5, <2>1, <2>2, <2>3, <2>4, <2>5 DEF SerialOk, JarOk
<1>. QED BY <1>1, <1>2, <1>3, <1>4, <1>6, <1>7, Known, StepKeeps

\* curl begins with an empty file of its own.
LEMMA CurlOpensKeeps ==
    ASSUME Inv, NEW s \in Scans, CurlOpens(s)
    PROVE  Inv'
<1>1. /\ UNCHANGED <<jar, report, step, astf, wrote, broke, shown, overlap, rc, reply, findings>>
      /\ step[s] = "download" /\ tmp' = [content |-> "part", writer |-> s]
      /\ child' = [child EXCEPT ![s] = "curl"]
  BY DEF CurlOpens, ghosts, marks, answers
<1>2. /\ child' \in [Scans -> Programs] /\ child'[s] = "curl"
      /\ \A u \in Scans : u # s => child'[u] = child[u]
  BY <1>1, Known DEF Programs
<1>3. tmp' \in Files /\ tmp'.writer = s
  BY <1>1 DEF Files
<1>4. Only(s)
  BY <1>1, <1>2 DEF Only
<1>5. UnderWay(s) /\ ScanOk(s) /\ reply[s] = 0
  BY <1>1, Known DEF Script, ScanOk
<1>6. ScanOk(s)'
  BY <1>1, <1>2, <1>5 DEF ScanOk
<1>7. ASSUME ~overlap
      PROVE  JarOk' /\ SerialOk(s)'
  BY <1>1, <1>2, <1>3, <1>5, <1>7, Known DEF SerialOk, JarOk
<1>. QED BY <1>1, <1>2, <1>3, <1>4, <1>5, <1>6, <1>7, Known, StepKeeps

LEMMA FilledFile ==
    ASSUME NEW f \in Files, NEW s \in Scans
    PROVE  /\ Filled(f, s) \in Files
           /\ f.writer = s => Filled(f, s).content = "full"
           /\ Filled(f, s).content \in {f.content, "full"}
           /\ Filled(f, s).writer = f.writer
BY DEF Files, Filled
\* The curl that opened the file last has filled it.
LEMMA CurlEndsKeeps ==
    ASSUME Inv, NEW s \in Scans, CurlEnds(s)
    PROVE  Inv'
<1>1. /\ UNCHANGED <<report, astf, wrote, broke, shown, overlap, rc, reply, findings>>
      /\ child[s] = "curl" /\ child' = [child EXCEPT ![s] = "none"]
      /\ jar' = Filled(jar, s) /\ tmp' = Filled(tmp, s)
      /\ IF step[s] = "download" THEN Goto(s, "test_tmp") ELSE UNCHANGED step
  BY DEF CurlEnds, ghosts, marks, answers
<1>2. /\ child' \in [Scans -> Programs] /\ child'[s] = "none"
      /\ \A u \in Scans : u # s => child'[u] = child[u]
  BY <1>1, Known DEF Programs
<1>3. /\ step' \in [Scans -> Steps] /\ \A u \in Scans : u # s => step'[u] = step[u]
      /\ \/ step[s] = "download" /\ step'[s] = "test_tmp"
         \/ step[s] # "download" /\ step'[s] = step[s]
  BY <1>1, Known, StepCell DEF Steps, Script
<1>4. jar' \in Files /\ tmp' \in Files /\ jar'.content \in {jar.content, "full"}
  BY <1>1, Known, FilledFile
<1>5. Only(s)
  BY <1>1, <1>2, <1>3 DEF Only
<1>6. UnderWay(s) /\ ScanOk(s)
  BY <1>1, Known
<1>7. ScanOk(s)'
  BY <1>1, <1>2, <1>3, <1>6 DEF ScanOk
<1>8. ASSUME ~overlap
      PROVE  JarOk' /\ SerialOk(s)'
  <2>1. SerialOk(s) /\ JarOk
    BY <1>8, Known
  <2>2. tmp'.content = "full"
    BY <1>1, <2>1, Known, FilledFile DEF SerialOk, JarOk
  <2>3. step'[s] \in {"test_tmp", "astf", "over"}
    BY <1>1, <1>3, <1>6 DEF ScanOk
  <2>4. reply'[s] = 200 => FALSE
    BY <1>1, <1>6 DEF ScanOk
  <2>. QED BY <1>1, <1>2, <1>3, <1>4, <2>1, <2>2, <2>3, <2>4 DEF SerialOk, JarOk
<1>. QED BY <1>1, <1>2, <1>3, <1>4, <1>5, <1>6, <1>7, <1>8, Known, StepKeeps

\* What it downloaded is nothing, and its file is not there.
LEMMA CurlFetchesNothingKeeps ==
    ASSUME Inv, NEW s \in Scans, CurlFetchesNothing(s)
    PROVE  Inv'
<1>1. /\ UNCHANGED <<jar, report, astf, wrote, broke, shown, overlap, rc, reply, findings>>
      /\ child[s] = "curl" /\ child' = [child EXCEPT ![s] = "none"]
      /\ tmp' = IF tmp.writer = s THEN NoFile ELSE tmp
      /\ IF step[s] = "download" THEN Goto(s, "test_tmp") ELSE UNCHANGED step
  BY DEF CurlFetchesNothing, ghosts, marks, answers
<1>2. /\ child' \in [Scans -> Programs] /\ child'[s] = "none"
      /\ \A u \in Scans : u # s => child'[u] = child[u]
  BY <1>1, Known DEF Programs
<1>3. /\ step' \in [Scans -> Steps] /\ \A u \in Scans : u # s => step'[u] = step[u]
      /\ \/ step[s] = "download" /\ step'[s] = "test_tmp"
         \/ step[s] # "download" /\ step'[s] = step[s]
  BY <1>1, Known, StepCell DEF Steps, Script
<1>4. tmp' \in Files /\ (tmp.writer = s => tmp'.content = "none")
  BY <1>1, Known, FileShapes DEF Files
<1>5. Only(s)
  BY <1>1, <1>2, <1>3 DEF Only
<1>6. UnderWay(s) /\ ScanOk(s)
  BY <1>1, Known
<1>7. ScanOk(s)'
  BY <1>1, <1>2, <1>3, <1>6 DEF ScanOk
<1>8. ASSUME ~overlap
      PROVE  JarOk' /\ SerialOk(s)'
  <2>1. SerialOk(s) /\ JarOk
    BY <1>8, Known
  <2>2. tmp'.content = "none"
    BY <1>1, <1>4, <2>1 DEF SerialOk
  <2>3. step[s] \in {"download", "over"}
    BY <1>1, <1>6 DEF ScanOk
  <2>4. reply'[s] = 200 => FALSE
    BY <1>1, <1>6 DEF ScanOk
  <2>. QED BY <1>1, <1>2, <1>3, <2>1, <2>2, <2>3, <2>4 DEF SerialOk, JarOk
<1>. QED BY <1>1, <1>2, <1>3, <1>4, <1>5, <1>6, <1>7, <1>8, Known, StepKeeps

LEMMA CurlFailsKeeps ==
    ASSUME Inv, NEW s \in Scans, CurlFails(s)
    PROVE  Inv'
<1>1. /\ UNCHANGED <<jar, tmp, report, astf, wrote, broke, shown, overlap, reply, findings>>
      /\ step[s] = "download" \/ child[s] = "curl"
      /\ child' = [child EXCEPT ![s] = "none"]
      /\ IF step[s] = "download" THEN \E code \in 1..2 : Exit(s, code)
                                 ELSE UNCHANGED <<step, rc>>
  BY DEF CurlFails, files, ghosts, marks, answers
<1>2. /\ child' \in [Scans -> Programs] /\ child'[s] = "none"
      /\ \A u \in Scans : u # s => child'[u] = child[u]
  BY <1>1, Known DEF Programs
<1>3. /\ step' \in [Scans -> Steps] /\ rc' \in [Scans -> 0..2]
      /\ \A u \in Scans : u # s => step'[u] = step[u] /\ rc'[u] = rc[u]
      /\ \/ step[s] = "download" /\ step'[s] = "exited" /\ rc'[s] \in 1..2
         \/ step[s] # "download" /\ step'[s] = step[s] /\ rc'[s] = rc[s]
  <2>1. CASE step[s] = "download"
    <3>1. PICK code \in 1..2 : Exit(s, code)
      BY <1>1, <2>1
    <3>2. code \in 0..2
      BY <3>1
    <3>. QED BY <2>1, <3>1, <3>2, Known, ExitCell
  <2>2. CASE step[s] # "download"
    BY <1>1, <2>2, Known
  <2>. QED BY <2>1, <2>2
<1>4. Only(s)
  BY <1>1, <1>2, <1>3 DEF Only
<1>5. UnderWay(s) /\ ScanOk(s)
  BY <1>1, Known DEF Script
<1>6. ScanOk(s)'
  BY <1>1, <1>2, <1>3, <1>5 DEF ScanOk
<1>7. ASSUME ~overlap
      PROVE  JarOk' /\ SerialOk(s)'
  <2>1. SerialOk(s) /\ JarOk
    BY <1>7, Known
  <2>2. step'[s] \in {"exited", "astf", "over"}
    BY <1>1, <1>3, <1>5 DEF ScanOk
  <2>3. reply'[s] = 200 => FALSE
    BY <1>1, <1>5 DEF ScanOk
  <2>. QED BY <1>1, <1>2, <1>3, <1>5, <2>1, <2>2, <2>3 DEF SerialOk, JarOk, ScanOk
<1>. QED BY <1>1, <1>2, <1>3, <1>4, <1>5, <1>6, <1>7, Known, StepKeeps

\* What is moved to the jar is whole, unless two scans were under way.
LEMMA MoveKeeps ==
    ASSUME Inv, NEW s \in Scans, MoveTmp(s)
    PROVE  Inv'
<1>1. /\ UNCHANGED <<report, child, astf, wrote, broke, shown, overlap, reply, findings>> /\ step[s] = "move"
      /\ Test(s, tmp.content # "none", "test_jar")
      /\ \/ tmp.content # "none" /\ jar' = tmp /\ tmp' = NoFile
         \/ tmp.content = "none" /\ UNCHANGED <<jar, tmp>>
  BY DEF MoveTmp, ghosts, marks, answers
<1>2. /\ step' \in [Scans -> Steps] /\ rc' \in [Scans -> 0..2]
      /\ \A u \in Scans : u # s => step'[u] = step[u] /\ rc'[u] = rc[u]
      /\ \/ tmp.content # "none" /\ step'[s] = "test_jar"
         \/ tmp.content = "none" /\ step'[s] = "exited" /\ rc'[s] = 1
  <2>1. "test_jar" \in Steps /\ (tmp.content # "none") \in BOOLEAN
    BY DEF Steps, Script
  <2>. QED BY <1>1, <2>1, Known, TestCell
<1>3. jar' \in Files /\ tmp' \in Files
  BY <1>1, Known, FileShapes DEF Files
<1>4. Only(s)
  BY <1>1, <1>2 DEF Only
<1>5. UnderWay(s) /\ ScanOk(s) /\ child[s] = "none" /\ reply[s] = 0
  BY <1>1, Known DEF Script, ScanOk
<1>6. ScanOk(s)'
  BY <1>1, <1>2, <1>5 DEF ScanOk
<1>7. ASSUME ~overlap
      PROVE  JarOk' /\ SerialOk(s)'
  <2>1. /\ tmp.content \in {"none", "full"} /\ report.size = 0 /\ JarOk
    BY <1>1, <1>7, Known DEF SerialOk
  <2>2. CASE tmp.content = "full"
    <3>1. jar' = tmp /\ step'[s] = "test_jar"
      BY <1>1, <1>2, <2>2
    <3>. QED BY <1>1, <1>5, <2>1, <2>2, <3>1 DEF SerialOk, JarOk
  <2>3. CASE tmp.content = "none"
    <3>1. jar' = jar /\ step'[s] = "exited"
      BY <1>1, <1>2, <2>3
    <3>. QED BY <1>1, <1>5, <2>1, <3>1 DEF SerialOk, JarOk
  <2>. QED BY <2>1, <2>2, <2>3
<1>. QED BY <1>1, <1>2, <1>3, <1>4, <1>5, <1>6, <1>7, Known, StepKeeps
LEMMA BeforeAstfKeeps ==
    ASSUME Inv, NEW s \in Scans, RemoveReport(s) \/ RunAstf(s)
    PROVE  Inv'
<1>1. UnderWay(s) /\ ScanOk(s) /\ reply[s] = 0
  BY Known DEF RemoveReport, RunAstf, Script, ScanOk
<1>2. CASE RemoveReport(s)
  <2>1. /\ UNCHANGED <<jar, tmp, child, astf, wrote, broke, shown, overlap, rc, reply, findings>>
        /\ step[s] = "remove" /\ report' = NoReport /\ Goto(s, "astf")
    BY <1>2 DEF RemoveReport, ghosts, marks, answers
  <2>2. /\ step' \in [Scans -> Steps] /\ step'[s] = "astf"
        /\ \A u \in Scans : u # s => step'[u] = step[u]
    BY <2>1, Known, StepCell DEF Steps, Script
  <2>3. report' \in Reports /\ report'.size = 0
    BY <2>1, FileShapes DEF Reports
  <2>4. Only(s)
    BY <2>1, <2>2 DEF Only
  <2>5. ScanOk(s)'
    BY <1>1, <2>1, <2>2 DEF ScanOk
  <2>6. ASSUME ~overlap
        PROVE  JarOk' /\ SerialOk(s)'
    BY <1>1, <2>1, <2>2, <2>3, <2>6, Known DEF SerialOk, JarOk
  <2>. QED BY <1>1, <2>1, <2>2, <2>3, <2>4, <2>5, <2>6, Known, StepKeeps
<1>3. CASE RunAstf(s)
  <2>1. /\ UNCHANGED <<jar, tmp, report, step, astf, wrote, broke, shown, overlap, rc, reply, findings>>
        /\ step[s] = "astf" /\ child' = [child EXCEPT ![s] = Java]
    BY <1>3 DEF RunAstf, files, ghosts, marks, answers
  <2>2. /\ child' \in [Scans -> Programs] /\ child'[s] \notin {"curl", "none"}
        /\ \A u \in Scans : u # s => child'[u] = child[u]
    <3>1. PICK program \in {"java", "java on a broken jar"} : program = Java
      BY DEF Java
    <3>. QED BY <2>1, <3>1, Known DEF Programs
  <2>3. Only(s)
    BY <2>1, <2>2 DEF Only
  <2>4. step'[s] = "astf" /\ reply'[s] = 0
    BY <1>1, <2>1
  <2>5. ScanOk(s)'
    BY <2>2, <2>4 DEF ScanOk
  <2>6. ASSUME ~overlap
        PROVE  JarOk' /\ SerialOk(s)'
    BY <2>1, <2>2, <2>4, <2>6, Known DEF SerialOk, JarOk
  <2>. QED BY <1>1, <2>1, <2>2, <2>3, <2>5, <2>6, Known, StepKeeps
<1>. QED BY <1>2, <1>3

\* ASTF's end: only a script that waits for it goes on.
LEMMA JavaEndsCells ==
    ASSUME Inv, NEW s \in Scans, NEW code \in 0..2, JavaEnds(s, code)
    PROVE  /\ UNCHANGED <<jar, tmp, broke, shown, overlap, reply, findings>>
           /\ child' \in [Scans -> Programs] /\ child'[s] = "none"
           /\ astf' \in [Scans -> Codes] /\ astf'[s] = code
           /\ step' \in [Scans -> Steps] /\ rc' \in [Scans -> 0..2]
           /\ \A u \in Scans : u # s =>
                step'[u] = step[u] /\ rc'[u] = rc[u] /\ child'[u] = child[u] /\ astf'[u] = astf[u]
           /\ \/ step[s] # "astf" /\ step'[s] = step[s] /\ rc'[s] = rc[s]
              \/ step[s] = "astf" /\ code > 1 /\ step'[s] = "exited" /\ rc'[s] = code
              \/ step[s] = "astf" /\ code <= 1 /\ step'[s] = "test_report" /\ rc'[s] = rc[s]
<1>1. /\ UNCHANGED <<jar, tmp, broke, shown, overlap, reply, findings>>
      /\ child' = [child EXCEPT ![s] = "none"] /\ astf' = [astf EXCEPT ![s] = code]
      /\ IF step[s] # "astf" THEN UNCHANGED <<step, rc>>
         ELSE IF code > 1 THEN Exit(s, code)
         ELSE Goto(s, "test_report") /\ UNCHANGED rc
  BY DEF JavaEnds, marks, answers
<1>2. /\ child' \in [Scans -> Programs] /\ child'[s] = "none"
      /\ astf' \in [Scans -> Codes] /\ astf'[s] = code
      /\ \A u \in Scans : u # s => child'[u] = child[u] /\ astf'[u] = astf[u]
  BY <1>1, Known DEF Programs, Codes
<1>3. "test_report" \in Steps
  BY DEF Steps, Script
<1>4. CASE step[s] # "astf"
  BY <1>1, <1>2, <1>4, Known
<1>5. CASE step[s] = "astf" /\ code > 1
  BY <1>1, <1>2, <1>5, Known, ExitCell
<1>6. CASE step[s] = "astf" /\ ~(code > 1)
  BY <1>1, <1>2, <1>3, <1>6, Known, StepCell
<1>. QED BY <1>4, <1>5, <1>6

LEMMA AstfKeeps ==
    ASSUME Inv, NEW s \in Scans, AstfReports(s) \/ AstfLeavesPart(s) \/ AstfLeavesNothing(s) \/ JarIsRejected(s)
    PROVE  Inv'
<1>1. PICK code \in 0..2 : JavaEnds(s, code)
  <2>1. CASE AstfReports(s)
    <3>1. PICK code \in {0, 1} : JavaEnds(s, code)
      BY <2>1 DEF AstfReports
    <3>2. code \in 0..2
      BY <3>1
    <3>. QED BY <3>1, <3>2
  <2>2. CASE AstfLeavesNothing(s)
    BY <2>2 DEF AstfLeavesNothing
  <2>3. CASE JarIsRejected(s)
    <3>1. JavaEnds(s, 1)
      BY <2>3 DEF JarIsRejected
    <3>2. 1 \in 0..2
      OBVIOUS
    <3>. QED BY <3>1, <3>2
  <2>4. CASE AstfLeavesPart(s)
    BY <2>4, FailureAssumption DEF AstfLeavesPart
  <2>. QED BY <2>1, <2>2, <2>3, <2>4
<1>2. child[s] \in {"java", "java on a broken jar"}
  BY DEF AstfReports, AstfLeavesPart, AstfLeavesNothing, JarIsRejected
<1>3. UnderWay(s) /\ ScanOk(s) /\ reply[s] # 200 /\ step[s] \in {"astf", "over"}
  BY <1>2, Known DEF ScanOk
<1>4. report' \in Reports /\ report'.size \in 0..1
  <2>1. [by |-> s, size |-> 1] \in Reports /\ [by |-> s, size |-> 0] \in Reports
    BY DEF Reports
  <2>2. report' \in {report, [by |-> s, size |-> 1], [by |-> s, size |-> 0]}
    BY DEF AstfReports, AstfLeavesPart, AstfLeavesNothing, JarIsRejected
  <2>3. report' \in Reports
    BY <2>1, <2>2, Known
  <2>. QED BY <2>3 DEF Reports
<1>5. /\ wrote' \subseteq Scans
      /\ report.size = 0 /\ report'.size > 0 => report'.by = s
  <2>1. CASE AstfReports(s)
    BY <2>1, Known DEF AstfReports
  <2>2. CASE AstfLeavesNothing(s)
    BY <2>2, Known DEF AstfLeavesNothing
  <2>3. CASE JarIsRejected(s)
    <3>1. report' = report /\ wrote' = wrote
      BY <2>3 DEF JarIsRejected
    <3>. QED BY <3>1, Known
  <2>4. CASE AstfLeavesPart(s)
    BY <2>4, Known DEF AstfLeavesPart
  <2>. QED BY <2>1, <2>2, <2>3, <2>4
<1>6. Only(s)
  BY <1>1, <1>5, JavaEndsCells DEF Only
<1>7. ScanOk(s)'
  BY <1>1, <1>3, JavaEndsCells DEF ScanOk
<1>8. ASSUME ~overlap
      PROVE  JarOk' /\ SerialOk(s)'
  <2>1. /\ JarOk /\ (step[s] = "astf" => report.size = 0) /\ jar.content = "full"
    BY <1>2, <1>8, Known DEF SerialOk
  <2>2. /\ jar' = jar /\ child'[s] = "none" /\ reply'[s] = reply[s]
        /\ \/ step[s] # "astf" /\ step'[s] = step[s]
           \/ step[s] = "astf" /\ step'[s] = "exited" /\ rc'[s] \notin {0, 1}
           \/ step[s] = "astf" /\ step'[s] = "test_report"
    BY <1>1, JavaEndsCells
  <2>. QED BY <1>3, <1>5, <2>1, <2>2 DEF SerialOk, JarOk
<1>. QED BY <1>1, <1>3, <1>4, <1>5, <1>6, <1>7, <1>8, Known, JavaEndsCells, StepKeeps

LEMMA TestReportKeeps ==
    ASSUME Inv, NEW s \in Scans, TestReport(s)
    PROVE  Inv'
<1>1. /\ UNCHANGED <<jar, tmp, report, child, astf, wrote, broke, shown, overlap, reply, findings>>
      /\ step[s] = "test_report" /\ Test(s, report.size > 0, "count")
  BY DEF TestReport, files, ghosts, marks, answers
<1>2. UnderWay(s) /\ ScanOk(s) /\ child[s] = "none" /\ reply[s] = 0 /\ astf[s] \in {0, 1}
  BY <1>1, CalmStep DEF Script
<1>3. "count" \in Steps /\ (report.size > 0) \in BOOLEAN
  BY DEF Steps, Script
<1>4. /\ step' \in [Scans -> Steps] /\ rc' \in [Scans -> 0..2]
      /\ \A u \in Scans : u # s => step'[u] = step[u] /\ rc'[u] = rc[u]
      /\ \/ report.size > 0 /\ step'[s] = "count"
         \/ ~(report.size > 0) /\ step'[s] = "exited" /\ rc'[s] = 1
  BY <1>1, <1>3, Known, TestCell
<1>5. Only(s)
  BY <1>1, <1>4 DEF Only
<1>6. ScanOk(s)'
  BY <1>1, <1>2, <1>4 DEF ScanOk
<1>7. ASSUME ~overlap
      PROVE  JarOk' /\ SerialOk(s)'
  <2>1. SerialOk(s) /\ JarOk
    BY <1>7, Known
  <2>. QED BY <1>1, <1>2, <1>4, <2>1 DEF SerialOk, JarOk
<1>. QED BY <1>1, <1>2, <1>4, <1>5, <1>6, <1>7, Known, StepKeeps

\* The script ends with ASTF's code, and with 1 when the report is gone.
LEMMA CountBytesKeeps ==
    ASSUME Inv, NEW s \in Scans, CountBytes(s)
    PROVE  Inv'
<1>1. /\ UNCHANGED <<jar, tmp, report, child, astf, wrote, broke, shown, overlap, reply, findings>>
      /\ step[s] = "count" /\ Exit(s, IF report # NoReport THEN astf[s] ELSE 1)
  BY DEF CountBytes, files, ghosts, marks, answers
<1>2. UnderWay(s) /\ ScanOk(s) /\ child[s] = "none" /\ reply[s] = 0 /\ astf[s] \in {0, 1}
  BY <1>1, CalmStep DEF Script
<1>3. PICK code \in 0..2 : code = IF report # NoReport THEN astf[s] ELSE 1
  BY <1>2
<1>4. /\ step' \in [Scans -> Steps] /\ step'[s] = "exited" /\ rc' \in [Scans -> 0..2] /\ rc'[s] = code
      /\ \A u \in Scans : u # s => step'[u] = step[u] /\ rc'[u] = rc[u]
  BY <1>1, <1>3, Known, ExitCell
<1>5. Only(s)
  BY <1>1, <1>4 DEF Only
<1>6. ScanOk(s)'
  BY <1>1, <1>2, <1>3, <1>4 DEF ScanOk
<1>7. ASSUME ~overlap
      PROVE  JarOk' /\ SerialOk(s)'
  <2>1. report.size > 0 /\ report.by = s /\ JarOk /\ SerialOk(s)
    BY <1>1, <1>7, Known DEF SerialOk
  <2>2. report # NoReport
    BY <2>1, FileShapes
  <2>3. EndOk(s)'
    BY <1>1, <1>3, <1>4, <2>1, <2>2 DEF EndOk
  <2>. QED BY <1>1, <1>2, <1>4, <2>1, <2>3 DEF SerialOk, JarOk
<1>. QED BY <1>1, <1>2, <1>4, <1>5, <1>6, <1>7, Known, StepKeeps

LEMMA MakeDirectoryKeeps ==
    ASSUME Inv, NEW s \in Scans, MakeDirectory(s)
    PROVE  Inv'
<1>1. /\ UNCHANGED <<jar, tmp, report, child, astf, wrote, broke, shown, overlap, rc, reply, findings>>
      /\ step[s] = "mkdir" /\ Goto(s, "check_jar")
  BY DEF MakeDirectory, files, ghosts, marks, answers
<1>2. UnderWay(s) /\ ScanOk(s) /\ child[s] = "none" /\ reply[s] = 0
  BY <1>1, CalmStep DEF Script
<1>3. /\ step' \in [Scans -> Steps] /\ step'[s] = "check_jar"
      /\ \A u \in Scans : u # s => step'[u] = step[u]
  BY <1>1, Known, StepCell DEF Steps, Script
<1>4. Only(s)
  BY <1>1, <1>3 DEF Only
<1>5. ScanOk(s)'
  BY <1>1, <1>2, <1>3 DEF ScanOk
<1>6. ASSUME ~overlap
      PROVE  JarOk' /\ SerialOk(s)'
  <2>1. SerialOk(s) /\ JarOk
    BY <1>6, Known
  <2>. QED BY <1>1, <1>2, <1>3, <2>1 DEF SerialOk, JarOk
<1>. QED BY <1>1, <1>2, <1>3, <1>4, <1>5, <1>6, Known, StepKeeps

\* A failing command ends the script with 1: before there is a jar there is no
\* report either.
LEMMA CommandFailsKeeps ==
    ASSUME Inv, NEW s \in Scans, CommandFails(s)
    PROVE  Inv'
<1>1. /\ UNCHANGED <<jar, tmp, report, child, astf, wrote, shown, overlap, reply, findings>>
      /\ step[s] \in {"mkdir", "move", "remove", "count"} /\ Exit(s, 1)
      /\ broke' = [broke EXCEPT ![s] = step[s]]
  BY FailureAssumption DEF CommandFails, files, ghosts, answers
<1>2. UnderWay(s) /\ ScanOk(s) /\ child[s] = "none" /\ reply[s] = 0
  BY <1>1, CalmStep DEF Script
<1>3. 1 \in 0..2
  OBVIOUS
<1>4. /\ step' \in [Scans -> Steps] /\ step'[s] = "exited" /\ rc' \in [Scans -> 0..2] /\ rc'[s] = 1
      /\ \A u \in Scans : u # s => step'[u] = step[u] /\ rc'[u] = rc[u]
  BY <1>1, <1>3, Known, ExitCell
<1>5. /\ broke' \in [Scans -> Breaks] /\ broke'[s] = step[s]
      /\ \A u \in Scans : u # s => broke'[u] = broke[u]
  BY <1>1, Known DEF Breaks
<1>6. Only(s)
  BY <1>1, <1>4, <1>5 DEF Only
<1>7. ScanOk(s)'
  BY <1>1, <1>2, <1>4 DEF ScanOk
<1>8. ASSUME ~overlap
      PROVE  JarOk' /\ SerialOk(s)'
  <2>1. SerialOk(s) /\ JarOk
    BY <1>8, Known
  <2>2. report.size > 0 => EndOk(s)'
    <3>1. report.size > 0 => step[s] # "move" /\ (step[s] = "count" => report.by = s)
      BY <2>1 DEF SerialOk
    <3>. QED BY <1>1, <1>4, <1>5, <3>1 DEF EndOk
  <2>. QED BY <1>1, <1>2, <1>4, <2>1, <2>2 DEF SerialOk, JarOk
<1>. QED BY <1>1, <1>2, <1>4, <1>5, <1>6, <1>7, <1>8, Known, StepKeeps

LEMMA AnswerCell ==
    ASSUME Inv, NEW s \in Scans, NEW status \in Replies, Answer(s, status)
    PROVE  /\ step' \in [Scans -> Steps] /\ step'[s] = "over"
           /\ reply' \in [Scans -> Replies] /\ reply'[s] = status
           /\ \A u \in Scans : u # s => step'[u] = step[u] /\ reply'[u] = reply[u]
BY Known, StepCell DEF Answer, Steps

LEMMA TimeoutKeeps ==
    ASSUME Inv, NEW s \in Scans, Timeout(s)
    PROVE  Inv'
<1>1. /\ UNCHANGED <<jar, tmp, report, child, astf, wrote, broke, shown, overlap, rc, findings>>
      /\ step[s] \in Script /\ Answer(s, 504) /\ 504 \in Replies
  BY DEF Timeout, files, ghosts, marks, Replies
<1>2. /\ step' \in [Scans -> Steps] /\ step'[s] = "over"
      /\ reply' \in [Scans -> Replies] /\ reply'[s] = 504
      /\ \A u \in Scans : u # s => step'[u] = step[u] /\ reply'[u] = reply[u]
  BY <1>1, AnswerCell
<1>3. UnderWay(s) /\ ScanOk(s)
  BY <1>1, Known
<1>4. Only(s)
  BY <1>1, <1>2 DEF Only
<1>5. ScanOk(s)'
  BY <1>1, <1>2, <1>3 DEF ScanOk
<1>6. ASSUME ~overlap
      PROVE  JarOk' /\ SerialOk(s)'
  BY <1>1, <1>2, <1>6, Known DEF SerialOk, JarOk
<1>. QED BY <1>1, <1>2, <1>3, <1>4, <1>5, <1>6, Known, StepKeeps

\* The answer reads the code of the script and the report that is there.
LEMMA ReportKeeps ==
    ASSUME Inv, NEW s \in Scans, Report(s)
    PROVE  Inv'
<1>1. /\ UNCHANGED <<jar, tmp, report, child, astf, wrote, broke, overlap, rc>> /\ step[s] = "exited"
      /\ \/ /\ rc[s] \in {0, 1} /\ report.size > 0 /\ Answer(s, 200)
            /\ findings' = [findings EXCEPT ![s] = (rc[s] = 1)]
            /\ shown' = [shown EXCEPT ![s] = report.by]
         \/ Answer(s, 502) /\ UNCHANGED <<findings, shown>>
  BY DEF Report, files, ghosts, marks
<1>2. UnderWay(s) /\ ScanOk(s) /\ child[s] = "none"
  BY <1>1, Known DEF ScanOk
<1>3. PICK status \in {200, 502} :
        /\ Answer(s, status)
        /\ \/ /\ status = 200 /\ rc[s] \in {0, 1} /\ report.size > 0
              /\ findings' = [findings EXCEPT ![s] = (rc[s] = 1)]
              /\ shown' = [shown EXCEPT ![s] = report.by]
           \/ status = 502 /\ UNCHANGED <<findings, shown>>
  BY <1>1
<1>4. /\ step' \in [Scans -> Steps] /\ step'[s] = "over"
      /\ reply' \in [Scans -> Replies] /\ reply'[s] = status
      /\ \A u \in Scans : u # s => step'[u] = step[u] /\ reply'[u] = reply[u]
  BY <1>3, AnswerCell DEF Replies
<1>5. /\ findings' \in [Scans -> BOOLEAN] /\ (status = 200 => findings'[s] = (rc[s] = 1))
      /\ \A u \in Scans : u # s => findings'[u] = findings[u]
  <2>1. CASE status = 200
    <3>1. PICK bad \in BOOLEAN : bad = (rc[s] = 1)
      OBVIOUS
    <3>2. findings' = [findings EXCEPT ![s] = bad] /\ findings \in [Scans -> BOOLEAN]
      BY <1>3, <2>1, <3>1, Known
    <3>3. findings' \in [Scans -> BOOLEAN]
      BY <3>2
    <3>4. findings'[s] = bad
      BY <3>2
    <3>5. \A u \in Scans : u # s => findings'[u] = findings[u]
      BY <3>2
    <3>. QED BY <2>1, <3>1, <3>3, <3>4, <3>5
  <2>2. CASE status = 502
    BY <1>3, <2>2, Known
  <2>. QED BY <2>1, <2>2
<1>10. /\ shown' \in [Scans -> Scans \cup {NoScan}] /\ (status = 200 => shown'[s] = report.by)
       /\ \A u \in Scans : u # s => shown'[u] = shown[u]
  <2>1. report.by \in Scans \cup {NoScan}
    BY Known DEF Reports
  <2>. QED BY <1>3, <2>1, Known
<1>6. Only(s)
  BY <1>1, <1>4, <1>5, <1>10 DEF Only
<1>7. rc[s] = 1 \/ rc[s] = 0 => astf[s] \in Codes
  BY Known
<1>8. ScanOk(s)'
  <2>1. CASE status = 200
    <3>1. rc[s] = 1 \/ (rc[s] = 0 /\ astf[s] = 0)
      BY <1>1, <1>2, <1>3, <2>1 DEF ScanOk
    <3>2. ~findings'[s] => astf[s] = 0
      BY <1>5, <2>1, <3>1
    <3>. QED BY <1>1, <1>2, <1>4, <3>2 DEF ScanOk
  <2>2. CASE status = 502
    BY <1>1, <1>2, <1>4, <2>2 DEF ScanOk
  <2>. QED BY <2>1, <2>2
<1>9. ASSUME ~overlap
      PROVE  JarOk' /\ SerialOk(s)'
  <2>1. JarOk /\ SerialOk(s)
    BY <1>9, Known
  <2>2. status = 200 => Own(s)'
    <3>1. ASSUME status = 200 PROVE Own(s)'
      <4>1. EndOk(s) /\ rc[s] \in {0, 1}
        BY <1>1, <1>3, <2>1, <3>1 DEF SerialOk
      <4>2. findings'[s] = (rc[s] = 1) /\ shown'[s] = report.by
        BY <1>5, <1>10, <3>1
      <4>3. shown'[s] # s => findings'[s] /\ broke[s] \in {"mkdir", "remove"}
        BY <4>1, <4>2 DEF EndOk
      <4>4. rc[s] = IF findings'[s] THEN 1 ELSE 0
        BY <4>1, <4>2
      <4>5. astf[s] # rc[s] => findings'[s] /\ broke[s] \in {"mkdir", "remove", "count"}
        BY <4>1, <4>2 DEF EndOk
      <4>. QED BY <1>1, <4>3, <4>4, <4>5 DEF Own
    <3>. QED BY <3>1
  <2>. QED BY <1>1, <1>2, <1>4, <2>1, <2>2 DEF SerialOk, JarOk
<1>. QED BY <1>1, <1>2, <1>4, <1>5, <1>6, <1>8, <1>9, <1>10, Known, StepKeeps

\* Everything in the container dies: what the files hold serves nobody.
LEMMA RestartKeeps ==
    ASSUME Inv, Restart
    PROVE  Inv'
<1>1. /\ UNCHANGED <<jar, tmp, report, astf, wrote, broke, shown, overlap, rc, reply, findings>>
      /\ step' = [s \in Scans |-> IF UnderWay(s) THEN "over" ELSE step[s]]
      /\ child' = [s \in Scans |-> "none"]
  BY DEF Restart, files, ghosts, marks, answers
<1>2. child' \in [Scans -> Programs] /\ \A s \in Scans : child'[s] = "none"
  BY <1>1 DEF Programs
<1>3. /\ step' \in [Scans -> Steps]
      /\ \A s \in Scans : /\ UnderWay(s) => step'[s] = "over"
                          /\ ~UnderWay(s) => step'[s] = step[s]
  <2>1. step \in [Scans -> Steps] /\ "over" \in Steps
    BY Types DEF Inv, Steps
  <2>. QED BY <1>1, <2>1
<1>4. TypeOK'
  BY <1>1, <1>2, <1>3 DEF Inv, TypeOK, Steps, Programs
<1>5. ASSUME NEW s \in Scans
      PROVE  ScanOk(s)' /\ ~UnderWay(s)'
  <2>1. ScanOk(s) /\ child'[s] = "none"
    BY <1>2, Known
  <2>2. CASE UnderWay(s)
    BY <1>1, <1>3, <2>1, <2>2 DEF ScanOk, UnderWay, Script
  <2>3. CASE ~UnderWay(s)
    BY <1>1, <1>3, <2>1, <2>3 DEF ScanOk, UnderWay, Script
  <2>. QED BY <2>2, <2>3
<1>6. ASSUME ~overlap
      PROVE  /\ JarOk'
             /\ \A s \in Scans : SerialOk(s)'
  <2>1. JarOk'
    BY <1>1, <1>6 DEF Inv, Serial, JarOk
  <2>2. ASSUME NEW s \in Scans
        PROVE  SerialOk(s)'
    <3>1. reply'[s] = 200 => Own(s)'
      BY <1>1, <1>6, Known DEF SerialOk, JarOk, Own
    <3>2. step'[s] \notin Script \cup {"exited"}
      BY <1>5 DEF UnderWay
    <3>. QED BY <1>2, <3>1, <3>2 DEF SerialOk, JarOk, Script
  <2>. QED BY <2>1, <2>2
<1>7. Serial'
  BY <1>1, <1>5, <1>6 DEF Serial
<1>. QED BY <1>4, <1>5, <1>7 DEF Inv

LEMMA InvStep == Inv /\ [Next]_vars => Inv'
<1> SUFFICES ASSUME Inv, [Next]_vars PROVE Inv'
  OBVIOUS
<1>1. ASSUME NEW s \in Scans, ScriptStep(s)
      PROVE  Inv'
  <2>1. CASE CheckJar(s) \/ TestTmp(s) \/ TestJar(s)
    BY <2>1, LinesKeep
  <2>2. CASE MoveTmp(s)
    BY <2>2, MoveKeeps
  <2>3. CASE CurlOpens(s)
    BY <2>3, CurlOpensKeeps
  <2>4. CASE RemoveReport(s) \/ RunAstf(s)
    BY <2>4, BeforeAstfKeeps
  <2>5. CASE TestReport(s) \/ CountBytes(s)
    BY <2>5, TestReportKeeps, CountBytesKeeps
  <2>6. CASE MakeDirectory(s) \/ CommandFails(s)
    BY <2>6, MakeDirectoryKeeps, CommandFailsKeeps
  <2>. QED BY <1>1, <2>1, <2>2, <2>3, <2>4, <2>5, <2>6 DEF ScriptStep
<1>2. ASSUME NEW s \in Scans, ChildStep(s)
      PROVE  Inv'
  <2>1. CASE CurlEnds(s)
    BY <2>1, CurlEndsKeeps
  <2>2. CASE CurlFails(s)
    BY <2>2, CurlFailsKeeps
  <2>3. CASE AstfReports(s) \/ AstfLeavesPart(s) \/ AstfLeavesNothing(s) \/ JarIsRejected(s)
    BY <2>3, AstfKeeps
  <2>4. CASE CurlFetchesNothing(s)
    BY <2>4, CurlFetchesNothingKeeps
  <2>. QED BY <1>2, <2>1, <2>2, <2>3, <2>4 DEF ChildStep
<1>3. ASSUME NEW s \in Scans, Refuse(s) \/ Start(s) \/ Timeout(s) \/ Report(s)
      PROVE  Inv'
  BY <1>3, RefuseKeeps, StartKeeps, TimeoutKeeps, ReportKeeps
<1>4. CASE Restart
  BY <1>4, RestartKeeps
<1>5. CASE UNCHANGED vars
  <2>1. UNCHANGED <<jar, tmp, report, step, child, astf, wrote, broke, shown, overlap, rc, reply, findings>>
    BY <1>5 DEF vars
  <2>2. TypeOK'
    BY <2>1 DEF Inv, TypeOK
  <2>3. \A s \in Scans : ScanOk(s)'
    BY <2>1 DEF Inv, ScanOk
  <2>4. Serial'
    BY <2>1 DEF Inv, Serial, SerialOk, Own, EndOk, JarOk, UnderWay
  <2>. QED BY <2>2, <2>3, <2>4 DEF Inv
<1>. QED BY <1>1, <1>2, <1>3, <1>4, <1>5 DEF Next

\* The inductive invariant of the scans holds in every state (routers.py,
\* security_scan.sh).
THEOREM Invariance == Spec => []Inv
BY InvInit, InvStep, PTL DEF Spec

\* The variables of the scan trigger keep their types (routers.py,
\* security_scan.sh).
THEOREM TypeCorrectness == Spec => []TypeOK
<1>1. Inv => TypeOK
  BY DEF Inv
<1>. QED BY <1>1, Invariance, PTL

\* "No findings" is the result of the scan's own ASTF, however scans
\* interleave and whatever is killed: the script's exit code is ASTF's or
\* not 0 (security_scan.sh:43-54).
THEOREM CleanBill == Spec => []CleanBillIsGenuine
<1>1. Inv => CleanBillIsGenuine
  BY DEF Inv, ScanOk, CleanBillIsGenuine
<1>. QED BY <1>1, Invariance, PTL

\* Scans that were never under way together are each answered for a report of
\* their own: the old one is removed before ASTF begins (security_scan.sh:28-54).
THEOREM SerialSuccess == Spec => []SerialSuccessIsOwn
<1>1. Inv => SerialSuccessIsOwn
  BY DEF Inv, Serial, SerialOk, SerialSuccessIsOwn
<1>. QED BY <1>1, Invariance, PTL

\* Nor is a download that failed or was killed ever taken for the jar.
THEOREM SerialJar == Spec => []SerialJarIsWhole
<1>1. Inv => SerialJarIsWhole
  BY DEF Inv, Serial, JarOk, SerialJarIsWhole
<1>. QED BY <1>1, Invariance, PTL
=============================================================================
