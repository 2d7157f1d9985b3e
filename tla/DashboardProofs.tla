-------------------------- MODULE DashboardProofs ---------------------------
(***************************************************************************)
(* What holds of the dashboard's session for any number of tokens, users   *)
(* and fetches of the report.                                              *)
(***************************************************************************)
EXTENDS Dashboard, TLAPS

\* A call that has not been cut was sent with the token t.
OfSession(c, t) == c # Nothing /\ ~c.cut => c.by = t

CallsOfSession ==
    /\ OfSession(restore, token) /\ OfSession(load, token) /\ OfSession(scan, token)
    /\ \A r \in Reports : OfSession(report[r], token)

\* As long as no two fetches have overlapped, the button is that of the one fetch
\* under way, or of none.
ButtonOfFetch ==
    ~nested =>
        /\ \A r, q \in Reports : r # q => report[r] = Nothing \/ report[q] = Nothing
        /\ button = IF \E r \in Reports : report[r] # Nothing THEN Busy(Enabled) ELSE Enabled

\* The inductive invariant.
Inv ==
    /\ TypeOK /\ CallsOfSession /\ ButtonOfFetch
    /\ ShownForTheToken /\ ReportIsOfTheSession /\ NoUrlLeaks

-----------------------------------------------------------------------------
(* Calls.                                                                    *)

LEMMA CallShape ==
    /\ Nothing \in Call
    /\ \A c \in Call : c # Nothing => c.by \in Tokens /\ c.cut \in BOOLEAN /\ c.by # Nobody
    /\ \A t \in Tokens : /\ [by |-> t, cut |-> FALSE] \in Call
                         /\ [by |-> t, cut |-> FALSE] # Nothing
                         /\ OfSession([by |-> t, cut |-> FALSE], t)
BY NobodyAssumption DEF Call, Nothing, OfSession

LEMMA CutShape ==
    ASSUME NEW c \in Call
    PROVE  Cut(c) \in Call /\ (Cut(c) = Nothing <=> c = Nothing) /\ \A t : OfSession(Cut(c), t)
<1>1. CASE c = Nothing
  BY <1>1 DEF Cut, OfSession, Call
<1>2. CASE c # Nothing
  <2>1. c \in [by : Tokens, cut : BOOLEAN]
    BY <1>2 DEF Call
  <2>2. /\ Cut(c) = [c EXCEPT !.cut = TRUE] /\ Cut(c) \in [by : Tokens, cut : BOOLEAN]
        /\ Cut(c).cut = TRUE /\ Cut(c).by \in Tokens
    BY <1>2, <2>1 DEF Cut
  <2>3. Cut(c) # Nothing
    BY <2>2, NobodyAssumption DEF Nothing
  <2>. QED BY <1>2, <2>2, <2>3 DEF Call, OfSession
<1>. QED BY <1>1, <1>2

\* What a step does to a call: it ends, is cut, is sent, or stays while the
\* session does.
Follows(c, d) ==
    \/ d = Nothing
    \/ d = Cut(c)
    \/ token' \in Tokens /\ d = [by |-> token', cut |-> FALSE]
    \/ d = c /\ token' = token

LEMMA CallFollows ==
    ASSUME NEW c \in Call, OfSession(c, token), NEW d, Follows(c, d)
    PROVE  d \in Call /\ OfSession(d, token')
<1>1. CASE d = Nothing
  BY <1>1, CallShape DEF OfSession
<1>2. CASE d = Cut(c)
  BY <1>2, CutShape
<1>3. CASE token' \in Tokens /\ d = [by |-> token', cut |-> FALSE]
  BY <1>3, CallShape
<1>4. CASE d = c /\ token' = token
  BY <1>4
<1>. QED BY <1>1, <1>2, <1>3, <1>4 DEF Follows

LEMMA Types ==
    ASSUME Inv
    PROVE  /\ token \in Tokens \cup {Nobody} /\ token \in used \cup {Nobody}
           /\ user \in Users \cup {Nobody}
           /\ restore \in Call /\ load \in Call /\ scan \in Call /\ html \in Call
           /\ report \in [Reports -> Call]
           /\ used \subseteq Tokens /\ denied \subseteq {"load", "scan"} /\ form \subseteq Forms
           /\ url \in BOOLEAN /\ live \in Nat /\ blank \in BOOLEAN
           /\ late \in BOOLEAN /\ replaced \in BOOLEAN /\ nested \in BOOLEAN
BY DEF Inv, TypeOK, ghosts

LEMMA ViewDataFollows ==
    ASSUME NEW t \in Tokens \cup {Nobody}, token' = t, NEW c \in Call,
           NEW before \in {c, Cut(c)}, before = c => token' = token, ViewData(t, before)
    PROVE  Follows(c, load')
BY NobodyAssumption DEF ViewData, Follows

LEMMA RestoringFollows ==
    ASSUME Inv, token' = token
    PROVE  Follows(restore, Restoring(token))
BY Types DEF Restoring, Follows

\* How each step treats the calls, the token and the user.
SessionStep ==
    /\ token' \in Tokens \cup {Nobody}
    /\ Follows(restore, restore') /\ Follows(load, load') /\ Follows(scan, scan')
    /\ \A r \in Reports : Follows(report[r], report'[r])
    /\ report' = [r \in Reports |-> report'[r]]

Ends == SignOut \/ RestoreFails \/ LoadRefused \/ ScanRefused

LEMMA CallsStep == Inv /\ [Next]_vars => SessionStep
<1> SUFFICES ASSUME Inv, [Next]_vars PROVE SessionStep
  OBVIOUS
<1>1. /\ token \in Tokens \cup {Nobody}
      /\ restore \in Call /\ load \in Call /\ scan \in Call /\ report \in [Reports -> Call]
  BY Types
<1>2. ASSUME UNCHANGED <<token, restore, load, scan, report>>
      PROVE  SessionStep
  BY <1>1, <1>2 DEF SessionStep, Follows
<1>3. CASE \/ Themed \/ UNCHANGED vars
           \/ \E f \in Forms : Submit(f) \/ SignInFails(f)
           \/ \E k \in {"load", "scan"} : Refuses(k)
  BY <1>2, <1>3 DEF Themed, Submit, SignInFails, Refuses, calls, vars
<1>4. CASE Reload
  <2>1. /\ token' = token /\ restore' = Restoring(token) /\ load' = Nothing /\ scan' = Nothing
        /\ report' = None
    BY <1>4 DEF Reload
  <2>2. report' = [r \in Reports |-> report'[r]] /\ \A r \in Reports : report'[r] = Nothing
    BY <2>1 DEF None
  <2>. QED BY <1>1, <2>1, <2>2, RestoringFollows DEF SessionStep, Follows
<1>5. CASE Ends
  <2>1. /\ token' = Nobody /\ restore' \in {Nothing, Cut(restore)} /\ load' \in {Nothing, Cut(load)}
        /\ scan' \in {Nothing, Cut(scan)} /\ report' = [r \in Reports |-> Cut(report[r])]
    BY <1>5 DEF Ends, SignOut, RestoreFails, LoadRefused, ScanRefused, ClearSession
  <2>. QED BY <2>1 DEF SessionStep, Follows
<1>6. ASSUME NEW f \in Forms, SignedIn(f)
      PROVE  SessionStep
  <2>1. PICK t \in Tokens : token' = t /\ ViewData(t, Cut(load))
    BY <1>6 DEF SignedIn, Signed
  <2>2. Follows(load, load')
    <3>1. Cut(load) = load => load = Nothing \/ load.cut
      BY <1>1 DEF Cut, Call
    <3>. QED BY <1>1, <2>1, NobodyAssumption DEF ViewData, Follows
  <2>. QED BY <1>6, <2>1, <2>2 DEF SignedIn, SessionStep, Follows
<1>7. CASE Restored
  BY <1>1, <1>7, ViewDataFollows DEF Restored, SessionStep, Follows
<1>8. CASE ShowView
  BY <1>1, <1>8, ViewDataFollows DEF ShowView, SessionStep, Follows
<1>9. CASE StartScan \/ LoadEnds
  BY <1>1, <1>9 DEF StartScan, LoadEnds, Sent, SessionStep, Follows
<1>10. ASSUME NEW r \in Reports, token \in Tokens, token' = token, Fetch(r)
       PROVE  /\ \A q \in Reports : Follows(report[q], report'[q])
              /\ report' = [q \in Reports |-> report'[q]]
  BY <1>1, <1>10 DEF Fetch, Sent, Follows
<1>11. CASE ScanEnds
  <2>1. /\ UNCHANGED <<token, restore, load>> /\ scan' = Nothing
        /\ \/ token # Nobody /\ \E r \in Reports : Fetch(r)
           \/ UNCHANGED report
    BY <1>11 DEF ScanEnds
  <2>. QED BY <1>1, <1>10, <2>1 DEF SessionStep, Follows
<1>12. ASSUME NEW r \in Reports, OpenReport(r)
       PROVE  SessionStep
  BY <1>1, <1>10, <1>12 DEF OpenReport, SessionStep, Follows
<1>13. ASSUME NEW r \in Reports, ReportShown(r) \/ ReportFails(r)
       PROVE  SessionStep
  BY <1>1, <1>13 DEF ReportShown, ReportFails, SessionStep, Follows
<1>. QED
  BY <1>3, <1>4, <1>5, <1>6, <1>7, <1>8, <1>9, <1>11, <1>12, <1>13 DEF Next, Ends
-----------------------------------------------------------------------------
(* The user and the tokens.                                                  *)

LEMMA OwnerIsUser == \A t \in Tokens : Owner[t] \in Users /\ Owner[t] # Nobody
BY NobodyAssumption DEF Users

UserTypes ==
    /\ token \in used \cup {Nobody} /\ user \in Users \cup {Nobody}
    /\ used \subseteq Tokens /\ denied \subseteq {"load", "scan"} /\ form \subseteq Forms
    /\ late \in BOOLEAN

LEMMA UserStep ==
    ASSUME Inv, [Next]_vars
    PROVE  UserTypes' /\ ShownForTheToken'
<1>1. UserTypes /\ ShownForTheToken
  BY Types DEF UserTypes, Inv
<1>2. ASSUME UNCHANGED <<token, user, late, used>>, denied' \subseteq {"load", "scan"},
             form' \subseteq Forms
      PROVE  UserTypes' /\ ShownForTheToken'
  BY <1>1, <1>2 DEF UserTypes, ShownForTheToken
<1>3. CASE \/ Themed \/ ShowView \/ StartScan \/ LoadEnds \/ ScanEnds \/ UNCHANGED vars
           \/ \E r \in Reports : OpenReport(r) \/ ReportShown(r) \/ ReportFails(r)
           \/ \E f \in Forms : Submit(f) \/ SignInFails(f)
           \/ \E k \in {"load", "scan"} : Refuses(k)
  <2>1. UNCHANGED <<token, user, late, used>>
    BY <1>3 DEF Themed, ShowView, StartScan, LoadEnds, ScanEnds, OpenReport, ReportShown, ReportFails,
                Submit, SignInFails, Refuses, ghosts, vars
  <2>2. denied' \subseteq {"load", "scan"}
    BY <1>1, <1>3 DEF Themed, ShowView, StartScan, LoadEnds, ScanEnds, OpenReport, ReportShown,
                ReportFails, Submit, SignInFails, Refuses, vars, UserTypes
  <2>3. form' \subseteq Forms
    BY <1>1, <1>3 DEF Themed, ShowView, StartScan, LoadEnds, ScanEnds, OpenReport, ReportShown,
                ReportFails, Submit, SignInFails, Refuses, calls, vars, UserTypes
  <2>. QED BY <1>2, <2>1, <2>2, <2>3
<1>4. CASE Reload
  BY <1>1, <1>4 DEF Reload, UserTypes, ShownForTheToken
<1>5. CASE Ends
  <2>1. /\ token' = Nobody /\ user' = Nobody /\ late' = FALSE
        /\ denied' \subseteq denied /\ UNCHANGED <<used, form>>
    BY <1>5 DEF Ends, SignOut, RestoreFails, LoadRefused, ScanRefused, ClearSession
  <2>. QED BY <1>1, <2>1 DEF UserTypes, ShownForTheToken
<1>6. ASSUME NEW f \in Forms, SignedIn(f)
      PROVE  UserTypes' /\ ShownForTheToken'
  <2>1. PICK t \in Tokens \ used : token' = t /\ user' = Owner[t] /\ used' = used \cup {t}
    BY <1>6 DEF SignedIn, Signed
  <2>2. late' = FALSE /\ denied' = denied /\ form' = form \ {f}
    BY <1>6 DEF SignedIn
  <2>. QED BY <1>1, <2>1, <2>2, OwnerIsUser, NobodyAssumption DEF UserTypes, ShownForTheToken
<1>7. CASE Restored
  <2>1. /\ restore # Nothing /\ user' = Owner[restore.by] /\ late' = restore.cut
        /\ UNCHANGED <<token, used, denied, form>>
    BY <1>7 DEF Restored
  <2>2. restore.by \in Tokens /\ restore.cut \in BOOLEAN
    BY <2>1, Types, CallShape
  <2>3. ~restore.cut => restore.by = token
    BY <2>1 DEF Inv, CallsOfSession, OfSession
  <2>4. late' \in BOOLEAN
    BY <2>1, <2>2
  <2>5. UserTypes'
    BY <1>1, <2>1, <2>2, <2>4, OwnerIsUser DEF UserTypes
  <2>6. ShownForTheToken'
    BY <2>1, <2>2, <2>3, NobodyAssumption DEF ShownForTheToken
  <2>. QED BY <2>5, <2>6
<1>. QED BY <1>3, <1>4, <1>5, <1>6, <1>7 DEF Next, Ends

-----------------------------------------------------------------------------
(* The report on the page.                                                   *)

FrameOk == html \in Call /\ url \in BOOLEAN /\ live \in Nat /\ blank \in BOOLEAN /\ NoUrlLeaks

LEMMA RevokedAll == FrameOk => Revoked(live) = 0
<1>1. ASSUME FrameOk, url PROVE Revoked(live) = 0
  BY <1>1 DEF FrameOk, NoUrlLeaks, Revoked
<1>2. ASSUME FrameOk, ~url PROVE Revoked(live) = 0
  BY <1>2 DEF FrameOk, NoUrlLeaks, Revoked
<1>. QED BY <1>1, <1>2

LEMMA FrameRender ==
    ASSUME FrameOk, Render, html' \in Call, html' # Nothing
    PROVE  FrameOk'
<1>1. live' = 1 /\ url' = TRUE /\ blank' = FALSE
  BY RevokedAll DEF Render
<1>2. live' = IF url' THEN 1 ELSE 0
  BY <1>1
<1>3. html' # Nothing => url'
  BY <1>1
<1>4. NoUrlLeaks'
  BY <1>2, <1>3 DEF NoUrlLeaks
<1>5. url' \in BOOLEAN /\ live' \in Nat /\ blank' \in BOOLEAN
  BY <1>1
<1>. QED BY <1>4, <1>5 DEF FrameOk

LEMMA FrameClose ==
    ASSUME FrameOk, Close
    PROVE  FrameOk'
<1>1. live' = 0 /\ url' = FALSE /\ html' = Nothing /\ blank' = FALSE
  BY RevokedAll DEF Close
<1>2. live' = IF url' THEN 1 ELSE 0
  BY <1>1
<1>3. ~url' /\ html' = Nothing
  BY <1>1
<1>4. NoUrlLeaks'
  BY <1>2, <1>3 DEF NoUrlLeaks
<1>5. url' \in BOOLEAN /\ live' \in Nat /\ blank' \in BOOLEAN
  BY <1>1
<1>. QED BY <1>3, <1>4, <1>5, CallShape DEF FrameOk

\* The steps that touch the report, or begin a session on top of one.
FrameChanges ==
    \/ Reload \/ Themed \/ Ends \/ StartScan
    \/ \E r \in Reports : ReportShown(r)
    \/ \E f \in Forms : SignedIn(f)

LEMMA FrameRest ==
    ASSUME Inv, [Next]_vars, ~FrameChanges
    PROVE  UNCHANGED <<html, url, live, blank, token, replaced>>
<1>1. CASE \/ Restored \/ ShowView \/ LoadEnds \/ ScanEnds \/ UNCHANGED vars
  BY <1>1 DEF Restored, ShowView, LoadEnds, ScanEnds, ghosts, frame, vars
<1>2. CASE \/ \E r \in Reports : OpenReport(r) \/ ReportFails(r)
           \/ \E f \in Forms : Submit(f) \/ SignInFails(f)
           \/ \E k \in {"load", "scan"} : Refuses(k)
  BY <1>2 DEF OpenReport, ReportFails, Submit, SignInFails, Refuses, ghosts, frame
<1>. QED BY <1>1, <1>2 DEF Next, FrameChanges, Ends

LEMMA FrameStep ==
    ASSUME Inv, [Next]_vars
    PROVE  FrameOk' /\ ReportIsOfTheSession' /\ replaced' \in BOOLEAN
<1>1. FrameOk /\ ReportIsOfTheSession /\ replaced \in BOOLEAN /\ report \in [Reports -> Call]
  BY Types DEF FrameOk, Inv
<1>2. CASE Reload
  BY <1>2, CallShape DEF Reload, FrameOk, NoUrlLeaks, ReportIsOfTheSession
<1>3. CASE Themed
  <2>1. html # Nothing /\ Render /\ UNCHANGED <<html, token, replaced>>
    BY <1>3 DEF Themed, ghosts
  <2>2. FrameOk'
    BY <1>1, <2>1, FrameRender DEF FrameOk
  <2>. QED BY <1>1, <2>1, <2>2 DEF ReportIsOfTheSession
<1>4. CASE Ends \/ StartScan
  <2>1. Close /\ replaced' = replaced
    BY <1>4 DEF Ends, SignOut, RestoreFails, LoadRefused, ScanRefused, ClearSession, StartScan, ghosts
  <2>2. html' = Nothing
    BY <2>1 DEF Close
  <2>. QED BY <1>1, <2>1, <2>2, FrameClose DEF ReportIsOfTheSession
<1>5. ASSUME NEW r \in Reports, ReportShown(r)
      PROVE  FrameOk' /\ ReportIsOfTheSession' /\ replaced' \in BOOLEAN
  <2>1. report[r] # Nothing /\ UNCHANGED <<token, replaced>>
    BY <1>5 DEF ReportShown, ghosts
  <2>2. CASE html' = report[r] /\ Render
    <3>1. FrameOk'
      BY <1>1, <2>1, <2>2, FrameRender
    <3>2. OfSession(report[r], token)
      BY DEF Inv, CallsOfSession
    <3>. QED BY <1>1, <2>1, <2>2, <3>1, <3>2 DEF ReportIsOfTheSession, OfSession
  <2>3. CASE html' = Nothing /\ blank' = TRUE /\ UNCHANGED <<url, live>>
    <3>1. FrameOk'
      BY <1>1, <2>3, CallShape DEF FrameOk, NoUrlLeaks
    <3>. QED BY <1>1, <2>1, <2>3, <3>1 DEF ReportIsOfTheSession
  <2>. QED BY <1>5, <2>2, <2>3 DEF ReportShown
<1>6. ASSUME NEW f \in Forms, SignedIn(f)
      PROVE  FrameOk' /\ ReportIsOfTheSession' /\ replaced' \in BOOLEAN
  <2>1. UNCHANGED <<html, url, live, blank>> /\ replaced' = (replaced \/ token # Nobody)
    BY <1>6 DEF SignedIn, frame
  <2>2. FrameOk'
    BY <1>1, <2>1 DEF FrameOk, NoUrlLeaks
  <2>3. replaced' \in BOOLEAN
    BY <2>1
  <2>4. ASSUME html' # Nothing, ~html'.cut, ~replaced'
        PROVE  FALSE
    <3>1. html.by = token /\ token = Nobody
      BY <1>1, <2>1, <2>4 DEF ReportIsOfTheSession
    <3>. QED BY <1>1, <2>1, <2>4, <3>1, CallShape DEF FrameOk
  <2>. QED BY <2>2, <2>3, <2>4 DEF ReportIsOfTheSession
<1>7. CASE ~FrameChanges
  <2>1. UNCHANGED <<html, url, live, blank, token, replaced>>
    BY <1>7, FrameRest
  <2>. QED BY <1>1, <2>1 DEF FrameOk, NoUrlLeaks, ReportIsOfTheSession
<1>. QED BY <1>2, <1>3, <1>4, <1>5, <1>6, <1>7 DEF FrameChanges
-----------------------------------------------------------------------------
(* The button of the report.                                                 *)

Buttons == [text : {"open", "loading"}, idle : {"open", "loading"}, disabled : BOOLEAN]

LEMMA ButtonShapes ==
    /\ Enabled \in Buttons /\ Enabled.text = "open" /\ ~Enabled.disabled
    /\ \A b \in Buttons : Busy(b) \in Buttons /\ Idle(b) \in Buttons
    /\ Idle(Busy(Enabled)) = Enabled
<1>1. Enabled \in Buttons /\ Enabled.text = "open" /\ Enabled.disabled = FALSE
  BY DEF Buttons, Enabled
<1>2. ASSUME NEW b \in Buttons
      PROVE  Busy(b) \in Buttons
  BY DEF Buttons, Busy
<1>3. ASSUME NEW b \in Buttons
      PROVE  Idle(b) \in Buttons
  <2>1. b.idle \in {"open", "loading"} /\ FALSE \in BOOLEAN
    BY DEF Buttons
  <2>. QED BY <2>1 DEF Buttons, Idle
<1>4. Idle(Busy(Enabled)) = Enabled
  <2> DEFINE b == Busy(Enabled)
  <2>1. b \in Buttons /\ b.text = "loading" /\ b.idle = "open"
    BY <1>1, <1>2 DEF Busy
  <2> HIDE DEF b
  <2>2. Idle(b) \in Buttons /\ Idle(b).text = "open" /\ Idle(b).idle = "open" /\ Idle(b).disabled = FALSE
    BY <1>3, <2>1 DEF Idle, Buttons
  <2>3. \A c, d \in Buttons :
          c.text = d.text /\ c.idle = d.idle /\ c.disabled = d.disabled => c = d
    BY DEF Buttons
  <2>. QED BY <1>1, <2>2, <2>3 DEF b, Enabled
<1>. QED BY <1>1, <1>2, <1>3, <1>4

ButtonOk == button \in Buttons /\ nested \in BOOLEAN /\ ButtonOfFetch

LEMMA FetchButton ==
    ASSUME Inv, NEW r \in Reports, Fetch(r), token \in Tokens
    PROVE  ButtonOk'
<1>1. /\ report \in [Reports -> Call] /\ report[r] = Nothing
      /\ report' = [report EXCEPT ![r] = Sent] /\ button' = Busy(button)
      /\ nested' = (nested \/ \E q \in Reports : report[q] # Nothing)
  BY Types DEF Fetch
<1>2. button \in Buttons /\ nested \in BOOLEAN
  BY Types DEF Inv, TypeOK, Buttons
<1>3. Sent # Nothing
  BY CallShape DEF Sent
<1>4. ASSUME ~nested'
      PROVE  /\ \A p, q \in Reports : p # q => report'[p] = Nothing \/ report'[q] = Nothing
             /\ button' = IF \E q \in Reports : report'[q] # Nothing THEN Busy(Enabled) ELSE Enabled
  <2>1. ~nested /\ \A q \in Reports : report[q] = Nothing
    BY <1>1, <1>4
  <2>2. button = Enabled
    BY <2>1 DEF Inv, ButtonOfFetch
  <2>3. report'[r] # Nothing /\ \A q \in Reports : q # r => report'[q] = Nothing
    BY <1>1, <1>3, <2>1
  <2>. QED BY <1>1, <2>2, <2>3
<1>5. nested' \in BOOLEAN
  BY <1>1
<1>6. button' \in Buttons
  BY <1>1, <1>2, ButtonShapes
<1>. QED BY <1>4, <1>5, <1>6 DEF ButtonOk, ButtonOfFetch

LEMMA ReportButton ==
    ASSUME Inv, NEW r \in Reports, ReportShown(r) \/ ReportFails(r)
    PROVE  ButtonOk'
<1>1. /\ report \in [Reports -> Call] /\ report[r] # Nothing
      /\ report' = [report EXCEPT ![r] = Nothing] /\ button' = Idle(button) /\ nested' = nested
  BY Types DEF ReportShown, ReportFails, ghosts
<1>2. button \in Buttons /\ nested \in BOOLEAN
  BY Types DEF Inv, TypeOK, Buttons
<1>3. ASSUME ~nested
      PROVE  /\ \A p, q \in Reports : p # q => report'[p] = Nothing \/ report'[q] = Nothing
             /\ button' = IF \E q \in Reports : report'[q] # Nothing THEN Busy(Enabled) ELSE Enabled
  <2>1. \A q \in Reports : report'[q] = Nothing
    BY <1>1, <1>3 DEF Inv, ButtonOfFetch
  <2>2. button = Busy(Enabled)
    BY <1>1, <1>3 DEF Inv, ButtonOfFetch
  <2>. QED BY <1>1, <2>1, <2>2, ButtonShapes
<1>4. button' \in Buttons /\ nested' \in BOOLEAN
  BY <1>1, <1>2, ButtonShapes
<1>. QED BY <1>1, <1>3, <1>4 DEF ButtonOk, ButtonOfFetch

LEMMA ButtonStep ==
    ASSUME Inv, [Next]_vars
    PROVE  ButtonOk'
<1>1. ButtonOk /\ report \in [Reports -> Call] /\ token \in Tokens \cup {Nobody}
  BY Types DEF ButtonOk, Inv, TypeOK, Buttons
<1>2. ASSUME UNCHANGED <<button, nested>>,
             \A r \in Reports : report'[r] = Nothing <=> report[r] = Nothing
      PROVE  ButtonOk'
  BY <1>1, <1>2 DEF ButtonOk, ButtonOfFetch
<1>3. CASE Reload
  <2>1. report' = None /\ button' = Enabled /\ nested' = FALSE
    BY <1>3 DEF Reload
  <2>2. \A r \in Reports : report'[r] = Nothing
    BY <2>1 DEF None
  <2>. QED BY <2>1, <2>2, ButtonShapes DEF ButtonOk, ButtonOfFetch
<1>4. CASE Ends \/ \E f \in Forms : SignedIn(f)
  <2>1. UNCHANGED <<button, nested>> /\ report' = [r \in Reports |-> Cut(report[r])]
    BY <1>4 DEF Ends, SignOut, RestoreFails, LoadRefused, ScanRefused, SignedIn
  <2>2. \A r \in Reports : report'[r] = Nothing <=> report[r] = Nothing
    BY <1>1, <2>1, CutShape
  <2>. QED BY <1>2, <2>1, <2>2
<1>5. CASE \/ Restored \/ ShowView \/ LoadEnds \/ StartScan \/ Themed \/ UNCHANGED vars
           \/ \E f \in Forms : Submit(f) \/ SignInFails(f)
           \/ \E k \in {"load", "scan"} : Refuses(k)
  <2>1. UNCHANGED <<button, nested, report>>
    BY <1>5 DEF Restored, ShowView, LoadEnds, StartScan, Themed, Submit, SignInFails, Refuses,
                ghosts, calls, vars
  <2>. QED BY <1>2, <2>1
<1>6. CASE ScanEnds
  <2>1. \/ token \in Tokens /\ \E r \in Reports : Fetch(r)
        \/ UNCHANGED <<report, button, nested>>
    BY <1>1, <1>6 DEF ScanEnds
  <2>. QED BY <1>2, <2>1, FetchButton
<1>7. ASSUME NEW r \in Reports, OpenReport(r)
      PROVE  ButtonOk'
  BY <1>1, <1>7, FetchButton DEF OpenReport
<1>. QED BY <1>3, <1>4, <1>5, <1>6, <1>7, ReportButton DEF Next, Ends

-----------------------------------------------------------------------------
(* The invariant is inductive.                                               *)

LEMMA InvInit == Init => Inv
<1> SUFFICES ASSUME Init PROVE Inv
  OBVIOUS
<1>1. /\ token \in Tokens \cup {Nobody} /\ user = Nobody /\ used = {token} \ {Nobody} /\ denied = {}
      /\ form = {} /\ load = Nothing /\ scan = Nothing /\ restore = Restoring(token)
      /\ html = Nothing /\ url = FALSE /\ live = 0 /\ blank = FALSE /\ button = Enabled
      /\ late = FALSE /\ replaced = FALSE /\ nested = FALSE
      /\ report = [r \in Reports |-> Nothing]
  BY DEF Init, None
<1>2. restore \in Call /\ OfSession(restore, token)
  BY <1>1, CallShape DEF Restoring, OfSession
<1>3. report \in [Reports -> Call] /\ \A r \in Reports : report[r] = Nothing
  BY <1>1, CallShape
<1>4. UserTypes
  BY <1>1 DEF UserTypes
<1>5. FrameOk
  BY <1>1, CallShape DEF FrameOk, NoUrlLeaks
<1>6. ButtonOk
  BY <1>1, <1>3, ButtonShapes DEF ButtonOk, ButtonOfFetch
<1>7. TypeOK
  BY <1>1, <1>2, <1>3, <1>4, <1>5, <1>6, CallShape
     DEF UserTypes, FrameOk, ButtonOk, Buttons, TypeOK, ghosts
<1>8. CallsOfSession
  BY <1>1, <1>2, <1>3 DEF CallsOfSession, OfSession
<1>9. ShownForTheToken /\ ReportIsOfTheSession
  BY <1>1 DEF ShownForTheToken, ReportIsOfTheSession
<1>. QED BY <1>5, <1>6, <1>7, <1>8, <1>9 DEF Inv, FrameOk, ButtonOk

LEMMA InvStep == Inv /\ [Next]_vars => Inv'
<1> SUFFICES ASSUME Inv, [Next]_vars PROVE Inv'
  OBVIOUS
<1>1. SessionStep
  BY CallsStep
<1>2. /\ OfSession(restore, token) /\ OfSession(load, token) /\ OfSession(scan, token)
      /\ \A r \in Reports : OfSession(report[r], token)
      /\ restore \in Call /\ load \in Call /\ scan \in Call /\ report \in [Reports -> Call]
  BY Types DEF Inv, CallsOfSession
<1>3. /\ restore' \in Call /\ OfSession(restore', token')
      /\ load' \in Call /\ OfSession(load', token')
      /\ scan' \in Call /\ OfSession(scan', token')
  BY <1>1, <1>2, CallFollows DEF SessionStep
<1>4. \A r \in Reports : report'[r] \in Call /\ OfSession(report'[r], token')
  BY <1>1, <1>2, CallFollows DEF SessionStep
<1>5. report' \in [Reports -> Call]
  BY <1>1, <1>4 DEF SessionStep
<1>6. CallsOfSession'
  BY <1>3, <1>4 DEF CallsOfSession, OfSession
<1>7. TypeOK'
  BY <1>3, <1>5, UserStep, FrameStep, ButtonStep
     DEF UserTypes, FrameOk, ButtonOk, Buttons, TypeOK, ghosts
<1>. QED BY <1>6, <1>7, UserStep, FrameStep, ButtonStep DEF Inv, FrameOk, ButtonOk

\* The inductive invariant of the session holds in every state (app.js).
THEOREM Invariance == Spec => []Inv
<1>1. Init => Inv
  BY InvInit
<1>2. Inv /\ [Next]_vars => Inv'
  BY InvStep
<1>. QED BY <1>1, <1>2, PTL DEF Spec

-----------------------------------------------------------------------------
\* The session's variables keep their types (app.js).
THEOREM TypeCorrectness == Spec => []TypeOK
<1>1. Inv => TypeOK
  BY DEF Inv
<1>. QED BY <1>1, Invariance, PTL

\* Pages are shown for the user of the current token only, but for a late profile
\* (app.js:321-330, 348-371).
THEOREM ShownUser == Spec => []ShownForTheToken
<1>1. Inv => ShownForTheToken
  BY DEF Inv
<1>. QED BY <1>1, Invariance, PTL

\* The report on the page is of the session in view, unless it came late or another
\* login replaced the session (app.js:313-319, 1067-1117).
THEOREM ReportOwner == Spec => []ReportIsOfTheSession
<1>1. Inv => ReportIsOfTheSession
  BY DEF Inv
<1>. QED BY <1>1, Invariance, PTL

\* At most one object URL exists, a report that is displayed has it, and only an
\* empty report leaves one behind for a while (app.js:1045-1065, 1087-1117).
THEOREM UrlsRevoked == Spec => []NoUrlLeaks
<1>1. Inv => NoUrlLeaks
  BY DEF Inv
<1>. QED BY <1>1, Invariance, PTL

\* Fetches that do not overlap give the button back (app.js:162-174, 1067-1099).
THEOREM ButtonReturns == Spec => []ButtonComesBack
<1>1. Inv => ButtonComesBack
  BY ButtonShapes DEF Inv, ButtonOfFetch, ButtonComesBack
<1>. QED BY <1>1, Invariance, PTL

\* What can end a session, of which the server may still accept the token
\* (app.js:118-122, 321-330; routers.py:141-152).
THEOREM SessionEnds == Spec => SessionsEndForAReason
<1> DEFINE Excused ==
        token # Nobody /\ token' = Nobody =>
            \/ SignOut
            \/ restore # Nothing /\ restore' = Nothing
            \/ \E k \in denied \ denied' : Waited(k).by = token \/ Waited(k).cut
<1>1. ASSUME Inv, [Next]_vars, token # Nobody, token' = Nobody
      PROVE  Excused
  <2>1. Ends
    <3>1. CASE \/ Reload \/ Themed \/ Restored \/ ShowView \/ StartScan \/ LoadEnds \/ ScanEnds
               \/ UNCHANGED vars
               \/ \E r \in Reports : OpenReport(r) \/ ReportShown(r) \/ ReportFails(r)
               \/ \E f \in Forms : Submit(f) \/ SignInFails(f)
               \/ \E k \in {"load", "scan"} : Refuses(k)
      BY <1>1, <3>1 DEF Reload, Themed, Restored, ShowView, StartScan, LoadEnds, ScanEnds, OpenReport,
                        ReportShown, ReportFails, Submit, SignInFails, Refuses, vars
    <3>2. ASSUME NEW f \in Forms, SignedIn(f)
          PROVE  FALSE
      BY <1>1, <3>2, NobodyAssumption DEF SignedIn, Signed
    <3>. QED BY <1>1, <3>1, <3>2 DEF Next, Ends
  <2>2. /\ OfSession(load, token) /\ load \in Call /\ OfSession(scan, token) /\ scan \in Call
    BY <1>1, Types DEF Inv, CallsOfSession
  <2>3. CASE LoadRefused
    <3>1. load # Nothing /\ "load" \in denied \ denied' /\ Waited("load") = load
      BY <2>3 DEF LoadRefused, Unauthorized, Waited
    <3>2. load.by = token \/ load.cut
      BY <2>2, <3>1, CallShape DEF OfSession
    <3>. QED BY <3>1, <3>2
  <2>4. CASE ScanRefused
    <3>1. scan # Nothing /\ "scan" \in denied \ denied' /\ Waited("scan") = scan
      BY <2>4 DEF ScanRefused, Unauthorized, Waited
    <3>2. scan.by = token \/ scan.cut
      BY <2>2, <3>1, CallShape DEF OfSession
    <3>. QED BY <3>1, <3>2
  <2>5. CASE SignOut \/ RestoreFails
    BY <2>5 DEF RestoreFails
  <2>. QED BY <2>1, <2>3, <2>4, <2>5 DEF Ends
<1>2. Inv /\ [Next]_vars => Excused
  BY <1>1
<1>3. Inv /\ [Next]_vars => [Excused]_vars
  BY <1>2
<1>. QED BY <1>3, Invariance, PTL DEF Spec, SessionsEndForAReason
=============================================================================
