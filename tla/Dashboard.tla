------------------------------ MODULE Dashboard ------------------------------
(***************************************************************************)
(* The session of the dashboard (frontend/dist/app.js): the token and the  *)
(* user it shows, the calls it is waiting for, and the security report it  *)
(* displays.  The script runs one handler at a time up to its next await;  *)
(* the answers come in any order, and the operator goes on meanwhile.      *)
(*                                                                         *)
(* A call that is waited for is [by |-> the token it was sent with,        *)
(* cut |-> the session has begun or ended since].  One tab is modelled,    *)
(* and a localStorage that works: it holds what state.token holds.         *)
(***************************************************************************)
EXTENDS Naturals, FiniteSets

CONSTANTS
    Tokens,    \* the tokens the server hands out, one for each login
    Owner,     \* the user of each token
    Reports,   \* fetches of the report that may be under way at once
    Nobody     \* null

ASSUME NobodyAssumption == Nobody \notin Tokens /\ \A t \in Tokens : Owner[t] # Nobody

VARIABLES
    token,     \* state.token, and localStorage
    user,      \* state.user: whom the pages are shown for
    used,      \* tokens that have been handed out
    denied,    \* the calls whose answer, on its way, is a 401
    form,      \* which of the two forms wait for a login
    restore,   \* the profile call of restoreSession
    load,      \* an authenticated call of a page
    scan,      \* the call of handleSecurityScan
    report,    \* the fetches of openSecurityReport
    html,      \* state.securityReportHtml: the call that brought it
    url,       \* there is a state.securityReportUrl
    live,      \* object URLs that have been created and not revoked
    button,    \* the button of the report
    blank,     \* ghost: an empty report has come and the frame has not changed since
    late,      \* ghost: user was set by a call that had been cut
    replaced,  \* ghost: a login was answered while there was a session
    nested     \* ghost: two fetches of the report were under way at once

calls == <<form, restore, load, scan, report>>
frame == <<html, url, live, blank>>
ghosts == <<late, replaced, nested>>
vars == <<token, user, used, denied, calls, frame, button, ghosts>>

Nothing == [by |-> Nobody, cut |-> FALSE]
Call == [by : Tokens, cut : BOOLEAN] \cup {Nothing}
Forms == {"login", "register"}
Users == {Owner[t] : t \in Tokens}

TypeOK ==
    /\ {token} \subseteq used \cup {Nobody} /\ user \in Users \cup {Nobody}
    /\ used \subseteq Tokens /\ denied \subseteq {"load", "scan"}
    /\ form \subseteq Forms
    /\ {restore, load, scan, html} \subseteq Call /\ report \in [Reports -> Call]
    /\ url \in BOOLEAN /\ live \in Nat /\ blank \in BOOLEAN
    /\ button \in [text : {"open", "loading"}, idle : {"open", "loading"}, disabled : BOOLEAN]
    /\ ghosts \in BOOLEAN \X BOOLEAN \X BOOLEAN

Sent == [by |-> token, cut |-> FALSE]
Cut(c) == IF c = Nothing THEN c ELSE [c EXCEPT !.cut = TRUE]

None == [r \in Reports |-> Nothing]
Enabled == [text |-> "open", idle |-> "open", disabled |-> FALSE]

\* A page that has just been loaded restores the session of the storage.
Restoring(t) == IF t = Nobody THEN Nothing ELSE [by |-> t, cut |-> FALSE]

Init ==
    /\ token \in Tokens \cup {Nobody} /\ user = Nobody
    /\ used = {token} \ {Nobody} /\ denied = {}
    /\ form = {} /\ load = Nothing /\ scan = Nothing /\ report = None
    /\ restore = Restoring(token)
    /\ html = Nothing /\ url = FALSE /\ live = 0 /\ blank = FALSE /\ button = Enabled
    /\ late = FALSE /\ replaced = FALSE /\ nested = FALSE

Reload ==
    /\ user' = Nobody
    /\ form' = {} /\ load' = Nothing /\ scan' = Nothing /\ report' = None
    /\ restore' = Restoring(token)
    /\ html' = Nothing /\ url' = FALSE /\ live' = 0 /\ blank' = FALSE /\ button' = Enabled
    /\ late' = FALSE /\ replaced' = FALSE /\ nested' = FALSE
    /\ denied' = {} /\ UNCHANGED <<token, used>>

----------------------------------------------------------------------------
(* The report frame and its button.                                        *)

Busy(b) == [text |-> "loading", idle |-> b.text, disabled |-> TRUE]

\* Mutant of Idle: only the button is enabled again.
IdleButText(b) == [b EXCEPT !.disabled = FALSE]

Idle(b) == [b EXCEPT !.text = b.idle, !.disabled = FALSE]

\* Mutant of Revoked: the URL of before is forgotten.
RevokedNever(n) == n

\* The object URLs that are left when the current one is revoked.
Revoked(n) == IF url THEN n - 1 ELSE n

\* renderSecurityReportFrame
Render == live' = Revoked(live) + 1 /\ url' = TRUE /\ blank' = FALSE

\* closeSecurityReport
Close == live' = Revoked(live) /\ url' = FALSE /\ html' = Nothing /\ blank' = FALSE

Themed == html # Nothing /\ Render /\ UNCHANGED <<token, user, used, denied, calls, html, button, ghosts>>

\* The part of openSecurityReport up to its fetch.
Fetch(r) ==
    /\ report[r] = Nothing
    /\ report' = [report EXCEPT ![r] = Sent]
    /\ button' = Busy(button)
    /\ nested' = (nested \/ \E q \in Reports : report[q] # Nothing)

OpenReport(r) ==
    /\ token # Nobody /\ user # Nobody /\ ~button.disabled
    /\ Fetch(r)
    /\ UNCHANGED <<token, user, used, denied, form, restore, load, scan, frame, late, replaced>>

\* The body may be empty, as is the file while a scan writes it: then there is no
\* report, and what the frame was given before stays.
ReportShown(r) ==
    /\ report[r] # Nothing
    /\ \/ html' = report[r] /\ Render
       \/ html' = Nothing /\ blank' = TRUE /\ UNCHANGED <<url, live>>
    /\ report' = [report EXCEPT ![r] = Nothing]
    /\ button' = Idle(button)
    /\ UNCHANGED <<token, user, used, denied, form, restore, load, scan, ghosts>>

\* Also for a 401: this fetch does not go through apiRequest.
ReportFails(r) ==
    /\ report[r] # Nothing
    /\ report' = [report EXCEPT ![r] = Nothing]
    /\ button' = Idle(button)
    /\ UNCHANGED <<token, user, used, denied, form, restore, load, scan, frame, ghosts>>

----------------------------------------------------------------------------
(* The session.                                                            *)

\* Mutant of ClearSession: the report stays.
ClearSessionOnly == token' = Nobody /\ user' = Nobody /\ late' = FALSE /\ UNCHANGED frame

ClearSession == token' = Nobody /\ user' = Nobody /\ late' = FALSE /\ Close

\* loadViewData: the page in view may make a call, if there is a token.
ViewData(t, before) ==
    load' \in {before} \cup
        (IF t # Nobody /\ before = Nothing THEN {[by |-> t, cut |-> FALSE]} ELSE {})

Submit(f) ==
    /\ f \notin form /\ (user = Nobody \/ token = Nobody)
    /\ form' = form \cup {f}
    /\ UNCHANGED <<token, user, used, denied, restore, load, scan, report, frame, button, ghosts>>

\* Mutant of Signed: the user is left to the next profile call.
SignedButUser(t) == token' = t /\ UNCHANGED user

Signed(t) == token' = t /\ user' = Owner[t]

SignedIn(f) ==
    /\ f \in form /\ form' = form \ {f}
    /\ \E t \in Tokens \ used :
        /\ Signed(t) /\ used' = used \cup {t}
        /\ ViewData(t, Cut(load))
    /\ late' = FALSE /\ replaced' = (replaced \/ token # Nobody)
    /\ restore' = Cut(restore) /\ scan' = Cut(scan)
    /\ report' = [r \in Reports |-> Cut(report[r])]
    /\ UNCHANGED <<denied, frame, button, nested>>

SignInFails(f) ==
    /\ f \in form /\ form' = form \ {f}
    /\ UNCHANGED <<token, user, used, denied, restore, load, scan, report, frame, button, ghosts>>

SignOut ==
    /\ user # Nobody /\ token # Nobody
    /\ ClearSession
    /\ restore' = Cut(restore) /\ load' = Cut(load) /\ scan' = Cut(scan)
    /\ report' = [r \in Reports |-> Cut(report[r])]
    /\ UNCHANGED <<used, denied, form, button, replaced, nested>>

\* The profile is there: whoever is signed in by now.
Restored ==
    /\ restore # Nothing /\ restore' = Nothing
    /\ user' = Owner[restore.by] /\ late' = restore.cut
    /\ ViewData(token, load)
    /\ UNCHANGED <<token, used, denied, form, scan, report, frame, button, replaced, nested>>

\* Any error, not only a 401, ends the session.
RestoreFails ==
    /\ restore # Nothing /\ restore' = Nothing
    /\ ClearSession
    /\ load' = Cut(load) /\ scan' = Cut(scan)
    /\ report' = [r \in Reports |-> Cut(report[r])]
    /\ UNCHANGED <<used, denied, form, button, replaced, nested>>

----------------------------------------------------------------------------
(* Authenticated calls.                                                    *)

\* The calls that go through apiRequest.
Waited(k) == IF k = "load" THEN load ELSE scan

ShowView ==
    /\ load = Nothing /\ ViewData(token, load) /\ load' # load
    /\ UNCHANGED <<token, user, used, denied, form, restore, scan, report, frame, button, ghosts>>

StartScan ==
    /\ token # Nobody /\ user # Nobody /\ scan = Nothing
    /\ scan' = Sent /\ Close
    /\ UNCHANGED <<token, user, used, denied, form, restore, load, report, button, ghosts>>

\* External: the server answers the call k with 401.  The token has expired or
\* its user is gone; or get_profile has missed the user once, or has raised
\* anything, which the scan route answers alike, and the next call will succeed.
Refuses(k) ==
    /\ Waited(k) # Nothing /\ k \notin denied
    /\ denied' = denied \cup {k}
    /\ UNCHANGED <<token, user, used, calls, frame, button, ghosts>>

\* Mutant of Unauthorized: any answer to an authenticated call.
UnauthorizedOrWorse(k) == TRUE

\* What apiRequest clears the session for.
Unauthorized(k) == k \in denied

\* It succeeds, or fails with something else than 401.
LoadEnds ==
    /\ load # Nothing /\ "load" \notin denied /\ load' = Nothing
    /\ UNCHANGED <<token, user, used, denied, form, restore, scan, report, frame, button, ghosts>>

\* The report of the scan is opened by whoever is signed in by now.
ScanEnds ==
    /\ scan # Nothing /\ "scan" \notin denied /\ scan' = Nothing
    /\ \/ token # Nobody /\ \E r \in Reports : Fetch(r)
       \/ UNCHANGED <<report, button, nested>>
    /\ UNCHANGED <<token, user, used, denied, form, restore, load, frame, late, replaced>>

\* A 401, whichever session the call was sent in.
LoadRefused ==
    /\ load # Nothing /\ Unauthorized("load") /\ load' = Nothing
    /\ ClearSession /\ denied' = denied \ {"load"}
    /\ restore' = Cut(restore) /\ scan' = Cut(scan)
    /\ report' = [r \in Reports |-> Cut(report[r])]
    /\ UNCHANGED <<used, form, button, replaced, nested>>

ScanRefused ==
    /\ scan # Nothing /\ Unauthorized("scan") /\ scan' = Nothing
    /\ ClearSession /\ denied' = denied \ {"scan"}
    /\ restore' = Cut(restore) /\ load' = Cut(load)
    /\ report' = [r \in Reports |-> Cut(report[r])]
    /\ UNCHANGED <<used, form, button, replaced, nested>>

Next ==
    \/ Reload \/ Themed \/ SignOut \/ Restored \/ RestoreFails
    \/ ShowView \/ StartScan \/ LoadEnds \/ ScanEnds \/ LoadRefused \/ ScanRefused
    \/ \E f \in Forms : Submit(f) \/ SignedIn(f) \/ SignInFails(f)
    \/ \E r \in Reports : OpenReport(r) \/ ReportShown(r) \/ ReportFails(r)
    \/ \E k \in {"load", "scan"} : Refuses(k)

Spec == Init /\ [][Next]_vars

----------------------------------------------------------------------------
(* Properties.                                                             *)

(* Pages are shown only for the user of the current token, unless the       *)
(* profile came when the session it was asked for was over (app.js:321-330, *)
(* 348-371).                                                                *)
ShownForTheToken == user # Nobody /\ ~late => token # Nobody /\ user = Owner[token]

(* A session is ended by the operator, by the failure of the call that      *)
(* restores it, or by a 401 that was the answer to one of its own calls or  *)
(* of another session's that was still waited for; nothing else, and no     *)
(* other error, ends it.  The server may still accept the token then        *)
(* (app.js:118-122, 321-330; routers.py:141-152).                           *)
SessionsEndForAReason ==
    [][token # Nobody /\ token' = Nobody =>
        \/ SignOut
        \/ restore # Nothing /\ restore' = Nothing
        \/ \E k \in denied \ denied' : Waited(k).by = token \/ Waited(k).cut]_vars

(* A report stays on the page only in the session it was fetched in, unless *)
(* that session was over before the report came, or another login came on   *)
(* top of it (app.js:313-319, 1067-1117).                                   *)
ReportIsOfTheSession ==
    html # Nothing /\ ~html.cut /\ ~replaced => html.by = token

(* A report that is displayed has its object URL, at most one URL exists,   *)
(* and one is left without a report only after an empty report has come,    *)
(* until the next one or the end of the session (app.js:1045-1065,          *)
(* 1087-1117).                                                              *)
NoUrlLeaks ==
    /\ live = IF url THEN 1 ELSE 0
    /\ html # Nothing => url
    /\ url /\ html = Nothing => blank

(* When no fetch of the report is under way its button says so, unless two  *)
(* have overlapped: then the label of the second stays for good             *)
(* (app.js:162-174, 1067-1099).                                             *)
ButtonComesBack ==
    ~nested /\ (\A r \in Reports : report[r] = Nothing) => button.text = "open" /\ ~button.disabled
=============================================================================
