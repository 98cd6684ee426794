---------------------------- MODULE BrowserPages ----------------------------
(***************************************************************************)
(* The browser engine (engines/browser.py BrowserEngine): each virtual     *)
(* user drives a tab of its own against Splunk Web, logs in when it has    *)
(* to, and measures dashboard loads from what it overhears of the page's   *)
(* search requests and sees on the page.  The page, its searches and the   *)
(* web session are the target's.                                           *)
(*                                                                         *)
(* One event loop runs a task per user; an action is what runs between two *)
(* awaits, or the target.  A search is named by the load that started it,  *)
(* the landing page after a login counting as a load.                      *)
(***************************************************************************)
EXTENDS Integers, FiniteSets

CONSTANTS
    Viewers,     \* virtual users
    Panels,      \* the searches one dashboard starts
    Visits       \* [users, loads, waits, secret, expiries, faults]: who loads how often, wait_for,
                 \* whether there is a password, how often a session ages out and a call fails

ASSUME BrowserAssumption ==
    /\ IsFiniteSet(Viewers) /\ "landing" \notin Panels
    /\ \A v \in Visits : v.users \subseteq Viewers /\ v.loads \in Nat /\ v.waits \in {"first_result", "all_panels"}

VARIABLES
    outing,     \* the load asked for and what may still go wrong; <<>> at first
    browser,    \* "new", "up", "fatal" (an engine that raised stops the run), "closed"
    tabLock,    \* who holds _lock, or "none"
    tab,        \* _contexts, with what its page shows and has started
    webSession, \* users whose Splunk Web session the target accepts
    visit,      \* per user: where execute is, what it overheard, what is in the measured span
    measured,   \* per user: its last record; <<>> before
    logins, expired  \* history: per user

browserVars == <<outing, browser, tabLock, tab, webSession, visit, measured, logins, expired>>

NoTab == [open |-> FALSE, logged_in |-> FALSE, loads |-> 0, shows |-> "blank", painted |-> FALSE,
          searches |-> {}, finished |-> {}]
NoVisit == [at |-> "idle", sids |-> {}, done |-> {}, span |-> {}]
Page(t, shows) == [t EXCEPT !.shows = shows, !.painted = FALSE, !.searches = {}, !.finished = {}]

Counted(t) == [t EXCEPT !.loads = @ + 1]

\* The response listener is attached before goto and removed when the load is over.
Listening == {"goto", "relogin", "regoto", "panel", "settle"}

-----------------------------------------------------------------------------

ChooseVisits(v) ==
    /\ browser = "new" /\ outing = <<>> /\ outing' = v
    /\ UNCHANGED <<browser, tabLock, tab, webSession, visit, measured, logins, expired>>

StartBrowser ==
    /\ browser = "new" /\ outing # <<>> /\ browser' = "up"
    /\ UNCHANGED <<outing, tabLock, tab, webSession, visit, measured, logins, expired>>

\* execute: the user's context, a login outside the measured span, then the load.
AlwaysLogsIn(t) == TRUE
NeedsLogin(t) == ~t.logged_in
Goes(u, t) == IF NeedsLogin(t) THEN [NoVisit EXCEPT !.at = "login"] ELSE [NoVisit EXCEPT !.at = "goto"]
Execute(u) ==
    /\ browser = "up" /\ u \in outing.users /\ visit[u].at = "idle" /\ tab[u].loads < outing.loads
    /\ visit' = [visit EXCEPT ![u] = IF tab[u].open THEN Goes(u, tab[u]) ELSE [NoVisit EXCEPT !.at = "lock"]]
    /\ UNCHANGED <<outing, browser, tabLock, tab, webSession, measured, logins, expired>>

TakesLock(u) ==
    /\ visit[u].at = "lock" /\ tabLock = "none" /\ tabLock' = u
    /\ visit' = [visit EXCEPT ![u].at = "making"]
    /\ UNCHANGED <<outing, browser, tab, webSession, measured, logins, expired>>
OpensTab(u) ==
    /\ visit[u].at = "making" /\ tabLock' = "none"
    /\ tab' = [tab EXCEPT ![u].open = TRUE]
    /\ visit' = [visit EXCEPT ![u] = Goes(u, tab[u])]
    /\ UNCHANGED <<outing, browser, webSession, measured, logins, expired>>

\* The end of execute: a record, and the listeners gone.
Files(u, ok, settled) ==
    /\ measured' = [measured EXCEPT ![u] = [ok |-> ok, settled |-> settled, span |-> visit[u].span,
                        sids |-> visit[u].sids, done |-> visit[u].done, page |-> tab[u]]]
    /\ visit' = [visit EXCEPT ![u] = NoVisit]

\* A call of the browser fails: an ordinary failure is a record.
CallFails(u) ==
    /\ visit[u].at \in {"making", "login", "goto", "relogin", "regoto"}
    /\ outing.faults > 0 /\ outing' = [outing EXCEPT !.faults = @ - 1]
    /\ tabLock' = IF tabLock = u THEN "none" ELSE tabLock
    /\ tab' = [tab EXCEPT ![u] = IF visit[u].at = "goto" THEN Counted(@) ELSE @]
    /\ Files(u, FALSE, "no")
    /\ UNCHANGED <<browser, webSession, logins, expired>>

\* _login: the form is posted and the page leaves it for the landing page. Before a load,
\* the span to measure has not begun; after one that fell on the login page it begins again.
LoggedIn(u, at) ==
    /\ outing.secret
    /\ webSession' = webSession \cup {u} /\ logins' = [logins EXCEPT ![u] = @ + 1]
    /\ tab' = [tab EXCEPT ![u] = [Page(@, "landing") EXCEPT !.logged_in = TRUE]]
    /\ visit' = [visit EXCEPT ![u].at = at]
    /\ UNCHANGED <<outing, browser, tabLock, measured, expired>>
LogsIn(u) == visit[u].at = "login" /\ LoggedIn(u, "goto")
LogsInAgain(u) == visit[u].at = "relogin" /\ LoggedIn(u, "regoto")

\* No password, or the form is not left in time (though the target may have taken it): execute
\* raises, which ends the run.
LoginRaises(u) ==
    /\ visit[u].at \in {"login", "relogin"}
    /\ IF outing.secret
       THEN outing.faults > 0 /\ outing' = [outing EXCEPT !.faults = @ - 1] /\ webSession' \in {webSession, webSession \cup {u}}
       ELSE UNCHANGED <<outing, webSession>>
    /\ browser' = "fatal" /\ visit' = [visit EXCEPT ![u] = NoVisit]
    /\ UNCHANGED <<tabLock, tab, measured, logins, expired>>

\* _load_dashboard's goto, from its answer on: the dashboard, or the login page of a session
\* that aged out. The second goto is not looked at, and starts the clock.
GoesTo(u) ==
    /\ visit[u].at = "goto"
    /\ IF u \in webSession
       THEN /\ tab' = [tab EXCEPT ![u] = Counted(Page(@, "dashboard"))]
            /\ visit' = [visit EXCEPT ![u].at = "panel"]
       ELSE /\ tab' = [tab EXCEPT ![u] = [Counted(Page(@, "login")) EXCEPT !.logged_in = FALSE]]
            /\ visit' = [visit EXCEPT ![u].at = "relogin", ![u].span = {"login"}]
    /\ UNCHANGED <<outing, browser, tabLock, webSession, measured, logins, expired>>
BeganBefore(v) == v.span
Began(v) == {}
GoesAgain(u) ==
    /\ visit[u].at = "regoto"
    /\ tab' = [tab EXCEPT ![u] = Page(@, IF u \in webSession THEN "dashboard" ELSE "login")]
    /\ visit' = [visit EXCEPT ![u].at = "panel", ![u].span = Began(visit[u])]
    /\ UNCHANGED <<outing, browser, tabLock, webSession, measured, logins, expired>>

\* _wait_for_panels: something visible, and a finished search if any was overheard.
PanelShows(u) ==
    /\ visit[u].at = "panel" /\ tab[u].painted
    /\ visit[u].sids = {} \/ visit[u].done # {}
    /\ IF outing.waits = "all_panels"
       THEN visit' = [visit EXCEPT ![u].at = "settle"] /\ UNCHANGED measured
       ELSE Files(u, TRUE, "no")
    /\ UNCHANGED <<outing, browser, tabLock, tab, webSession, logins, expired>>
PageSettles(u) ==
    /\ visit[u].at = "settle" /\ visit[u].sids \subseteq visit[u].done
    /\ Files(u, TRUE, "yes")
    /\ UNCHANGED <<outing, browser, tabLock, tab, webSession, logins, expired>>
\* Nothing in time is a failure; a page that has shown something is said to have settled.
StepDeadline(u) ==
    /\ visit[u].at \in {"panel", "settle"}
    /\ Files(u, visit[u].at = "settle", IF visit[u].at = "settle" THEN "yes" ELSE "no")
    /\ UNCHANGED <<outing, browser, tabLock, tab, webSession, logins, expired>>

\* close(), after the drain has cancelled what is left: no record for it.
CloseBrowser ==
    /\ browser \in {"up", "fatal"} /\ browser' = "closed" /\ tabLock' = "none"
    /\ tab' = [u \in Viewers |-> NoTab] /\ visit' = [u \in Viewers |-> NoVisit]
    /\ UNCHANGED <<outing, webSession, measured, logins, expired>>

-----------------------------------------------------------------------------

\* The target: a page starts its searches and polls them, which the listener overhears
\* (on_response, read_status), and paints its panels, with data or before; sessions age out.
Started(u) == IF tab[u].shows = "landing" THEN {<<tab[u].loads, "landing">>}
              ELSE {<<tab[u].loads, p>> : p \in Panels}
PageSearches(u) ==
    /\ tab[u].shows \in {"landing", "dashboard"}
    /\ \E sid \in Started(u) \ tab[u].searches :
          /\ tab' = [tab EXCEPT ![u].searches = @ \cup {sid}]
          /\ visit' = IF visit[u].at \in Listening THEN [visit EXCEPT ![u].sids = @ \cup {sid}] ELSE visit
    /\ UNCHANGED <<outing, browser, tabLock, webSession, measured, logins, expired>>
SearchFinishes(u) ==
    /\ \E sid \in tab[u].searches \ tab[u].finished : tab' = [tab EXCEPT ![u].finished = @ \cup {sid}]
    /\ UNCHANGED <<outing, browser, tabLock, webSession, visit, measured, logins, expired>>
PagePolls(u) ==
    /\ visit[u].at \in Listening
    /\ \E sid \in tab[u].searches :
          visit' = [visit EXCEPT ![u].sids = @ \cup {sid},
                                 ![u].done = IF sid \in tab[u].finished THEN @ \cup {sid} ELSE @]
    /\ UNCHANGED <<outing, browser, tabLock, tab, webSession, measured, logins, expired>>
PagePaints(u) ==
    /\ tab[u].shows = "dashboard" /\ ~tab[u].painted /\ tab' = [tab EXCEPT ![u].painted = TRUE]
    /\ UNCHANGED <<outing, browser, tabLock, webSession, visit, measured, logins, expired>>
SessionAges(u) ==
    /\ u \in webSession /\ browser # "closed" /\ outing.expiries > 0
    /\ outing' = [outing EXCEPT !.expiries = @ - 1]
    /\ webSession' = webSession \ {u} /\ expired' = [expired EXCEPT ![u] = @ + 1]
    /\ UNCHANGED <<browser, tabLock, tab, visit, measured, logins>>

BrowserInit ==
    /\ outing = <<>> /\ browser = "new" /\ tabLock = "none" /\ webSession = {}
    /\ tab = [u \in Viewers |-> NoTab] /\ visit = [u \in Viewers |-> NoVisit]
    /\ measured = [u \in Viewers |-> <<>>]
    /\ logins = [u \in Viewers |-> 0] /\ expired = [u \in Viewers |-> 0]

ViewerStep(u) ==
    \/ Execute(u) \/ TakesLock(u) \/ OpensTab(u) \/ CallFails(u)
    \/ LogsIn(u) \/ LogsInAgain(u) \/ LoginRaises(u) \/ GoesTo(u) \/ GoesAgain(u)
    \/ PanelShows(u) \/ PageSettles(u) \/ StepDeadline(u)
TargetStep(u) ==
    \/ PageSearches(u) \/ SearchFinishes(u) \/ PagePolls(u) \/ PagePaints(u) \/ SessionAges(u)

BrowserNext ==
    \/ \E v \in Visits : ChooseVisits(v)
    \/ StartBrowser \/ CloseBrowser
    \/ \E u \in Viewers : ViewerStep(u) \/ TargetStep(u)

BrowserSpec == BrowserInit /\ [][BrowserNext]_browserVars

-----------------------------------------------------------------------------

\* A user logs in once, and once more for each session that aged out; no login is inside the
\* time a successful load took, and such a load ended on the dashboard, never on the login
\* page it may have passed through (execute, the relogin of _load_dashboard).
OneLoginPerSession ==
    \A u \in Viewers :
        /\ logins[u] <= 1 + expired[u]
        /\ measured[u] # <<>> /\ measured[u].ok =>
              "login" \notin measured[u].span /\ measured[u].page.shows = "dashboard"

\* "When the page has started searches, at least one of them has finished"
\* (browser.py:586-588). Does not hold: a search not overheard yet does not count, and one of
\* the page before, or of the landing page, does.
FirstPanelHasData ==
    \A u \in Viewers : measured[u] # <<>> /\ measured[u].ok /\ measured[u].page.searches # {} =>
        measured[u].page.finished # {}

\* "Settled means every search the page started has finished" (browser.py:616). Does not
\* hold: the deadline settles it too.
SettledIsFinished ==
    \A u \in Viewers : measured[u] # <<>> /\ measured[u].settled = "yes" =>
        measured[u].sids \subseteq measured[u].done
=============================================================================
