-------------------------- MODULE ConsoleSession --------------------------
(***************************************************************************)
(* The session of the administrator console and the data that belong to    *)
(* the whole of it (App in src/frontend/src.jsx, with Login and Dashboard): *)
(* who is signed in, on the screen and on the server, and the loads of the  *)
(* dashboard's figures and of the asset list.                               *)
(*                                                                         *)
(* A load is two requests at once, and its figures are counted by several  *)
(* queries outside a transaction.  Loads overlap: the dashboard's button is *)
(* never disabled, and App outlives a sign-out with what it has shown and  *)
(* what it has asked for.  Requests carry the cookie of the moment they    *)
(* were sent.                                                              *)
(***************************************************************************)
EXTENDS Naturals, FiniteSets

CONSTANTS
    None,
    Slots,         \* bound: loads under way at once
    MaxVersion,    \* bound: changes of the inventory
    MaxSessions,   \* bound: sessions the server opens
    ListLimit,     \* LIMIT of the asset list
    World          \* the assets after each change of the inventory

BitLocker == {"on", "off", "unknown"}
Antivirus == {"Healthy", "other", "unknown"}
Contact == {"online", "offline", "stale"}

\* stale and online are decided by the server's clock and by the browser's; the two agree here.
IsAsset(a) ==
    a.bitlocker \in BitLocker /\ a.antivirus \in Antivirus /\ a.contact \in Contact

ASSUME BoundAssumption ==
    /\ MaxVersion \in Nat /\ MaxSessions \in Nat \ {0} /\ ListLimit \in Nat
ASSUME WorldAssumption ==
    \A v \in 0 .. MaxVersion : IsFiniteSet(World[v]) /\ \A a \in World[v] : IsAsset(a)

VARIABLES
    version,     \* changes of the inventory so far
    sessions,    \* sessions the server has opened
    valid,       \* the session it would accept; 0: none
    cookie,      \* the session the browser presents; 0: none
    user,        \* unknown (undefined), none (null) or in
    login,       \* the request of the start (/auth/me) or of the login form
    logout,      \* the request of the logout button
    loads,       \* what each slot has asked for and got
    loading,
    loadError,   \* none, load or logout: the notice of the workspace
    figures,     \* versions the figures and the list on the screen were read at
    askedAt,     \* version when the latest load was sent (history)
    overlapped   \* loads have overlapped since a time without any (history)

server == <<version, sessions, valid>>
screen == <<loading, loadError, figures>>
history == <<askedAt, overlapped>>
vars == <<server, cookie, user, login, logout, loads, screen, history>>

Versions == 0 .. MaxVersion

\* total is counted first, then what is in order and what is not; the list is a request
\* of its own.
Figures == [total : Versions, tally : Versions, rows : Versions]

LoadState == [stage  : {"open", "denied", "failed"},
              cookie : 0 .. MaxSessions,
              total  : Versions \cup {None},
              tally  : Versions \cup {None},
              rows   : Versions \cup {None}]

\* stage: on its way, or answered so.
Request == [kind : {"me", "login", "logout"}, stage : {"sent", "ok", "denied", "failed"},
            cookie : 0 .. MaxSessions]

ASSUME NoneAssumption ==
    None \notin Nat /\ None \notin Figures /\ None \notin LoadState /\ None \notin Request

\* The browser comes with a session that holds, with one that has ended, or without.
Init ==
    /\ version = 0
    /\ sessions = 1
    /\ cookie \in {0, 1}
    /\ valid \in {0, cookie}
    /\ user = "unknown"
    /\ login = [kind |-> "me", stage |-> "sent", cookie |-> cookie]
    /\ logout = None
    /\ loads = [s \in Slots |-> None]
    /\ loading = FALSE
    /\ loadError = "none"
    /\ figures = None
    /\ askedAt = 0
    /\ overlapped = FALSE

-----------------------------------------------------------------------------
\* The server.
Change ==
    /\ version < MaxVersion
    /\ version' = version + 1
    /\ UNCHANGED <<sessions, valid, cookie, user, login, logout, loads, screen, history>>

\* The session times out, or is ended from another tab.
Expire ==
    /\ valid # 0
    /\ valid' = 0
    /\ UNCHANGED <<version, sessions, cookie, user, login, logout, loads, screen, history>>

Accepted(c) == c # 0 /\ c = valid

MeServed ==
    /\ login # None /\ login.kind = "me" /\ login.stage = "sent"
    /\ login' = [login EXCEPT !.stage = IF Accepted(login.cookie) THEN "ok" ELSE "denied"]
    /\ UNCHANGED <<server, cookie, user, logout, loads, screen, history>>

\* A login opens a session, or gives the present one a new id, and the old cookie is worth
\* nothing.  The new cookie travels with the answer.
LoginServed ==
    /\ login # None /\ login.kind = "login" /\ login.stage = "sent"
    /\ \/ /\ sessions < MaxSessions
          /\ sessions' = sessions + 1
          /\ valid' = sessions + 1
          /\ login' = [login EXCEPT !.stage = "ok", !.cookie = sessions + 1]
       \/ /\ login' = [login EXCEPT !.stage = "denied"]   \* wrong name or password
          /\ UNCHANGED <<sessions, valid>>
    /\ UNCHANGED <<version, cookie, user, logout, loads, screen, history>>

\* Like every request but the login, the logout needs a session.
LogoutServed ==
    /\ logout # None /\ logout.stage = "sent"
    /\ IF Accepted(logout.cookie)
       THEN valid' = 0 /\ logout' = [logout EXCEPT !.stage = "ok"]
       ELSE UNCHANGED valid /\ logout' = [logout EXCEPT !.stage = "denied"]
    /\ UNCHANGED <<version, sessions, cookie, user, login, loads, screen, history>>

\* A request or its answer is lost, or the server cannot serve it.
LoginLost ==
    /\ login # None /\ login.stage # "failed"
    /\ login' = [login EXCEPT !.stage = "failed"]
    /\ UNCHANGED <<server, cookie, user, logout, loads, screen, history>>

LogoutLost ==
    /\ logout # None /\ logout.stage # "failed"
    /\ logout' = [logout EXCEPT !.stage = "failed"]
    /\ UNCHANGED <<server, cookie, user, login, loads, screen, history>>

Open(s) == loads[s] # None /\ loads[s].stage = "open"

\* The first query of /dashboard.
CountTotal(s) ==
    /\ Open(s) /\ loads[s].total = None /\ Accepted(loads[s].cookie)
    /\ loads' = [loads EXCEPT ![s].total = version]
    /\ UNCHANGED <<server, cookie, user, login, logout, screen, history>>

\* Its other queries, which read what has been committed since.
CountTally(s) ==
    /\ Open(s) /\ loads[s].total # None /\ loads[s].tally = None
    /\ loads' = [loads EXCEPT ![s].tally = version]
    /\ UNCHANGED <<server, cookie, user, login, logout, screen, history>>

ListAssets(s) ==
    /\ Open(s) /\ loads[s].rows = None /\ Accepted(loads[s].cookie)
    /\ loads' = [loads EXCEPT ![s].rows = version]
    /\ UNCHANGED <<server, cookie, user, login, logout, screen, history>>

\* What has been read is of no use once one of the two requests has no answer.
Broken(s, stage) ==
    [loads EXCEPT ![s] = [stage |-> stage, cookie |-> loads[s].cookie,
                          total |-> None, tally |-> None, rows |-> None]]

\* One of the two requests is not accepted, which decides the answer of both.
Deny(s) ==
    /\ Open(s) /\ (loads[s].total = None \/ loads[s].rows = None)
    /\ ~Accepted(loads[s].cookie)
    /\ loads' = Broken(s, "denied")
    /\ UNCHANGED <<server, cookie, user, login, logout, screen, history>>

LoadLost(s) ==
    /\ loads[s] # None /\ loads[s].stage # "failed"
    /\ loads' = Broken(s, "failed")
    /\ UNCHANGED <<server, cookie, user, login, logout, screen, history>>

-----------------------------------------------------------------------------
\* Mutant: a load that is not told by the flag.
LoadQuietly(s, c) ==
    /\ loads[s] = None
    /\ loads' = [loads EXCEPT ![s] = [stage |-> "open", cookie |-> c,
                                      total |-> None, tally |-> None, rows |-> None]]
    /\ askedAt' = version
    /\ overlapped' = \E t \in Slots : loads[t] # None
    /\ UNCHANGED <<loading, loadError, figures>>

\* load() with the cookie c, in slot s.
Load(s, c) ==
    /\ loads[s] = None
    /\ loads' = [loads EXCEPT ![s] = [stage |-> "open", cookie |-> c,
                                      total |-> None, tally |-> None, rows |-> None]]
    /\ loading' = TRUE
    /\ askedAt' = version
    /\ overlapped' = \E t \in Slots : loads[t] # None
    /\ UNCHANGED <<loadError, figures>>

\* Mutant: every error signs the administrator out.
SignsOutAlways(load) == load.stage # "open"

\* Only an answer 401 signs the administrator out.
SignsOut(load) == load.stage = "denied"

\* Promise.all: both answers, or the first refusal.
Answered(load) ==
    load.stage = "open" => load.tally # None /\ load.rows # None

\* The load is answered, whoever is signed in by then.
LoadAnswered(s) ==
    /\ loads[s] # None
    /\ Answered(loads[s])
    /\ loads' = [loads EXCEPT ![s] = None]
    /\ loading' = FALSE
    /\ IF loads[s].stage = "open"
       THEN /\ figures' = [total |-> loads[s].total, tally |-> loads[s].tally,
                           rows |-> loads[s].rows]
            /\ loadError' = "none"
            /\ UNCHANGED user
       ELSE /\ IF SignsOut(loads[s])
               THEN user' = "none" /\ UNCHANGED loadError
               ELSE loadError' = "load" /\ UNCHANGED user
            /\ UNCHANGED figures
    /\ UNCHANGED <<server, cookie, login, logout, history>>

\* The dashboard's button, and the others when nothing is loading.
Refresh(s) ==
    /\ user = "in"
    /\ Load(s, cookie)
    /\ UNCHANGED <<server, cookie, user, login, logout>>

\* The answer to the start or to the login form.  A new user starts a load.
LoginAnswered ==
    /\ login # None /\ login.stage # "sent"
    /\ login' = None
    /\ IF login.stage = "ok"
       THEN /\ user' = "in"
            /\ cookie' = login.cookie
            /\ \E s \in Slots : Load(s, login.cookie)
       ELSE /\ user' = "none"
            /\ UNCHANGED <<cookie, loads, screen, history>>
    /\ UNCHANGED <<server, logout>>

\* The form is busy while its request is under way.
SubmitLogin ==
    /\ user = "none" /\ login = None
    /\ login' = [kind |-> "login", stage |-> "sent", cookie |-> cookie]
    /\ UNCHANGED <<server, cookie, user, logout, loads, screen, history>>

SubmitLogout ==
    /\ user = "in" /\ logout = None
    /\ logout' = [kind |-> "logout", stage |-> "sent", cookie |-> cookie]
    /\ UNCHANGED <<server, cookie, user, login, loads, screen, history>>

LogoutAnswered ==
    /\ logout # None /\ logout.stage # "sent"
    /\ logout' = None
    /\ IF logout.stage = "ok"
       THEN user' = "none" /\ UNCHANGED loadError
       ELSE loadError' = "logout" /\ UNCHANGED user
    /\ UNCHANGED <<server, cookie, login, loads, loading, figures, history>>

AnyServer == Change \/ Expire \/ MeServed \/ LoginServed \/ LogoutServed

AnyLost == LoginLost \/ LogoutLost

AnyScreen == LoginAnswered \/ SubmitLogin \/ SubmitLogout \/ LogoutAnswered

LoadStep(s) ==
    \/ CountTotal(s)
    \/ CountTally(s)
    \/ ListAssets(s)
    \/ Deny(s)
    \/ LoadLost(s)
    \/ LoadAnswered(s)
    \/ Refresh(s)

Next == AnyServer \/ AnyLost \/ AnyScreen \/ \E s \in Slots : LoadStep(s)

Spec == Init /\ [][Next]_vars

-----------------------------------------------------------------------------
\* What the server has counted (SQL, IS DISTINCT FROM: unknown is not in order) ...
Tally(v) ==
    [bitlocker |-> Cardinality({a \in World[v] : a.bitlocker \in {"off", "unknown"}}),
     antivirus |-> Cardinality({a \in World[v] : a.antivirus \in {"other", "unknown"}}),
     stale     |-> Cardinality({a \in World[v] : a.contact = "stale"})]

\* ... and listed: all assets, or the latest to report.
Listed(v) ==
    IF Cardinality(World[v]) <= ListLimit
    THEN World[v]
    ELSE CHOOSE latest \in SUBSET World[v] :
            /\ Cardinality(latest) = ListLimit
            /\ \A a \in latest, b \in World[v] \ latest :
                  a.contact = "stale" => b.contact = "stale"

\* Mutant: unknown counts as in order.
FilteredKnown(filter, assets) ==
    {a \in assets :
        \/ filter = "bitlocker" /\ a.bitlocker = "off"
        \/ filter = "antivirus" /\ a.antivirus = "other"
        \/ filter = "stale" /\ a.contact = "stale"}

\* The rows left by a filter of the asset list.
Filtered(filter, assets) ==
    {a \in assets :
        \/ filter = "bitlocker" /\ a.bitlocker # "on"
        \/ filter = "antivirus" /\ a.antivirus # "Healthy"
        \/ filter = "stale" /\ a.contact = "stale"}

\* The share of the checks that are in order, rounded; None: nothing to measure.  The total
\* may be older than the issues, and smaller.
Compliance(total, issues) ==
    LET checks == 2 * total
    IN  IF checks = 0 THEN None
        ELSE IF issues >= checks THEN 0
        ELSE (200 * (checks - issues) + checks) \div (2 * checks)

\* The numbers on the dashboard; dashes while figures is None.
Dashboard ==
    LET total == Cardinality(World[figures.total])
        tally == Tally(figures.tally)
    IN  [total      |-> total,
         tiles      |-> tally,
         compliance |-> Compliance(total, tally.bitlocker + tally.antivirus)]

\* "The list shows the latest 500 assets."
LimitNotice == Cardinality(Listed(figures.rows)) >= ListLimit

-----------------------------------------------------------------------------
TypeOK ==
    /\ version \in Versions /\ sessions \in 1 .. MaxSessions
    /\ valid \in 0 .. sessions /\ cookie \in 0 .. sessions
    /\ user \in {"unknown", "none", "in"}
    /\ login \in Request \cup {None} /\ logout \in Request \cup {None}
    /\ loads \in [Slots -> LoadState \cup {None}]
    /\ loading \in BOOLEAN
    /\ loadError \in {"none", "load", "logout"}
    /\ figures \in Figures \cup {None}
    /\ askedAt \in Versions /\ overlapped \in BOOLEAN

\* An answer to slot s, or to the logout button, has come that was sent with another cookie
\* than the browser's present one.
LateAnswer ==
    \/ \E s \in Slots : loads[s] # None /\ loads'[s] = None /\ loads[s].cookie # cookie
    \/ logout # None /\ logout' = None /\ logout.cookie # cookie

\* The administrator is sent back to the login form only when the session has ended on the
\* server.  The exception is a load or a logout that was sent before the present sign-in: its
\* answer signs the new session out on the screen, though it still holds.
SignedOutHasCause ==
    [][user = "in" /\ user' = "none" /\ valid = cookie => LateAnswer]_vars

\* When the page says that it is neither loading nor in error, it shows data at least as new
\* as the server had when the latest load was sent, unless loads have overlapped.
SettledIsFresh ==
    user = "in" /\ ~loading /\ loadError = "none" /\ ~overlapped =>
        /\ figures # None
        /\ figures.total >= askedAt /\ figures.tally >= askedAt /\ figures.rows >= askedAt

\* Each tile of the dashboard is the number of rows its link leads to, when both were read
\* from the same inventory and the list holds all of it; a list that does not says so; and
\* the compliance is a percentage though its total may be older than its issues.
FiguresAgree ==
    figures # None =>
        /\ figures.tally = figures.rows /\ Cardinality(World[figures.rows]) <= ListLimit =>
              \A filter \in {"bitlocker", "antivirus", "stale"} :
                 Dashboard.tiles[filter] = Cardinality(Filtered(filter, Listed(figures.rows)))
        /\ Cardinality(World[figures.rows]) > ListLimit => LimitNotice
        /\ Dashboard.compliance \in 0 .. 100 \cup {None}
=============================================================================
