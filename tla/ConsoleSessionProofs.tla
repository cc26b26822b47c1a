------------------------ MODULE ConsoleSessionProofs ------------------------
(***************************************************************************)
(* Proofs about ConsoleSession, for any number of loads at once, of        *)
(* sessions and of changes, and for every inventory.  The inductive        *)
(* invariant Inv says which cookies the requests under way carry (Sent),   *)
(* that the total is counted before the rest (Counted), and what the       *)
(* screen tells of a load that overlaps no other (Settled).                *)
(***************************************************************************)
EXTENDS ConsoleSession, FiniteSetTheorems, TLAPS

\* A request carries the cookie of a session the server has opened; one that has been
\* denied, or has logged out, carries the cookie of a session that has ended.
Sent ==
    /\ user = "in" => login = None /\ cookie # 0
    /\ login # None =>
          /\ login.cookie <= sessions
          /\ login.stage = "ok" => login.cookie # 0
    /\ logout # None =>
          /\ logout.cookie # 0 /\ logout.cookie <= sessions
          /\ logout.stage = "ok" => logout.cookie # valid
    /\ \A s \in Slots :
          loads[s] # None =>
             /\ loads[s].cookie # 0 /\ loads[s].cookie <= sessions
             /\ loads[s].stage = "denied" => loads[s].cookie # valid

Counted ==
    \A s \in Slots : loads[s] # None /\ loads[s].tally # None => loads[s].total # None

Since(v) == v # None => v >= askedAt

\* The only load under way is told by the flag and reads what is there since it was sent;
\* when it has been answered, its data or its error are on the screen.
Settled ==
    /\ askedAt <= version
    /\ ~overlapped =>
          /\ \A s, t \in Slots : s # t /\ loads[s] # None => loads[t] = None
          /\ \A s \in Slots :
                loads[s] # None =>
                   /\ loading
                   /\ Since(loads[s].total) /\ Since(loads[s].tally) /\ Since(loads[s].rows)
          /\ (\A s \in Slots : loads[s] = None) /\ user = "in" /\ loadError = "none" =>
                /\ figures # None
                /\ figures.total >= askedAt /\ figures.tally >= askedAt
                /\ figures.rows >= askedAt

Inv == TypeOK /\ Sent /\ Counted /\ Settled

-----------------------------------------------------------------------------
LEMMA Numbers ==
    /\ MaxVersion \in Nat /\ MaxSessions \in Nat \ {0} /\ ListLimit \in Nat
    /\ None \notin Nat /\ None \notin Figures /\ None \notin LoadState /\ None \notin Request
  BY BoundAssumption, NoneAssumption

\* What TypeOK says of a load under way.
LEMMA LoadType ==
    ASSUME TypeOK, NEW s \in Slots, loads[s] # None
    PROVE  /\ loads[s] \in LoadState
           /\ loads[s].stage \in {"open", "denied", "failed"}
           /\ loads[s].cookie \in 0 .. MaxSessions
           /\ loads[s].total \in Versions \cup {None}
           /\ loads[s].tally \in Versions \cup {None}
           /\ loads[s].rows \in Versions \cup {None}
  <1>1. loads[s] \in LoadState
    BY DEF TypeOK
  <1> QED
    BY <1>1 DEF LoadState

LEMMA InitInv == Init => Inv
  <1> SUFFICES ASSUME Init PROVE Inv
    OBVIOUS
  <1> USE Numbers
  <1>1. version = 0 /\ sessions = 1 /\ cookie \in 0 .. 1 /\ valid \in 0 .. 1 /\ askedAt = 0
    BY DEF Init
  <1>2. 0 \in Versions /\ 1 \in 1 .. MaxSessions
    BY DEF Versions
  <1>3. login \in Request /\ login.cookie = cookie /\ login.stage = "sent"
    BY <1>1 DEF Init, Request
  <1>4. loading \in BOOLEAN /\ overlapped \in BOOLEAN
    BY DEF Init
  <1>5. TypeOK
    BY <1>1, <1>2, <1>3, <1>4 DEF Init, TypeOK
  <1>6. Sent
    BY <1>1, <1>3 DEF Init, Sent
  <1>7. Counted /\ Settled
    BY <1>1 DEF Init, Counted, Settled
  <1> QED
    BY <1>5, <1>6, <1>7 DEF Inv

\* A step of the server that opens at most one session, and leaves the screen and the loads
\* alone.
LEMMA ServerInv ==
    ASSUME Inv,
           version' \in Versions, version <= version',
           sessions' \in 1 .. MaxSessions, sessions <= sessions',
           valid' \in {valid, 0} \/ (valid' = sessions' /\ sessions' = sessions + 1),
           login' \in Request \cup {None}, logout' \in Request \cup {None},
           login' = None <=> login = None,
           login' # None =>
              login'.cookie <= sessions' /\ (login'.stage = "ok" => login'.cookie # 0),
           logout' = logout \/ (logout' # None /\ logout # None /\ logout'.cookie = logout.cookie
                                /\ (logout'.stage = "ok" => logout.cookie # valid')),
           UNCHANGED <<cookie, user, loads, screen, history>>
    PROVE  Inv'
  <1> USE Numbers
  <1>1. version \in Nat /\ sessions \in Nat /\ valid \in Nat /\ cookie \in Nat /\ valid <= sessions /\ cookie <= sessions
        /\ version' \in Nat /\ sessions' \in Nat /\ askedAt \in Nat
    BY DEF Inv, TypeOK, Versions
  <1>2. valid' \in Nat /\ valid' <= sessions'
    BY <1>1
  <1>3. TypeOK'
    <2>1. valid' \in 0 .. sessions' /\ cookie' \in 0 .. sessions'
      BY <1>1, <1>2
    <2> QED
      BY <2>1 DEF Inv, TypeOK, screen, history
  <1>4. ASSUME NEW c \in Nat, c # 0, c <= sessions, c # valid
        PROVE  c # valid' /\ c <= sessions'
    BY <1>1, <1>4
  <1>5. ASSUME NEW s \in Slots, loads[s] # None
        PROVE  /\ loads[s].cookie # 0 /\ loads[s].cookie <= sessions'
               /\ loads[s].stage = "denied" => loads[s].cookie # valid'
    <2>1. loads[s].cookie \in Nat /\ loads[s].cookie # 0 /\ loads[s].cookie <= sessions
      BY <1>5, LoadType DEF Inv, Sent
    <2> QED
      BY <1>1, <1>4, <1>5, <2>1 DEF Inv, Sent
  <1>6. ASSUME logout' # None
        PROVE  /\ logout'.cookie # 0 /\ logout'.cookie <= sessions'
               /\ logout'.stage = "ok" => logout'.cookie # valid'
    <2>1. logout # None /\ logout'.cookie = logout.cookie
      BY <1>6
    <2>2. logout.cookie \in Nat /\ logout.cookie # 0 /\ logout.cookie <= sessions
      BY <2>1 DEF Inv, TypeOK, Sent, Request
    <2> QED
      BY <1>1, <1>4, <2>1, <2>2 DEF Inv, Sent
  <1>7. Sent'
    BY <1>5, <1>6 DEF Inv, Sent
  <1>8. Counted'
    BY DEF Inv, Counted
  <1>9. Settled'
    BY <1>1 DEF Inv, Settled, Since, screen, history
  <1> QED
    BY <1>3, <1>7, <1>8, <1>9 DEF Inv

LEMMA RequestKept ==
    ASSUME NEW request \in Request, NEW stage \in {"sent", "ok", "denied", "failed"}
    PROVE  /\ [request EXCEPT !.stage = stage] \in Request
           /\ [request EXCEPT !.stage = stage].cookie = request.cookie
           /\ [request EXCEPT !.stage = stage].kind = request.kind
           /\ [request EXCEPT !.stage = stage].stage = stage
  BY DEF Request

LEMMA AnyServerInv == Inv /\ (AnyServer \/ AnyLost) => Inv'
  <1> SUFFICES ASSUME Inv, AnyServer \/ AnyLost PROVE Inv'
    OBVIOUS
  <1> USE Numbers
  <1>1. /\ version \in Versions /\ sessions \in 1 .. MaxSessions /\ version \in Nat /\ sessions \in Nat
        /\ login \in Request \cup {None} /\ logout \in Request \cup {None}
        /\ login # None => login.cookie <= sessions /\ (login.stage = "ok" => login.cookie # 0)
    BY DEF Inv, TypeOK, Sent, Versions
  <1>2. CASE Change
    <2>1. version' \in Versions /\ version <= version'
      BY <1>1, <1>2 DEF Change, Versions
    <2>2. /\ UNCHANGED <<cookie, user, loads, screen, history>>
          /\ sessions' = sessions /\ valid' = valid /\ login' = login /\ logout' = logout
      BY <1>2 DEF Change
    <2> QED
      BY <1>1, <2>1, <2>2, ServerInv
  <1>3. CASE Expire
    BY <1>1, <1>3, ServerInv DEF Expire
  <1>4. CASE MeServed
    <2>1. PICK stage \in {"ok", "denied"} :
             /\ login' = [login EXCEPT !.stage = stage]
             /\ stage = "ok" => login.cookie # 0
      BY <1>4 DEF MeServed, Accepted
    <2>2. login' \in Request /\ login'.cookie = login.cookie /\ login'.stage = stage
      <3>1. login \in Request
        BY <1>1, <1>4 DEF MeServed
      <3> QED
        BY <2>1, <3>1 DEF Request
    <2> QED
      BY <1>1, <1>4, <2>1, <2>2, ServerInv DEF MeServed, server
  <1>5. CASE LoginServed
    <2>1. login # None /\ login \in Request
      BY <1>1, <1>5 DEF LoginServed
    <2>2. CASE sessions' = sessions + 1
      <3>1. sessions < MaxSessions
        BY <1>1, <1>5, <2>2 DEF LoginServed
      <3>2. sessions' \in 1 .. MaxSessions /\ sessions' \in 0 .. MaxSessions /\ sessions <= sessions'
        BY <1>1, <2>2, <3>1
      <3>3. login' = [login EXCEPT !.stage = "ok", !.cookie = sessions'] /\ valid' = sessions'
        BY <1>1, <1>5, <2>2 DEF LoginServed
      <3>4. login' \in Request /\ login'.cookie = sessions'
        BY <2>1, <3>2, <3>3 DEF Request
      <3> QED
        BY <1>1, <1>5, <2>1, <2>2, <3>2, <3>3, <3>4, ServerInv DEF LoginServed
    <2>3. CASE sessions' # sessions + 1
      <3>1. login' = [login EXCEPT !.stage = "denied"] /\ sessions' = sessions /\ valid' = valid
        BY <1>1, <1>5, <2>3 DEF LoginServed
      <3>2. login' \in Request /\ login'.cookie = login.cookie /\ login'.stage = "denied"
        BY <2>1, <3>1, RequestKept
      <3> QED
        BY <1>1, <1>5, <2>1, <3>1, <3>2, ServerInv DEF LoginServed
    <2> QED
      BY <2>2, <2>3
  <1>6. CASE LogoutServed
    <2>1. logout # None /\ logout \in Request /\ logout.cookie # 0
      BY <1>1, <1>6 DEF LogoutServed, Inv, Sent
    <2>2. PICK stage \in {"ok", "denied"} :
             logout' = [logout EXCEPT !.stage = stage] /\ (stage = "ok" => valid' = 0)
             /\ valid' \in {valid, 0}
      BY <1>6 DEF LogoutServed
    <2>3. logout' \in Request /\ logout'.cookie = logout.cookie /\ logout'.stage = stage
      BY <2>1, <2>2 DEF Request
    <2>4. /\ UNCHANGED <<cookie, user, loads, screen, history>>
          /\ version' = version /\ sessions' = sessions /\ login' = login
      BY <1>6 DEF LogoutServed
    <2>5. logout' # None /\ (logout'.stage = "ok" => logout.cookie # valid')
      BY <2>1, <2>2, <2>3
    <2> QED
      BY <1>1, <2>1, <2>2, <2>3, <2>4, <2>5, ServerInv
  <1>7. CASE LoginLost
    <2>1. login' \in Request /\ login'.cookie = login.cookie /\ login'.stage = "failed" /\ login # None
      BY <1>1, <1>7, RequestKept DEF LoginLost
    <2> QED
      BY <1>1, <1>7, <2>1, ServerInv DEF LoginLost, server
  <1>8. CASE LogoutLost
    <2>1. logout' \in Request /\ logout'.cookie = logout.cookie /\ logout'.stage = "failed" /\ logout # None
      BY <1>1, <1>8, RequestKept DEF LogoutLost
    <2> QED
      BY <1>1, <1>8, <2>1, ServerInv DEF LogoutLost, server
  <1> QED
    BY <1>2, <1>3, <1>4, <1>5, <1>6, <1>7, <1>8 DEF AnyServer, AnyLost

-----------------------------------------------------------------------------
\* A step of one load on its way: the screen and the sessions stay as they are.
LEMMA LoadKeptInv ==
    ASSUME NEW s \in Slots, NEW load \in LoadState, Inv, loads[s] # None,
           loads' = [loads EXCEPT ![s] = load],
           load.cookie = loads[s].cookie,
           load.stage = "denied" => load.cookie # valid,
           load.tally # None => load.total # None,
           load.total \in {loads[s].total, version, None},
           load.tally \in {loads[s].tally, version, None},
           load.rows \in {loads[s].rows, version, None},
           UNCHANGED <<server, cookie, user, login, logout, screen, history>>
    PROVE  Inv'
  <1> USE Numbers
  <1>1. /\ loads'[s] = load /\ load # None
        /\ \A t \in Slots \ {s} : loads'[t] = loads[t]
        /\ loads' \in [Slots -> LoadState \cup {None}]
    BY DEF Inv, TypeOK
  <1>2. /\ version' = version /\ sessions' = sessions /\ valid' = valid /\ cookie' = cookie
        /\ user' = user /\ login' = login /\ logout' = logout /\ loading' = loading
        /\ loadError' = loadError /\ figures' = figures /\ askedAt' = askedAt
        /\ overlapped' = overlapped
    BY DEF server, screen, history
  <1>3. TypeOK'
    BY <1>1, <1>2 DEF Inv, TypeOK
  <1>4. ASSUME NEW t \in Slots, loads'[t] # None
        PROVE  /\ loads'[t].cookie # 0 /\ loads'[t].cookie <= sessions
               /\ loads'[t].stage = "denied" => loads'[t].cookie # valid
               /\ loads'[t].tally # None => loads'[t].total # None
    <2>1. CASE t = s
      BY <1>1, <2>1 DEF Inv, Sent
    <2>2. CASE t # s
      BY <1>1, <1>4, <2>2 DEF Inv, Sent, Counted
    <2> QED
      BY <2>1, <2>2
  <1>5. Sent' /\ Counted'
    BY <1>2, <1>4 DEF Inv, Sent, Counted
  <1>6. Settled'
    <2>1. \A t \in Slots : loads'[t] = None <=> loads[t] = None
      BY <1>1
    <2>2. Since(version) /\ Since(None)
      BY DEF Inv, Settled, Since, TypeOK, Versions
    <2>3. ASSUME ~overlapped, NEW t \in Slots, loads'[t] # None
          PROVE  loading /\ Since(loads'[t].total) /\ Since(loads'[t].tally) /\ Since(loads'[t].rows)
      <3>1. /\ loading
            /\ Since(loads[t].total) /\ Since(loads[t].tally) /\ Since(loads[t].rows)
        BY <2>1, <2>3 DEF Inv, Settled
      <3>2. CASE t = s
        <4>1. /\ loads'[t].total \in {loads[t].total, version, None}
              /\ loads'[t].tally \in {loads[t].tally, version, None}
              /\ loads'[t].rows \in {loads[t].rows, version, None}
          BY <1>1, <3>2
        <4> QED
          BY <2>2, <3>1, <4>1
      <3>3. CASE t # s
        BY <1>1, <3>1, <3>3
      <3> QED
        BY <3>2, <3>3
    <2> QED
      BY <1>2, <2>1, <2>3 DEF Inv, Settled, Since
  <1> QED
    BY <1>3, <1>5, <1>6 DEF Inv

\* A load of which nothing is left but its cookie.
LEMMA BrokenInv ==
    ASSUME NEW s \in Slots, NEW stage \in {"denied", "failed"}, Inv, loads[s] # None,
           loads' = Broken(s, stage),
           stage = "denied" => loads[s].cookie # valid,
           UNCHANGED <<server, cookie, user, login, logout, screen, history>>
    PROVE  Inv'
  <1> DEFINE load == [stage |-> stage, cookie |-> loads[s].cookie,
                      total |-> None, tally |-> None, rows |-> None]
  <1>1. load \in LoadState
    BY LoadType DEF Inv, LoadState
  <1>2. /\ load.cookie = loads[s].cookie /\ load.stage = stage
        /\ load.total = None /\ load.tally = None /\ load.rows = None
        /\ loads' = [loads EXCEPT ![s] = load]
    BY DEF Broken
  <1> HIDE DEF load
  <1> QED
    BY <1>1, <1>2, LoadKeptInv

LEMMA ReadingInv ==
    ASSUME NEW s \in Slots, Inv, CountTotal(s) \/ CountTally(s) \/ ListAssets(s)
    PROVE  Inv'
  <1> USE Numbers
  <1>1. /\ loads[s] # None /\ loads[s].stage = "open"
        /\ UNCHANGED <<server, cookie, user, login, logout, screen, history>>
    BY DEF CountTotal, CountTally, ListAssets, Open
  <1>2. loads[s] \in LoadState /\ (loads[s].tally # None => loads[s].total # None)
        /\ version \in Versions
    BY <1>1, LoadType DEF Inv, Counted, TypeOK
  <1>3. version # None
    BY <1>2 DEF Versions
  <1>4. CASE CountTotal(s)
    <2> DEFINE load == [loads[s] EXCEPT !.total = version]
    <2>1. load \in LoadState
      BY <1>2 DEF LoadState
    <2>2. /\ load.cookie = loads[s].cookie /\ load.stage = "open"
          /\ load.total = version /\ load.tally = loads[s].tally /\ load.rows = loads[s].rows
          /\ loads' = [loads EXCEPT ![s] = load]
      BY <1>1, <1>2, <1>4 DEF CountTotal, LoadState
    <2> HIDE DEF load
    <2> QED
      BY <1>1, <1>2, <1>3, <2>1, <2>2, LoadKeptInv
  <1>5. CASE CountTally(s)
    <2> DEFINE load == [loads[s] EXCEPT !.tally = version]
    <2>1. load \in LoadState
      BY <1>2 DEF LoadState
    <2>2. /\ load.cookie = loads[s].cookie /\ load.stage = "open"
          /\ load.total = loads[s].total /\ load.tally = version /\ load.rows = loads[s].rows
          /\ loads' = [loads EXCEPT ![s] = load] /\ load.total # None
      BY <1>1, <1>2, <1>5 DEF CountTally, LoadState
    <2> HIDE DEF load
    <2> QED
      BY <1>1, <1>2, <2>1, <2>2, LoadKeptInv
  <1>6. CASE ListAssets(s)
    <2> DEFINE load == [loads[s] EXCEPT !.rows = version]
    <2>1. load \in LoadState
      BY <1>2 DEF LoadState
    <2>2. /\ load.cookie = loads[s].cookie /\ load.stage = "open"
          /\ load.total = loads[s].total /\ load.tally = loads[s].tally /\ load.rows = version
          /\ loads' = [loads EXCEPT ![s] = load]
      BY <1>1, <1>2, <1>6 DEF ListAssets, LoadState
    <2> HIDE DEF load
    <2> QED
      BY <1>1, <1>2, <2>1, <2>2, LoadKeptInv
  <1> QED
    BY <1>4, <1>5, <1>6

LEMMA NotReadInv == ASSUME NEW s \in Slots, Inv, Deny(s) \/ LoadLost(s) PROVE Inv'
  <1>1. CASE Deny(s)
    <2>1. loads[s] # None /\ loads[s].cookie # valid
      BY <1>1 DEF Deny, Open, Accepted, Inv, Sent
    <2> QED
      BY <1>1, <2>1, BrokenInv DEF Deny
  <1>2. CASE LoadLost(s)
    BY <1>2, BrokenInv DEF LoadLost
  <1> QED
    BY <1>1, <1>2

-----------------------------------------------------------------------------
\* load() makes the loads typed, sent with a cookie, and told by the flag.
LEMMA LoadFacts ==
    ASSUME NEW s \in Slots, NEW c \in 1 .. sessions, Inv, Load(s, c),
           UNCHANGED version, sessions' = sessions, valid' = valid
    PROVE  /\ loads' \in [Slots -> LoadState \cup {None}]
           /\ loading' = TRUE /\ askedAt' = version /\ overlapped' \in BOOLEAN
           /\ loadError' = loadError /\ figures' = figures
           /\ \A t \in Slots :
                 loads'[t] # None =>
                    /\ loads'[t].cookie # 0 /\ loads'[t].cookie <= sessions
                    /\ loads'[t].stage = "denied" => loads'[t].cookie # valid
           /\ Counted'
           /\ Settled'
  <1> USE Numbers
  <1> DEFINE load == [stage |-> "open", cookie |-> c, total |-> None, tally |-> None, rows |-> None]
  <1>1. c \in Nat /\ c # 0 /\ c <= sessions /\ c \in 0 .. MaxSessions
    BY DEF Inv, TypeOK
  <1>2. load \in LoadState
    BY <1>1 DEF LoadState
  <1>3. /\ load.stage = "open" /\ load.cookie = c /\ load.total = None /\ load.tally = None
        /\ load.rows = None /\ load # None
    BY <1>2
  <1>4. loads' = [loads EXCEPT ![s] = load] /\ loads[s] = None
    BY DEF Load
  <1> HIDE DEF load
  <1>5. /\ loads'[s] = load
        /\ \A t \in Slots \ {s} : loads'[t] = loads[t]
        /\ loads' \in [Slots -> LoadState \cup {None}]
    BY <1>2, <1>4 DEF Inv, TypeOK
  <1>6. /\ loading' = TRUE /\ askedAt' = version /\ loadError' = loadError /\ figures' = figures
        /\ overlapped' = (\E t \in Slots : loads[t] # None)
    BY DEF Load
  <1>7. overlapped' \in BOOLEAN
    BY <1>6
  <1>8. ASSUME NEW t \in Slots, loads'[t] # None
        PROVE  /\ loads'[t].cookie # 0 /\ loads'[t].cookie <= sessions
               /\ loads'[t].stage = "denied" => loads'[t].cookie # valid
               /\ loads'[t].tally # None => loads'[t].total # None
    <2>1. CASE t = s
      BY <1>1, <1>3, <1>5, <2>1
    <2>2. CASE t # s
      BY <1>5, <1>8, <2>2 DEF Inv, Sent, Counted
    <2> QED
      BY <2>1, <2>2
  <1>9. Counted'
    BY <1>8 DEF Counted
  <1>10. Settled'
    <2>1. askedAt' <= version'
      BY <1>6 DEF Inv, TypeOK, Versions
    <2>2. ASSUME ~overlapped'
          PROVE  \A t \in Slots : t # s => loads'[t] = None
      BY <1>5, <1>6, <2>2
    <2> QED
      BY <1>3, <1>5, <1>6, <2>1, <2>2 DEF Settled, Since
  <1> QED
    BY <1>5, <1>6, <1>7, <1>8, <1>9, <1>10

LEMMA RefreshInv == ASSUME NEW s \in Slots, Inv, Refresh(s) PROVE Inv'
  <1>1. cookie \in 1 .. sessions
    BY Numbers DEF Refresh, Inv, TypeOK, Sent
  <1>2. /\ version' = version /\ sessions' = sessions /\ valid' = valid /\ cookie' = cookie
        /\ user' = user /\ login' = login /\ logout' = logout /\ Load(s, cookie)
    BY DEF Refresh, server
  <1>3. /\ loads' \in [Slots -> LoadState \cup {None}]
        /\ loading' = TRUE /\ askedAt' = version /\ overlapped' \in BOOLEAN
        /\ loadError' = loadError /\ figures' = figures
        /\ \A t \in Slots :
              loads'[t] # None =>
                 /\ loads'[t].cookie # 0 /\ loads'[t].cookie <= sessions
                 /\ loads'[t].stage = "denied" => loads'[t].cookie # valid
        /\ Counted' /\ Settled'
    BY <1>1, <1>2, LoadFacts
  <1>4. TypeOK'
    BY <1>2, <1>3 DEF Inv, TypeOK
  <1>5. Sent'
    BY <1>2, <1>3 DEF Inv, Sent
  <1> QED
    BY <1>3, <1>4, <1>5 DEF Inv

LEMMA LoginAnsweredInv == Inv /\ LoginAnswered => Inv'
  <1> SUFFICES ASSUME Inv, LoginAnswered PROVE Inv'
    OBVIOUS
  <1>1. /\ login # None /\ login \in Request /\ login' = None /\ user # "in"
        /\ version' = version /\ sessions' = sessions /\ valid' = valid /\ logout' = logout
    BY DEF LoginAnswered, server, Inv, TypeOK, Sent
  <1>2. CASE login.stage = "ok"
    <2>1. login.cookie \in 1 .. sessions
      BY <1>1, <1>2, Numbers DEF Inv, TypeOK, Sent, Request
    <2>2. user' = "in" /\ cookie' = login.cookie
      BY <1>2 DEF LoginAnswered
    <2>3. PICK s \in Slots : Load(s, login.cookie)
      BY <1>2 DEF LoginAnswered
    <2>4. /\ loads' \in [Slots -> LoadState \cup {None}]
          /\ loading' = TRUE /\ askedAt' = version /\ overlapped' \in BOOLEAN
          /\ loadError' = loadError /\ figures' = figures
          /\ \A t \in Slots :
                loads'[t] # None =>
                   /\ loads'[t].cookie # 0 /\ loads'[t].cookie <= sessions
                   /\ loads'[t].stage = "denied" => loads'[t].cookie # valid
          /\ Counted' /\ Settled'
      BY <1>1, <2>1, <2>3, LoadFacts
    <2>5. cookie' \in 0 .. sessions /\ cookie' # 0
      BY <2>1, <2>2 DEF Inv, TypeOK
    <2>6. TypeOK'
      BY <1>1, <2>2, <2>4, <2>5 DEF Inv, TypeOK
    <2>7. Sent'
      BY <1>1, <2>2, <2>4, <2>5 DEF Inv, Sent
    <2> QED
      BY <2>4, <2>6, <2>7 DEF Inv
  <1>3. CASE login.stage # "ok"
    <2>1. /\ user' = "none" /\ cookie' = cookie /\ loads' = loads /\ loading' = loading
          /\ loadError' = loadError /\ figures' = figures /\ askedAt' = askedAt
          /\ overlapped' = overlapped
      BY <1>3 DEF LoginAnswered, screen, history
    <2>2. TypeOK'
      BY <1>1, <2>1 DEF Inv, TypeOK
    <2>3. Sent' /\ Counted'
      BY <1>1, <2>1 DEF Inv, Sent, Counted
    <2>4. Settled'
      BY <1>1, <2>1 DEF Inv, Settled, Since
    <2> QED
      BY <2>2, <2>3, <2>4 DEF Inv
  <1> QED
    BY <1>2, <1>3

LEMMA SubmitInv == Inv /\ (SubmitLogin \/ SubmitLogout) => Inv'
  <1> SUFFICES ASSUME Inv, SubmitLogin \/ SubmitLogout PROVE Inv'
    OBVIOUS
  <1>1. cookie \in 0 .. MaxSessions /\ cookie \in 0 .. sessions /\ cookie <= sessions
    BY Numbers DEF Inv, TypeOK
  <1>2. /\ version' = version /\ sessions' = sessions /\ valid' = valid /\ cookie' = cookie
        /\ user' = user /\ loads' = loads /\ loading' = loading
        /\ loadError' = loadError /\ figures' = figures /\ askedAt' = askedAt
        /\ overlapped' = overlapped
    BY DEF SubmitLogin, SubmitLogout, server, screen, history
  <1>3. Counted' /\ Settled'
    BY <1>2 DEF Inv, Counted, Settled, Since
  <1>4. CASE SubmitLogin
    <2>1. /\ login' \in Request /\ login'.cookie = cookie /\ login'.stage = "sent" /\ logout' = logout
          /\ user = "none"
      BY <1>1, <1>4 DEF SubmitLogin, Request
    <2>2. TypeOK'
      BY <1>2, <2>1 DEF Inv, TypeOK
    <2>3. Sent'
      BY <1>1, <1>2, <2>1 DEF Inv, Sent
    <2> QED
      BY <1>3, <2>2, <2>3 DEF Inv
  <1>5. CASE SubmitLogout
    <2>1. /\ logout' \in Request /\ logout'.cookie = cookie /\ logout'.stage = "sent" /\ login' = login
          /\ cookie # 0
      BY <1>1, <1>5 DEF SubmitLogout, Request, Inv, Sent
    <2>2. TypeOK'
      BY <1>2, <2>1 DEF Inv, TypeOK
    <2>3. Sent'
      BY <1>1, <1>2, <2>1 DEF Inv, Sent
    <2> QED
      BY <1>3, <2>2, <2>3 DEF Inv
  <1> QED
    BY <1>4, <1>5

LEMMA LogoutAnsweredInv == Inv /\ LogoutAnswered => Inv'
  <1> SUFFICES ASSUME Inv, LogoutAnswered PROVE Inv'
    OBVIOUS
  <1>1. /\ version' = version /\ sessions' = sessions /\ valid' = valid /\ cookie' = cookie
        /\ login' = login /\ logout' = None /\ loads' = loads /\ loading' = loading
        /\ figures' = figures /\ askedAt' = askedAt /\ overlapped' = overlapped
        /\ \/ user' = "none" /\ loadError' = loadError
           \/ user' = user /\ loadError' = "logout"
    BY DEF LogoutAnswered, server, history
  <1>2. TypeOK'
    BY <1>1 DEF Inv, TypeOK
  <1>3. Sent' /\ Counted'
    BY <1>1 DEF Inv, Sent, Counted
  <1>4. Settled'
    BY <1>1 DEF Inv, Settled, Since
  <1> QED
    BY <1>2, <1>3, <1>4 DEF Inv

LEMMA LoadAnsweredInv == ASSUME NEW s \in Slots, Inv, LoadAnswered(s) PROVE Inv'
  <1> USE Numbers
  <1>1. /\ version' = version /\ sessions' = sessions /\ valid' = valid /\ cookie' = cookie
        /\ login' = login /\ logout' = logout /\ loading' = FALSE
        /\ askedAt' = askedAt /\ overlapped' = overlapped
        /\ loads[s] # None
    BY DEF LoadAnswered, server, history
  <1>2. /\ loads'[s] = None
        /\ \A t \in Slots \ {s} : loads'[t] = loads[t]
        /\ loads' \in [Slots -> LoadState \cup {None}]
    BY DEF LoadAnswered, Inv, TypeOK
  <1>3. Sent'
    <2>1. \A t \in Slots : loads'[t] # None => loads'[t] = loads[t]
      BY <1>2
    <2>2. user' = user \/ user' = "none"
      BY DEF LoadAnswered
    <2> QED
      BY <1>1, <2>1, <2>2 DEF Inv, Sent
  <1>4. Counted'
    BY <1>2 DEF Inv, Counted
  <1>5. CASE loads[s].stage = "open"
    <2>1. /\ figures' = [total |-> loads[s].total, tally |-> loads[s].tally, rows |-> loads[s].rows]
          /\ loadError' = "none" /\ user' = user
          /\ loads[s].tally # None /\ loads[s].rows # None
      BY <1>5 DEF LoadAnswered, Answered
    <2>2. loads[s].total \in Versions /\ loads[s].tally \in Versions /\ loads[s].rows \in Versions
      BY <1>1, <2>1, LoadType DEF Inv, Counted
    <2>3. figures' \in Figures /\ figures' # None
      BY <2>1, <2>2 DEF Figures
    <2>4. TypeOK'
      BY <1>1, <1>2, <2>1, <2>3 DEF Inv, TypeOK
    <2>5. Settled'
      <3>1. askedAt' <= version'
        BY <1>1 DEF Inv, Settled
      <3>2. ASSUME ~overlapped
            PROVE  /\ \A t \in Slots : loads'[t] = None
                   /\ figures'.total >= askedAt /\ figures'.tally >= askedAt
                   /\ figures'.rows >= askedAt
        <4>1. \A t \in Slots \ {s} : loads[t] = None
          BY <1>1, <3>2 DEF Inv, Settled
        <4>2. Since(loads[s].total) /\ Since(loads[s].tally) /\ Since(loads[s].rows)
          BY <1>1, <3>2 DEF Inv, Settled
        <4>3. loads[s].total # None
          BY <2>2 DEF Versions
        <4> QED
          BY <1>2, <2>1, <4>1, <4>2, <4>3 DEF Since
      <3> QED
        BY <1>1, <2>3, <3>1, <3>2 DEF Settled
    <2> QED
      BY <1>3, <1>4, <2>4, <2>5 DEF Inv
  <1>6. CASE loads[s].stage # "open"
    <2>1. /\ figures' = figures
          /\ \/ user' = "none" /\ loadError' = loadError
             \/ user' = user /\ loadError' = "load"
      BY <1>6 DEF LoadAnswered
    <2>2. TypeOK'
      BY <1>1, <1>2, <2>1 DEF Inv, TypeOK
    <2>3. Settled'
      <3>1. askedAt' <= version'
        BY <1>1 DEF Inv, Settled
      <3>2. ASSUME ~overlapped
            PROVE  \A t \in Slots : loads'[t] = None
        BY <1>1, <1>2, <3>2 DEF Inv, Settled
      <3> QED
        BY <1>1, <2>1, <3>1, <3>2 DEF Settled
    <2> QED
      BY <1>3, <1>4, <2>2, <2>3 DEF Inv
  <1> QED
    BY <1>5, <1>6

-----------------------------------------------------------------------------
LEMMA StepInv == Inv /\ [Next]_vars => Inv'
  <1> SUFFICES ASSUME Inv, [Next]_vars PROVE Inv'
    OBVIOUS
  <1>1. CASE AnyServer \/ AnyLost
    BY <1>1, AnyServerInv
  <1>2. CASE AnyScreen
    BY <1>2, LoginAnsweredInv, SubmitInv, LogoutAnsweredInv DEF AnyScreen
  <1>3. ASSUME NEW s \in Slots, LoadStep(s) PROVE Inv'
    BY <1>3, ReadingInv, NotReadInv, LoadAnsweredInv, RefreshInv DEF LoadStep
  <1>4. CASE UNCHANGED vars
    BY <1>4 DEF vars, server, screen, history, Inv, TypeOK, Sent, Counted, Settled, Since
  <1> QED
    BY <1>1, <1>2, <1>3, <1>4 DEF Next

\* The inductive invariant holds in every reachable state.
THEOREM Invariance == Spec => []Inv
  BY InitInv, StepInv, PTL DEF Spec

\* Type correctness of the console's session and data.
THEOREM TypeCorrect == Spec => []TypeOK
  <1>1. Inv => TypeOK
    BY DEF Inv
  <1> QED
    BY <1>1, Invariance, PTL

\* A page that tells neither loading nor an error shows data as new as its latest load,
\* unless loads have overlapped.
THEOREM FreshWhenSettled == Spec => []SettledIsFresh
  <1>1. Inv => SettledIsFresh
    BY DEF Inv, Settled, SettledIsFresh
  <1> QED
    BY <1>1, Invariance, PTL

\* The administrator is signed out on the screen because the session has ended, or by an
\* answer to a request of an earlier session.
THEOREM SignOutsHaveCause == Spec => SignedOutHasCause
  <1>1. ASSUME Inv, [Next]_vars, user = "in", user' = "none", valid = cookie
        PROVE  LateAnswer
    <2>1. ASSUME NEW s \in Slots, LoadAnswered(s) PROVE LateAnswer
      <3>1. loads[s] # None /\ loads'[s] = None /\ loads[s].stage = "denied"
        BY <1>1, <2>1 DEF LoadAnswered, SignsOut, Inv, TypeOK
      <3>2. loads[s].cookie # cookie
        BY <1>1, <3>1 DEF Inv, Sent
      <3> QED
        BY <3>1, <3>2 DEF LateAnswer
    <2>2. CASE LogoutAnswered
      <3>1. logout # None /\ logout' = None /\ logout.stage = "ok"
        BY <1>1, <2>2 DEF LogoutAnswered
      <3>2. logout.cookie # cookie
        BY <1>1, <3>1 DEF Inv, Sent
      <3> QED
        BY <3>1, <3>2 DEF LateAnswer
    <2>3. CASE LoginAnswered
      BY <1>1, <2>3 DEF LoginAnswered, Inv, Sent
    <2>4. user' # user
      BY <1>1
    <2>5. ~AnyServer /\ ~AnyLost /\ ~SubmitLogin /\ ~SubmitLogout /\ ~UNCHANGED vars
      BY <2>4 DEF AnyServer, AnyLost, Change, Expire, MeServed, LoginServed, LogoutServed,
                  LoginLost, LogoutLost, SubmitLogin, SubmitLogout, vars
    <2>6. ASSUME NEW s \in Slots, LoadStep(s) PROVE LoadAnswered(s)
      BY <2>4, <2>6 DEF LoadStep, CountTotal, CountTally, ListAssets, Deny, LoadLost, Refresh
    <2> QED
      BY <1>1, <2>1, <2>2, <2>3, <2>5, <2>6 DEF Next, AnyScreen
  <1>2. Inv /\ [Next]_vars =>
           [user = "in" /\ user' = "none" /\ valid = cookie => LateAnswer]_vars
    BY <1>1
  <1> QED
    BY <1>2, Invariance, PTL DEF Spec, SignedOutHasCause

-----------------------------------------------------------------------------
\* A finite set has a subset of every smaller size.
LEMMA SubsetOfSize ==
    ASSUME NEW S, IsFiniteSet(S), NEW n \in Nat, n <= Cardinality(S)
    PROVE  \E T \in SUBSET S : IsFiniteSet(T) /\ Cardinality(T) = n
  <1>1. Cardinality(S) \in Nat /\ ExistsBijection(1 .. Cardinality(S), S)
    BY FS_CardinalityType
  <1>2. PICK f : f \in Bijection(1 .. Cardinality(S), S)
    BY <1>1 DEF ExistsBijection
  <1> DEFINE T == {f[i] : i \in 1 .. n}
             g == [i \in 1 .. n |-> f[i]]
  <1>3. \A i \in 1 .. n : i \in 1 .. Cardinality(S)
    BY <1>1
  <1>4. T \in SUBSET S
    BY <1>2, <1>3 DEF Bijection, Injection
  <1>5. \A i, j \in 1 .. n : f[i] = f[j] => i = j
    BY <1>2, <1>3 DEF Bijection, Injection, IsInjective
  <1>6. g \in [1 .. n -> T] /\ (\A i, j \in 1 .. n : g[i] = g[j] => i = j)
    BY <1>5
  <1>7. \A t \in T : \E i \in 1 .. n : g[i] = t
    OBVIOUS
  <1>8. g \in Bijection(1 .. n, T)
    BY <1>6, <1>7 DEF Bijection, Injection, Surjection, IsInjective
  <1>9. ExistsBijection(1 .. n, T)
    BY <1>8 DEF ExistsBijection
  <1>10. IsFiniteSet(1 .. n) /\ Cardinality(1 .. n) = n
    BY FS_Interval
  <1>11. IsFiniteSet(T) /\ Cardinality(T) = n
    BY <1>9, <1>10, FS_Bijection
  <1> QED
    BY <1>4, <1>11

\* A list of n assets can be chosen so that no stale one takes the place of another.
LEMMA LatestExists ==
    ASSUME NEW S, IsFiniteSet(S), NEW n \in Nat, n <= Cardinality(S), NEW Stale
    PROVE  \E latest \in SUBSET S :
              /\ Cardinality(latest) = n
              /\ \A a \in latest, b \in S \ latest : a \in Stale => b \in Stale
  <1> DEFINE Fresh == S \ Stale
             Old == S \cap Stale
  <1>1. /\ IsFiniteSet(Fresh) /\ IsFiniteSet(Old)
        /\ Cardinality(Fresh) \in Nat /\ Cardinality(Old) \in Nat /\ Cardinality(S) \in Nat
    BY FS_Subset, FS_CardinalityType
  <1>2. Fresh \cup Old = S /\ Fresh \cap Old = {} /\ Cardinality({}) = 0
    BY FS_EmptySet
  <1>3. Cardinality(S) = Cardinality(Fresh) + Cardinality(Old) - 0
    BY <1>1, <1>2, FS_Union
  <1>4. CASE n <= Cardinality(Fresh)
    <2>1. PICK T \in SUBSET Fresh : Cardinality(T) = n
      BY <1>1, <1>4, SubsetOfSize
    <2> QED
      BY <2>1
  <1>5. CASE ~(n <= Cardinality(Fresh))
    <2>1. n - Cardinality(Fresh) \in Nat /\ n - Cardinality(Fresh) <= Cardinality(Old)
      BY <1>1, <1>3, <1>5
    <2>2. PICK T \in SUBSET Old :
             IsFiniteSet(T) /\ Cardinality(T) = n - Cardinality(Fresh)
      BY <1>1, <2>1, SubsetOfSize
    <2>3. Fresh \cap T = {}
      OBVIOUS
    <2>4. Cardinality(Fresh \cup T) = Cardinality(Fresh) + (n - Cardinality(Fresh)) - 0
      <3> HIDE DEF Fresh, Old
      <3>1. Cardinality(Fresh \cup T) = Cardinality(Fresh) + Cardinality(T) - Cardinality(Fresh \cap T)
        BY <1>1, <2>2, FS_Union
      <3> QED
        BY <1>2, <2>2, <2>3, <3>1
    <2>5. Cardinality(Fresh \cup T) = n
      BY <1>1, <2>4
    <2>6. Fresh \cup T \in SUBSET S
      OBVIOUS
    <2>7. \A a \in Fresh \cup T, b \in S \ (Fresh \cup T) : a \in Stale => b \in Stale
      OBVIOUS
    <2> QED
      BY <2>5, <2>6, <2>7
  <1> QED
    BY <1>4, <1>5

LEMMA ListedType ==
    ASSUME NEW v \in Versions
    PROVE  /\ Cardinality(World[v]) <= ListLimit => Listed(v) = World[v]
           /\ Cardinality(World[v]) > ListLimit => Cardinality(Listed(v)) = ListLimit
  <1>1. IsFiniteSet(World[v]) /\ Cardinality(World[v]) \in Nat /\ ListLimit \in Nat
    BY WorldAssumption, Numbers, FS_CardinalityType DEF Versions
  <1>2. CASE Cardinality(World[v]) <= ListLimit
    BY <1>1, <1>2 DEF Listed
  <1>3. CASE Cardinality(World[v]) > ListLimit
    <2> DEFINE Stale == {a \in World[v] : a.contact = "stale"}
               IsLatest(latest) == /\ Cardinality(latest) = ListLimit
                                   /\ \A a \in latest, b \in World[v] \ latest :
                                         a.contact = "stale" => b.contact = "stale"
    <2>1. ListLimit <= Cardinality(World[v]) /\ ~(Cardinality(World[v]) <= ListLimit)
      BY <1>1, <1>3
    <2>2. \E latest \in SUBSET World[v] :
             /\ Cardinality(latest) = ListLimit
             /\ \A a \in latest, b \in World[v] \ latest : a \in Stale => b \in Stale
      <3> DEFINE W == World[v]
      <3>1. IsFiniteSet(W) /\ ListLimit \in Nat /\ ListLimit <= Cardinality(W)
        BY <1>1, <2>1
      <3> HIDE DEF W, Stale
      <3>2. \E latest \in SUBSET W :
               /\ Cardinality(latest) = ListLimit
               /\ \A a \in latest, b \in W \ latest : a \in Stale => b \in Stale
        BY ONLY <3>1, LatestExists
      <3> QED
        BY <3>2 DEF W
    <2>3. \E latest \in SUBSET World[v] : IsLatest(latest)
      BY <2>2
    <2>4. Listed(v) = CHOOSE latest \in SUBSET World[v] : IsLatest(latest)
      BY <2>1 DEF Listed
    <2>5. IsLatest(Listed(v))
      BY <2>3, <2>4
    <2> QED
      BY <1>1, <1>3, <2>5
  <1> QED
    BY <1>1, <1>2, <1>3

\* The tiles count what the filters of the list keep.
LEMMA TilesAreFilters ==
    ASSUME NEW v \in Versions, NEW filter \in {"bitlocker", "antivirus", "stale"}
    PROVE  /\ Tally(v)[filter] = Cardinality(Filtered(filter, World[v]))
           /\ Tally(v)[filter] \in Nat
  <1>1. IsFiniteSet(World[v]) /\ \A a \in World[v] : IsAsset(a)
    BY WorldAssumption DEF Versions
  <1>2. Filtered(filter, World[v]) \in SUBSET World[v]
    BY DEF Filtered
  <1>3. Cardinality(Filtered(filter, World[v])) \in Nat
    BY <1>1, <1>2, FS_Subset, FS_CardinalityType
  <1>4. CASE filter = "bitlocker"
    <2>1. {a \in World[v] : a.bitlocker \in {"off", "unknown"}} = Filtered(filter, World[v])
      BY <1>1, <1>4 DEF Filtered, IsAsset, BitLocker
    <2> QED
      BY <1>3, <1>4, <2>1 DEF Tally
  <1>5. CASE filter = "antivirus"
    <2>1. {a \in World[v] : a.antivirus \in {"other", "unknown"}} = Filtered(filter, World[v])
      BY <1>1, <1>5 DEF Filtered, IsAsset, Antivirus
    <2> QED
      BY <1>3, <1>5, <2>1 DEF Tally
  <1>6. CASE filter = "stale"
    <2>1. {a \in World[v] : a.contact = "stale"} = Filtered(filter, World[v])
      BY <1>6 DEF Filtered
    <2> QED
      BY <1>3, <1>6, <2>1 DEF Tally
  <1> QED
    BY <1>4, <1>5, <1>6

\* The share is a percentage, whatever the total and the issues.
LEMMA ComplianceRange ==
    ASSUME NEW total \in Nat, NEW issues \in Nat
    PROVE  Compliance(total, issues) \in 0 .. 100 \cup {None}
  <1> DEFINE checks == 2 * total
             share == (200 * (checks - issues) + checks) \div (2 * checks)
  <1>1. CASE checks = 0
    BY <1>1 DEF Compliance
  <1>2. CASE checks # 0 /\ issues >= checks
    BY <1>2 DEF Compliance
  <1>3. CASE checks # 0 /\ ~(issues >= checks)
    <2>1. checks \in Nat \ {0} /\ issues < checks
      BY <1>3
    <2> HIDE DEF checks
    <2> DEFINE n == 200 * (checks - issues) + checks
               d == 2 * checks
    <2>2. n \in Nat /\ d \in Nat \ {0} /\ n < 101 * d
      BY <2>1
    <2>3. n \div d \in 0 .. 100
      <3> HIDE DEF n, d
      <3>1. n \div d \in Int /\ d * (n \div d) <= n /\ n < d * (n \div d) + d
        BY <2>2
      <3>2. n \div d >= 0
        BY <2>2, <3>1
      <3>3. n \div d < 101
        BY <2>2, <3>1
      <3> QED
        BY <3>1, <3>2, <3>3
    <2>4. Compliance(total, issues) = share
      BY <1>3 DEF Compliance, checks
    <2> QED
      BY <2>3, <2>4
  <1> QED
    BY <1>1, <1>2, <1>3

\* The dashboard agrees with the list, or the list tells that it is cut, and the share is a
\* percentage, for every inventory and whatever the queries have read between them.
THEOREM DashboardAgrees == Spec => []FiguresAgree
  <1>1. ASSUME Inv, figures # None PROVE FiguresAgree
    <2>1. figures.total \in Versions /\ figures.tally \in Versions /\ figures.rows \in Versions
      BY <1>1 DEF Inv, TypeOK, Figures
    <2>2. Cardinality(World[figures.total]) \in Nat /\ Cardinality(World[figures.rows]) \in Nat
          /\ ListLimit \in Nat
      BY <2>1, WorldAssumption, Numbers, FS_CardinalityType DEF Versions
    <2>3. Dashboard.tiles = Tally(figures.tally)
      BY DEF Dashboard
    <2>4. ASSUME figures.tally = figures.rows, Cardinality(World[figures.rows]) <= ListLimit,
                 NEW filter \in {"bitlocker", "antivirus", "stale"}
          PROVE  Dashboard.tiles[filter] = Cardinality(Filtered(filter, Listed(figures.rows)))
      <3>1. Listed(figures.rows) = World[figures.rows]
        BY <2>1, <2>4, ListedType
      <3> QED
        BY <2>1, <2>3, <2>4, <3>1, TilesAreFilters
    <2>5. Cardinality(World[figures.rows]) > ListLimit => LimitNotice
      BY <2>1, <2>2, ListedType DEF LimitNotice
    <2>6. Dashboard.compliance \in 0 .. 100 \cup {None}
      <3> DEFINE tally == Tally(figures.tally)
      <3>1. tally["bitlocker"] \in Nat /\ tally["antivirus"] \in Nat
        BY <2>1, TilesAreFilters
      <3>2. tally.bitlocker + tally.antivirus \in Nat
        BY <3>1
      <3>3. Dashboard.compliance =
              Compliance(Cardinality(World[figures.total]), tally.bitlocker + tally.antivirus)
        BY DEF Dashboard
      <3> HIDE DEF tally
      <3> QED
        BY <2>2, <3>2, <3>3, ComplianceRange
    <2> QED
      BY <2>4, <2>5, <2>6 DEF FiguresAgree
  <1>2. Inv => FiguresAgree
    BY <1>1 DEF FiguresAgree
  <1> QED
    BY <1>2, Invariance, PTL
=============================================================================
