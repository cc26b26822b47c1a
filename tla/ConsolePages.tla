--------------------------- MODULE ConsolePages ---------------------------
(***************************************************************************)
(* The pages of the administrator console that fetch their own data        *)
(* (src/frontend/src.jsx): agent releases, update history, inspection log, *)
(* server monitoring and software compliance.                              *)
(*                                                                         *)
(* One page is mounted at a time.  It loads when it is mounted, then by a  *)
(* timer, an event, a button, or after a command it has sent; loads and    *)
(* commands overlap, and their answers arrive in any order or not at all.  *)
(* The answer to a load of a page that has been left is ignored (React     *)
(* drops the state of an unmounted component), the command is not undone.  *)
(* Release, history and guide are views of ONE component (AgentOps): its   *)
(* own state survives a change between them, their lists do not.           *)
(*                                                                         *)
(* Data are numbered: version counts the changes made on the server.  A    *)
(* command that has an effect makes a new version.                         *)
(***************************************************************************)
EXTENDS Naturals

CONSTANTS
    None,         \* nothing shown; a slot without a task
    Slots,        \* bound: tasks under way at once
    MaxVersion,   \* bound: changes of the data
    MaxFailures   \* bound: loads that fail

ASSUME BoundAssumption == MaxVersion \in Nat /\ MaxFailures \in Nat
VARIABLES
    version,    \* changes of the server's data so far
    failures,   \* loads that have failed so far
    page,       \* the page on the screen
    openedAt,   \* version when the page was mounted
    rows,       \* version of the data on the page
    error,      \* none, load or command: what the page says in place of the list
    loading,    \* the page's loading flag
    busy,       \* busy, or uploading in AgentOps
    message,    \* none, working, done or failed: the line below a form
    tasks       \* what each slot is at: a load, or a command and the load after it

screen == <<openedAt, rows, error, loading, busy, message>>
vars == <<version, failures, page, screen, tasks>>

AgentOps == {"release", "history", "guide"}
Pages == AgentOps \cup {"inspection", "monitoring", "compliance", "home"}

\* Pages with data of their own.  Home stands for the dashboard and the asset list, whose
\* data belong to App (ConsoleSession).
Lists == Pages \ {"guide", "home"}

FormCommands == {"upload", "run", "add", "sync"}
Commands == FormCommands \cup {"remove"}

PageOf(command) ==
    CASE command = "upload" -> "release"
      [] command = "run"    -> "inspection"
      [] OTHER              -> "compliance"

\* A command is sent, then applied or refused; a load is asked, then read or unread.  The
\* load that follows a command stays the command's task: its handler awaits it.  effect is
\* the version an announced command made and seen the version the load has read.  here: the answer
\* belongs to the component on the screen; beside: a removal was under way at the
\* same time, or a command so disturbed (kept for the property NoDoubleSubmit).
Task == [kind   : Commands \cup {"load"},
         stage  : {"sent", "applied", "refused", "asked", "read", "unread"},
         effect : 0 .. MaxVersion,
         seen   : 0 .. MaxVersion,
         here   : BOOLEAN,
         beside : BOOLEAN]

ASSUME NoneAssumption == None \notin Nat /\ None \notin Task

At(s, stage) == tasks[s] # None /\ tasks[s].stage = stage

\* The task of slot s is a load, or has come to its load.
Loading(s) == At(s, "asked") \/ At(s, "read") \/ At(s, "unread")

Init ==
    /\ version = 0
    /\ failures = 0
    /\ page = "home"
    /\ openedAt = 0
    /\ rows = None
    /\ error = "none"
    /\ loading = FALSE
    /\ busy = FALSE
    /\ message = "none"
    /\ tasks = [s \in Slots |-> None]

-----------------------------------------------------------------------------
\* Other administrators, the agents and the nightly jobs change the data.
Change ==
    /\ version < MaxVersion
    /\ version' = version + 1
    /\ UNCHANGED <<failures, page, screen, tasks>>

LoadTask == [kind |-> "load", stage |-> "asked", effect |-> 0, seen |-> 0,
             here |-> TRUE, beside |-> FALSE]

\* load(): the flag is set and the request is on its way.
Load(s) ==
    /\ tasks[s] = None
    /\ tasks' = [tasks EXCEPT ![s] = LoadTask]
    /\ loading' = TRUE
    /\ UNCHANGED <<version, failures, page, openedAt, rows, error, busy, message>>

\* Mutant: the timer stops with the first error.
UpdateHistoryLoadUntilError(s) == page = "history" /\ error = "none" /\ Load(s)

\* Every 30 seconds.
UpdateHistoryLoad(s) == page = "history" /\ Load(s)

\* Every 60 seconds.
InspectionLogLoad(s) == page = "inspection" /\ Load(s)

\* Every 20 seconds, and by a button that is never disabled.
ServerMonitoringLoad(s) == page = "monitoring" /\ Load(s)

\* The button of the notice that the load failed.
ComplianceRetry(s) == page = "compliance" /\ error = "load" /\ Load(s)

-----------------------------------------------------------------------------
\* AgentOps stays mounted between its views.
Kept(p) == {page, p} \subseteq AgentOps

\* Mutant: the answers to the loads of the page that is left still reach the screen.
LeftBehindAll(p) ==
    [s \in Slots |->
        IF tasks[s] = None \/ Loading(s) THEN tasks[s]
        ELSE [tasks[s] EXCEPT !.here = Kept(p) /\ tasks[s].here]]

\* The tasks that go on when the page is left for p: commands not answered yet.  Loads are
\* dropped, with what their handlers would still do to the screen.
LeftBehind(p) ==
    [s \in Slots |->
        IF tasks[s] = None \/ Loading(s) THEN None
        ELSE [tasks[s] EXCEPT !.here   = Kept(p) /\ tasks[s].here,
                              !.beside = Kept(p) /\ tasks[s].beside]]

\* The page p takes the place of another, in its initial state, and starts its load.
Open(p) ==
    /\ p # page
    /\ page' = p
    /\ openedAt' = version
    /\ rows' = None
    /\ error' = "none"
    /\ loading' = (p \in Lists)
    /\ busy' = (Kept(p) /\ busy)
    /\ message' = IF Kept(p) THEN message ELSE "none"
    /\ IF p \in Lists
       THEN \E s \in Slots :
               /\ LeftBehind(p)[s] = None
               /\ tasks' = [LeftBehind(p) EXCEPT ![s] = LoadTask]
       ELSE tasks' = LeftBehind(p)
    /\ UNCHANGED <<version, failures>>

-----------------------------------------------------------------------------
\* Mutant: the button is not disabled while the command is under way.
ReadyAlways(command) == TRUE

\* The buttons of the forms are disabled while the page is busy, those that remove a policy
\* are not.
Ready(command) == command = "remove" \/ ~busy

\* A removal is under way, or a command that one has run beside: it may end, and set the
\* busy flag back, before the command whose flag it is.
Disturbing(s) ==
    tasks[s] # None /\ tasks[s].here /\ (tasks[s].kind = "remove" \/ tasks[s].beside)

\* The handler of a command sets the busy flag and sends it.
Submit(command, s) ==
    /\ page = PageOf(command)
    /\ Ready(command)
    /\ tasks[s] = None
    /\ busy' = TRUE
    /\ tasks' =
         [t \in Slots |->
            IF t = s
            THEN [kind |-> command, stage |-> "sent", effect |-> 0, seen |-> 0,
                  here |-> TRUE, beside |-> \E u \in Slots : Disturbing(u)]
            ELSE IF command = "remove" /\ tasks[t] # None
                 THEN [tasks[t] EXCEPT !.beside = TRUE]
                 ELSE tasks[t]]
    /\ UNCHANGED <<version, failures, page, openedAt, rows, error, loading>>

Upload(s) == Submit("upload", s) /\ message' = "working"

RunInspection(s) == Submit("run", s) /\ UNCHANGED message

AddPolicy(s) == Submit("add", s) /\ UNCHANGED message

RemovePolicy(s) == Submit("remove", s) /\ UNCHANGED message

SyncPolicies(s) == Submit("sync", s) /\ UNCHANGED message

-----------------------------------------------------------------------------
\* The page announces the effect of this command together with its data.
Announced(s) == tasks[s].here /\ tasks[s].kind \in {"add", "remove"}

\* The server carries the command out.  Its answer may be lost: the console then sees an
\* error for a command that has had its effect.
Apply(s) ==
    /\ At(s, "sent")
    /\ version < MaxVersion
    /\ version' = version + 1
    /\ \/ tasks' = [tasks EXCEPT ![s].stage = "applied",
                               ![s].effect = IF Announced(s) THEN version + 1 ELSE 0]
       \/ tasks' = [tasks EXCEPT ![s].stage = "refused"]
    /\ UNCHANGED <<failures, page, screen>>

\* The server refuses the command, or the command does not reach it.
Refuse(s) ==
    /\ At(s, "sent")
    /\ tasks' = [tasks EXCEPT ![s].stage = "refused"]
    /\ UNCHANGED <<version, failures, page, screen>>

\* The source of the public list is not configured: an answer without an effect.
AnswerNotConfigured(s) ==
    /\ At(s, "sent") /\ tasks[s].kind = "sync"
    /\ tasks' = [tasks EXCEPT ![s].stage = "applied"]
    /\ UNCHANGED <<version, failures, page, screen>>

Read(s) ==
    /\ At(s, "asked")
    /\ tasks' = [tasks EXCEPT ![s].stage = "read", ![s].seen = version]
    /\ UNCHANGED <<version, failures, page, screen>>

\* The load fails: no connection, an error of the server, or a session that has ended.
FailRead(s) ==
    /\ At(s, "asked")
    /\ failures < MaxFailures
    /\ failures' = failures + 1
    /\ tasks' = [tasks EXCEPT ![s].stage = "unread"]
    /\ UNCHANGED <<version, page, screen>>

-----------------------------------------------------------------------------
Ended(s) == [tasks EXCEPT ![s] = None]

\* The upload is answered.  The event reaches the release list that is mounted then,
\* whoever has sent the upload.
UploadAnswered(s) ==
    /\ At(s, "applied") /\ tasks[s].kind = "upload"
    /\ IF page = "release"
       THEN loading' = TRUE /\ tasks' = [tasks EXCEPT ![s] = LoadTask]
       ELSE UNCHANGED loading /\ tasks' = Ended(s)
    /\ IF tasks[s].here
       THEN busy' = FALSE /\ message' = "done"
       ELSE UNCHANGED <<busy, message>>
    /\ UNCHANGED <<version, failures, page, openedAt, rows, error>>

\* Mutant: the handler does not wait for its load.
Unawaited(s) ==
    /\ At(s, "applied") /\ tasks[s].kind # "upload"
    /\ tasks' = Ended(s)
    /\ IF tasks[s].here
       THEN busy' = FALSE /\ message' = "done"
       ELSE UNCHANGED <<busy, message>>
    /\ UNCHANGED <<version, failures, page, openedAt, rows, error, loading>>

\* Any other command is answered: its handler loads the page's data and waits for them.
\* Only the synchronisation has told its result before that.
CommandAnswered(s) ==
    /\ At(s, "applied") /\ tasks[s].kind # "upload"
    /\ IF tasks[s].here
       THEN /\ tasks' = [tasks EXCEPT ![s].stage = "asked"]
            /\ loading' = TRUE
            /\ message' = IF tasks[s].kind = "sync" THEN "done" ELSE message
       ELSE tasks' = Ended(s) /\ UNCHANGED <<loading, message>>
    /\ UNCHANGED <<version, failures, page, openedAt, rows, error, busy>>

\* A command fails.  The inspection log says so in place of its list, the other pages below
\* their forms.
CommandFailed(s) ==
    /\ At(s, "refused")
    /\ tasks' = Ended(s)
    /\ IF tasks[s].here
       THEN /\ busy' = FALSE
            /\ IF tasks[s].kind = "run"
               THEN error' = "command" /\ UNCHANGED message
               ELSE message' = "failed" /\ UNCHANGED error
       ELSE UNCHANGED <<busy, error, message>>
    /\ UNCHANGED <<version, failures, page, openedAt, rows, loading>>

\* Mutant: a load that fails is passed over.
ErrorNever(s) == error

\* What the page says of its latest answer.
ErrorAfter(s) == IF At(s, "read") THEN "none" ELSE "load"

\* A load is answered: the data take the place of those shown, whatever the order in which
\* the loads were sent, or the error is told.  A handler that waited for it goes on.
LoadAnswered(s) ==
    /\ At(s, "read") \/ At(s, "unread")
    /\ tasks' = Ended(s)
    /\ error' = ErrorAfter(s)
    /\ rows' = IF At(s, "read") THEN tasks[s].seen ELSE rows
    /\ loading' = FALSE
    /\ busy' = (tasks[s].kind = "load" /\ busy)
    /\ message' = IF tasks[s].kind \in {"add", "remove"} THEN "done" ELSE message
    /\ UNCHANGED <<version, failures, page, openedAt>>

-----------------------------------------------------------------------------
AnyLoad(s) ==
    \/ UpdateHistoryLoad(s)
    \/ InspectionLogLoad(s)
    \/ ServerMonitoringLoad(s)
    \/ ComplianceRetry(s)

AnySubmit(s) ==
    \/ Upload(s)
    \/ RunInspection(s)
    \/ AddPolicy(s)
    \/ RemovePolicy(s)
    \/ SyncPolicies(s)

Serve(s) == Apply(s) \/ Refuse(s) \/ AnswerNotConfigured(s) \/ Read(s) \/ FailRead(s)

Answer(s) == UploadAnswered(s) \/ CommandAnswered(s) \/ CommandFailed(s) \/ LoadAnswered(s)

Next ==
    \/ Change
    \/ \E p \in Pages : Open(p)
    \/ \E s \in Slots : AnyLoad(s) \/ AnySubmit(s) \/ Serve(s) \/ Answer(s)

\* The timer of a page fires for as long as the page is open, and what has been sent is
\* answered in the end, by a result or an error.
Fairness ==
    /\ WF_vars(\E s \in Slots : UpdateHistoryLoad(s))
    /\ WF_vars(\E s \in Slots : InspectionLogLoad(s))
    /\ WF_vars(\E s \in Slots : ServerMonitoringLoad(s))
    /\ \A s \in Slots : WF_vars(Serve(s)) /\ WF_vars(Answer(s))

Spec == Init /\ [][Next]_vars /\ Fairness

-----------------------------------------------------------------------------
TypeOK ==
    /\ version \in 0 .. MaxVersion
    /\ failures \in 0 .. MaxFailures
    /\ page \in Pages
    /\ openedAt \in 0 .. MaxVersion
    /\ rows \in 0 .. MaxVersion \cup {None}
    /\ error \in {"none", "load", "command"}
    /\ loading \in BOOLEAN
    /\ busy \in BOOLEAN
    /\ message \in {"none", "working", "done", "failed"}
    /\ tasks \in [Slots -> Task \cup {None}]

\* The grid of the page says that there is nothing to list, though nothing has been read.  An
\* error takes the place of the grid, except in the compliance page; the monitoring page has
\* no grid before its first data.
SaysEmptyUnread ==
    /\ page \in Lists \ {"monitoring"}
    /\ rows = None /\ ~loading
    /\ error = "none" \/ page = "compliance"

\* No grid takes data that have not been read for no data, whatever loads overlap or fail.
\* The exception is the compliance page after a failed load, whose grids then say that no
\* installed program matches.
EmptyOnlyIfRead == SaysEmptyUnread => page = "compliance" /\ error = "load"

\* Whatever overlaps, a page shows only data the server has held since the page was opened:
\* an answer meant for the page before it, or for the page's own earlier life, never shows.
View == INSTANCE SnapshotView WITH
    current <- version,
    opened  <- IF page \in Lists THEN openedAt ELSE None,
    shown   <- rows

ViewKept == View!Spec

\* "Registered" and "deleted" appear together with data that contain the command's effect,
\* or with the error that they could not be loaded.
CommandShown ==
    [][\A s \in Slots :
          /\ tasks[s] # None /\ tasks'[s] = None
          /\ Announced(s)
          /\ page' = page
          /\ message' = "done"
          => \/ error' = "load"
             \/ rows' # None /\ rows' >= tasks[s].effect]_vars

Submission(s) == tasks[s] # None /\ tasks[s].here /\ tasks[s].kind \in FormCommands

\* A form is never submitted a second time while its first submission is under way, through
\* changes of the view and overlapping loads; only a removal beside it, which shares the busy
\* flag and ends first, sets the button free too early, until all commands have ended.  A
\* submission that was left behind is no longer this screen's: the upload view of AgentOps,
\* opened again from another page, takes a second upload while the first still runs.
NoDoubleSubmit ==
    \A s, t \in Slots :
        s # t /\ Submission(s) /\ Submission(t) => tasks[s].beside \/ tasks[t].beside

\* A page with a timer ends up showing the server's present data, after overlapping loads,
\* failures and answers out of order, once the data stay as they are.
PolledPageSettles ==
    \A p \in {"history", "inspection", "monitoring"} :
        <>[](page = p) => <>[](rows = version)
=============================================================================
