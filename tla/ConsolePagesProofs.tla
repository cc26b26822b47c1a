------------------------ MODULE ConsolePagesProofs ------------------------
(***************************************************************************)
(* Proofs about ConsolePages, for any number of tasks under way and any    *)
(* number of changes and failures.  The inductive invariant Inv says where *)
(* the tasks of the screen belong (Placed), that what they have read is    *)
(* from the page's own time (Fresh), what the page says while it has no    *)
(* data (Told), and that a submission no removal has disturbed is the only *)
(* command of its page and keeps it busy (Alone).                          *)
(***************************************************************************)
EXTENDS ConsolePages, TLAPS

\* A task of the screen: a load, or the command of the page it was sent from.
Placed ==
    \A s \in Slots :
        tasks[s] # None =>
            /\ Loading(s) =>
                  tasks[s].here /\ tasks[s].kind # "upload" /\ page \in Lists
            /\ tasks[s].kind = "load" => Loading(s)
            /\ tasks[s].here /\ tasks[s].kind = "upload" => page \in AgentOps
            /\ tasks[s].here /\ tasks[s].kind = "run" => page = "inspection"
            /\ tasks[s].here /\ tasks[s].kind \in {"add", "remove", "sync"} =>
                  page = "compliance"

\* What is shown, and what has been read to be shown, dates from after the page was opened;
\* and a command's load has read its effect.
Fresh ==
    /\ openedAt <= version
    /\ rows # None => page \in Lists /\ openedAt <= rows /\ rows <= version
    /\ \A s \in Slots :
          tasks[s] # None =>
             /\ tasks[s].effect <= version
             /\ tasks[s].stage = "read" =>
                   /\ openedAt <= tasks[s].seen
                   /\ tasks[s].effect <= tasks[s].seen
                   /\ tasks[s].seen <= version

\* A page without data is loading or tells an error.
Told ==
    /\ page \in Lists /\ rows = None /\ ~loading => error # "none"
    /\ page = "compliance" => error # "command"

Mine(s) == tasks[s] # None /\ tasks[s].here /\ tasks[s].kind \in Commands

Alone ==
    \A s \in Slots :
        Submission(s) /\ ~tasks[s].beside =>
            busy /\ \A t \in Slots \ {s} : ~Mine(t)

Inv == TypeOK /\ Placed /\ Fresh /\ Told /\ Alone

-----------------------------------------------------------------------------
\* None is no task and no version, and a load is a task.
LEMMA TaskFacts ==
    /\ None \notin Task
    /\ None \notin Nat
    /\ LoadTask \in Task
    /\ LoadTask # None
  <1>1. None \notin Task /\ None \notin Nat
    BY NoneAssumption
  <1>2. 0 \in 0 .. MaxVersion
    BY BoundAssumption
  <1>3. "load" \in Commands \cup {"load"} /\ "asked" \in {"sent", "applied", "refused", "asked", "read", "unread"}
    OBVIOUS
  <1>4. LoadTask \in Task
    BY <1>2, <1>3 DEF Task, LoadTask
  <1> QED
    BY <1>1, <1>4

LEMMA InitInv == Init => Inv
  <1> SUFFICES ASSUME Init PROVE Inv
    OBVIOUS
  <1>1. TypeOK
    <2>1. version \in 0 .. MaxVersion /\ failures \in 0 .. MaxFailures /\ openedAt \in 0 .. MaxVersion
      BY BoundAssumption DEF Init
    <2>2. loading \in BOOLEAN /\ busy \in BOOLEAN
      BY DEF Init
    <2> QED
      BY <2>1, <2>2 DEF Init, TypeOK, Pages, AgentOps
  <1>2. \A s \in Slots : tasks[s] = None
    BY DEF Init
  <1>3. Placed /\ Alone
    BY <1>2 DEF Placed, Alone, Submission
  <1>4. Fresh
    BY <1>2 DEF Init, Fresh
  <1>5. Told
    BY DEF Init, Told, Lists
  <1> QED
    BY <1>1, <1>3, <1>4, <1>5 DEF Inv

LEMMA ChangeInv == Inv /\ Change => Inv'
  <1> SUFFICES ASSUME Inv, Change PROVE Inv'
    OBVIOUS
  <1>1. TypeOK'
    BY BoundAssumption DEF Inv, TypeOK, Change, screen
  <1>2. Placed'
    BY DEF Inv, Placed, Change, screen, Loading, At
  <1>3. Fresh'
    BY BoundAssumption, NoneAssumption DEF Inv, TypeOK, Fresh, Change, screen, Task
  <1>4. Told' /\ Alone'
    BY DEF Inv, Told, Alone, Change, screen, Submission, Mine
  <1> QED
    BY <1>1, <1>2, <1>3, <1>4 DEF Inv

LEMMA LoadInv == ASSUME NEW s \in Slots, Inv, Load(s), page \in Lists PROVE Inv'
  <1>1. TypeOK'
    BY TaskFacts DEF Inv, TypeOK, Load
  <1>2. Placed'
    BY TaskFacts DEF Inv, TypeOK, Placed, Load, LoadTask, Loading, At
  <1>3. Fresh'
    BY TaskFacts DEF Inv, TypeOK, Fresh, Load, LoadTask
  <1>4. Told'
    BY DEF Inv, Told, Load
  <1>5. Alone'
    BY TaskFacts DEF Inv, TypeOK, Alone, Load, LoadTask, Submission, Mine, Commands, FormCommands
  <1> QED
    BY <1>1, <1>2, <1>3, <1>4, <1>5 DEF Inv

\* What is left of the other tasks when the page is left.
LEMMA LeftBehindFacts ==
    ASSUME NEW p \in Pages, TypeOK
    PROVE  /\ LeftBehind(p) \in [Slots -> Task \cup {None}]
           /\ \A t \in Slots :
                 LeftBehind(p)[t] # None =>
                    /\ tasks[t] # None /\ ~Loading(t)
                    /\ LeftBehind(p)[t].kind = tasks[t].kind
                    /\ LeftBehind(p)[t].stage = tasks[t].stage
                    /\ LeftBehind(p)[t].effect = tasks[t].effect
                    /\ LeftBehind(p)[t].here => Kept(p) /\ tasks[t].here
                    /\ LeftBehind(p)[t].here =>
                          LeftBehind(p)[t].beside = tasks[t].beside
  <1> DEFINE new(t) == [tasks[t] EXCEPT !.here   = Kept(p) /\ tasks[t].here,
                                        !.beside = Kept(p) /\ tasks[t].beside]
  <1>1. ASSUME NEW t \in Slots, tasks[t] # None
        PROVE  /\ new(t) \in Task
               /\ new(t).kind = tasks[t].kind /\ new(t).stage = tasks[t].stage
               /\ new(t).effect = tasks[t].effect
               /\ new(t).here => Kept(p) /\ tasks[t].here
               /\ new(t).here => new(t).beside = tasks[t].beside
    <2>1. tasks[t] \in Task
      BY <1>1 DEF TypeOK
    <2>2. (Kept(p) /\ tasks[t].here) \in BOOLEAN /\ (Kept(p) /\ tasks[t].beside) \in BOOLEAN
      OBVIOUS
    <2>3. new(t) \in Task
      BY <2>1, <2>2 DEF Task
    <2>4. /\ new(t).kind = tasks[t].kind /\ new(t).stage = tasks[t].stage
          /\ new(t).effect = tasks[t].effect
          /\ new(t).here = (Kept(p) /\ tasks[t].here)
          /\ new(t).beside = (Kept(p) /\ tasks[t].beside)
      BY <2>1 DEF Task
    <2>5. tasks[t].beside \in BOOLEAN
      BY <2>1 DEF Task
    <2> QED
      BY <2>3, <2>4, <2>5
  <1>2. \A t \in Slots :
           LeftBehind(p)[t] = IF tasks[t] = None \/ Loading(t) THEN None ELSE new(t)
    BY DEF LeftBehind
  <1>3. LeftBehind(p) = [t \in Slots |-> IF tasks[t] = None \/ Loading(t) THEN None ELSE new(t)]
    BY DEF LeftBehind
  <1> HIDE DEF new
  <1>4. LeftBehind(p) \in [Slots -> Task \cup {None}]
    BY <1>1, <1>3
  <1> QED
    BY <1>1, <1>2, <1>4

LEMMA OpenInv == ASSUME NEW p \in Pages, Inv, Open(p) PROVE Inv'
  <1> DEFINE left == LeftBehind(p)
  <1>1. /\ left \in [Slots -> Task \cup {None}]
        /\ \A t \in Slots :
              left[t] # None =>
                 /\ tasks[t] # None /\ ~Loading(t)
                 /\ left[t].kind = tasks[t].kind
                 /\ left[t].stage = tasks[t].stage
                 /\ left[t].effect = tasks[t].effect
                 /\ left[t].here => Kept(p) /\ tasks[t].here
                 /\ left[t].here => left[t].beside = tasks[t].beside
    BY LeftBehindFacts DEF Inv
  <1>2. /\ page' = p /\ openedAt' = version /\ version' = version /\ failures' = failures
        /\ rows' = None /\ error' = "none" /\ loading' = (p \in Lists)
        /\ busy' = (Kept(p) /\ busy)
        /\ message' = IF Kept(p) THEN message ELSE "none"
    BY DEF Open
  <1>3. /\ tasks' \in [Slots -> Task \cup {None}]
        /\ \A t \in Slots :
              tasks'[t] = left[t] \/ (tasks'[t] = LoadTask /\ p \in Lists)
    <2> HIDE DEF left
    <2>1. CASE p \in Lists
      <3>1. PICK s \in Slots : tasks' = [left EXCEPT ![s] = LoadTask]
        BY <2>1 DEF Open, left
      <3> QED
        BY <3>1, <1>1, <2>1, TaskFacts
    <2>2. CASE p \notin Lists
      BY <2>2, <1>1 DEF Open, left
    <2> QED
      BY <2>1, <2>2
  <1> HIDE DEF left
  <1>4. TypeOK'
    <2>1. loading' \in BOOLEAN /\ busy' \in BOOLEAN
      BY <1>2
    <2>2. message' \in {"none", "working", "done", "failed"}
      BY <1>2 DEF Inv, TypeOK
    <2>3. version' \in 0 .. MaxVersion /\ failures' \in 0 .. MaxFailures /\ openedAt' \in 0 .. MaxVersion
      BY <1>2 DEF Inv, TypeOK
    <2> QED
      BY <1>2, <1>3, <2>1, <2>2, <2>3 DEF TypeOK
  <1>5. /\ LoadTask.kind = "load" /\ LoadTask.stage = "asked" /\ LoadTask.here = TRUE
        /\ LoadTask.effect = 0
    BY DEF LoadTask
  <1>6. Placed'
    <2> SUFFICES ASSUME NEW t \in Slots, tasks'[t] # None
                 PROVE  /\ Loading(t)' => tasks'[t].here /\ tasks'[t].kind # "upload" /\ p \in Lists
                        /\ tasks'[t].kind = "load" => Loading(t)'
                        /\ tasks'[t].here /\ tasks'[t].kind = "upload" => p \in AgentOps
                        /\ tasks'[t].here /\ tasks'[t].kind = "run" => p = "inspection"
                        /\ tasks'[t].here /\ tasks'[t].kind \in {"add", "remove", "sync"} =>
                              p = "compliance"
      BY <1>2 DEF Placed
    <2>1. CASE tasks'[t] = LoadTask /\ p \in Lists
      BY <2>1, <1>5, TaskFacts DEF Loading, At
    <2>2. CASE tasks'[t] = left[t]
      <3>1. /\ tasks[t] # None /\ ~Loading(t)
            /\ tasks'[t].kind = tasks[t].kind /\ tasks'[t].stage = tasks[t].stage
            /\ tasks'[t].here => Kept(p) /\ tasks[t].here
        BY <1>1, <2>2
      <3>2. ~Loading(t)'
        BY <3>1 DEF Loading, At
      <3> QED
        BY <3>1, <3>2 DEF Inv, Placed, Kept, AgentOps
    <2> QED
      BY <1>3, <2>1, <2>2
  <1>7. Fresh'
    <2>1. version \in Nat
      BY BoundAssumption DEF Inv, TypeOK
    <2> SUFFICES ASSUME NEW t \in Slots, tasks'[t] # None
                 PROVE  tasks'[t].effect <= version /\ tasks'[t].stage # "read"
      BY <1>2, <2>1 DEF Fresh
    <2>2. CASE tasks'[t] = LoadTask
      BY <2>1, <2>2, <1>5
    <2>3. CASE tasks'[t] = left[t]
      BY <2>3, <1>1 DEF Inv, Fresh, Loading, At
    <2> QED
      BY <1>3, <2>2, <2>3
  <1>8. Told'
    BY <1>2 DEF Told
  <1>9. Alone'
    <2>1. ASSUME NEW t \in Slots, Mine(t)'
          PROVE  Mine(t) /\ Kept(p) /\ tasks'[t].beside = tasks[t].beside /\ tasks'[t].kind = tasks[t].kind
      <3>1. tasks'[t] = left[t]
        BY <2>1, <1>3, <1>5 DEF Mine, Commands, FormCommands
      <3> QED
        BY <2>1, <3>1, <1>1 DEF Mine
    <2> SUFFICES ASSUME NEW t \in Slots, Submission(t)', ~tasks'[t].beside
                 PROVE  busy' /\ \A u \in Slots \ {t} : ~Mine(u)'
      BY DEF Alone
    <2>2. Mine(t)'
      BY DEF Mine, Submission, Commands
    <2>3. Submission(t) /\ ~tasks[t].beside /\ Kept(p)
      BY <2>1, <2>2 DEF Mine, Submission
    <2> QED
      BY <2>1, <2>3, <1>2 DEF Inv, Alone
  <1> QED
    BY <1>4, <1>6, <1>7, <1>8, <1>9 DEF Inv

LEMMA SubmitInv ==
    ASSUME NEW command \in Commands, NEW s \in Slots, Inv, Submit(command, s),
           message' \in {"none", "working", "done", "failed"}
    PROVE  Inv'
  <1> DEFINE disturbed == \E u \in Slots : Disturbing(u)
             sent == [kind |-> command, stage |-> "sent", effect |-> 0, seen |-> 0,
                      here |-> TRUE, beside |-> disturbed]
  <1>1. /\ page = PageOf(command) /\ Ready(command) /\ tasks[s] = None /\ busy' = TRUE
        /\ version' = version /\ failures' = failures /\ page' = page /\ openedAt' = openedAt
        /\ rows' = rows /\ error' = error /\ loading' = loading
    BY DEF Submit
  <1>2. /\ sent \in Task /\ sent.kind = command /\ sent.stage = "sent" /\ sent.effect = 0
        /\ sent.here = TRUE /\ sent.beside = disturbed
    <2>1. disturbed \in BOOLEAN
      OBVIOUS
    <2>2. 0 \in 0 .. MaxVersion
      BY BoundAssumption
    <2> HIDE DEF disturbed
    <2> QED
      BY <2>1, <2>2 DEF Task
  <1>3. tasks' = [t \in Slots |-> IF t = s THEN sent
                                  ELSE IF command = "remove" /\ tasks[t] # None
                                       THEN [tasks[t] EXCEPT !.beside = TRUE]
                                       ELSE tasks[t]]
    BY DEF Submit
  <1> HIDE DEF sent, disturbed
  <1>4. tasks'[s] = sent
    BY <1>3
  <1>5. ASSUME NEW t \in Slots, t # s
        PROVE  /\ tasks'[t] \in Task \cup {None}
               /\ tasks'[t] = None => tasks[t] = None
               /\ tasks'[t] # None =>
                     /\ tasks[t] # None
                     /\ tasks'[t].kind = tasks[t].kind /\ tasks'[t].stage = tasks[t].stage
                     /\ tasks'[t].effect = tasks[t].effect /\ tasks'[t].seen = tasks[t].seen
                     /\ tasks'[t].here = tasks[t].here
                     /\ ~tasks'[t].beside => ~tasks[t].beside /\ command # "remove"
    <2>1. tasks[t] \in Task \cup {None}
      BY DEF Inv, TypeOK
    <2>2. CASE command = "remove" /\ tasks[t] # None
      <3>1. tasks'[t] = [tasks[t] EXCEPT !.beside = TRUE] /\ tasks[t] \in Task
        BY <1>3, <1>5, <2>1, <2>2
      <3>2. tasks'[t] \in Task
        BY <3>1 DEF Task
      <3>3. /\ tasks'[t].kind = tasks[t].kind /\ tasks'[t].stage = tasks[t].stage
            /\ tasks'[t].effect = tasks[t].effect /\ tasks'[t].seen = tasks[t].seen
            /\ tasks'[t].here = tasks[t].here /\ tasks'[t].beside = TRUE
        BY <3>1 DEF Task
      <3> QED
        BY <3>2, <3>3, <2>2, TaskFacts
    <2>3. CASE ~(command = "remove" /\ tasks[t] # None)
      BY <1>3, <1>5, <2>1, <2>3
    <2> QED
      BY <2>2, <2>3
  <1>6. TypeOK'
    <2>1. \A t \in Slots : tasks'[t] \in Task \cup {None}
      BY <1>2, <1>4, <1>5
    <2>2. tasks' \in [Slots -> Task \cup {None}]
      BY <2>1, <1>3
    <2>3. loading' \in BOOLEAN /\ busy' \in BOOLEAN
      BY <1>1 DEF Inv, TypeOK
    <2> QED
      BY <1>1, <2>2, <2>3 DEF Inv, TypeOK
  <1>7. Placed'
    <2> SUFFICES ASSUME NEW t \in Slots, tasks'[t] # None
                 PROVE  /\ Loading(t)' =>
                              tasks'[t].here /\ tasks'[t].kind # "upload" /\ page \in Lists
                        /\ tasks'[t].kind = "load" => Loading(t)'
                        /\ tasks'[t].here /\ tasks'[t].kind = "upload" => page \in AgentOps
                        /\ tasks'[t].here /\ tasks'[t].kind = "run" => page = "inspection"
                        /\ tasks'[t].here /\ tasks'[t].kind \in {"add", "remove", "sync"} =>
                              page = "compliance"
      BY <1>1 DEF Placed
    <2>1. CASE t = s
      BY <2>1, <1>1, <1>2, <1>4 DEF Loading, At, PageOf, AgentOps, Commands, FormCommands
    <2>2. CASE t # s
      BY <2>2, <1>5 DEF Inv, Placed, Loading, At
    <2> QED
      BY <2>1, <2>2
  <1>8. Fresh'
    <2>1. version \in Nat
      BY BoundAssumption DEF Inv, TypeOK
    <2> SUFFICES ASSUME NEW t \in Slots, tasks'[t] # None
                 PROVE  /\ tasks'[t].effect <= version
                        /\ tasks'[t].stage = "read" =>
                              /\ openedAt <= tasks'[t].seen
                              /\ tasks'[t].effect <= tasks'[t].seen
                              /\ tasks'[t].seen <= version
      BY <1>1 DEF Inv, Fresh
    <2>2. CASE t = s
      BY <2>1, <2>2, <1>2, <1>4
    <2>3. CASE t # s
      BY <2>3, <1>5 DEF Inv, Fresh
    <2> QED
      BY <2>2, <2>3
  <1>9. Told'
    BY <1>1 DEF Inv, Told
  <1>10. Alone'
    <2> SUFFICES ASSUME NEW t \in Slots, Submission(t)', ~tasks'[t].beside,
                        NEW u \in Slots \ {t}, Mine(u)'
                 PROVE  FALSE
      BY <1>1 DEF Alone
    <2>1. CASE t = s
      <3>1. ~disturbed /\ command \in FormCommands
        BY <2>1, <1>2, <1>4 DEF Submission
      <3>2. ~busy
        BY <3>1, <1>1 DEF Ready, FormCommands
      <3>3. Mine(u)
        BY <2>1, <1>5 DEF Mine
      <3>4. ~Disturbing(u)
        BY <3>1 DEF disturbed
      <3>5. Submission(u) /\ ~tasks[u].beside
        BY <3>3, <3>4 DEF Mine, Submission, Disturbing, Commands
      <3> QED
        BY <3>2, <3>5 DEF Inv, Alone
    <2>2. CASE t # s
      <3>1. Submission(t) /\ ~tasks[t].beside /\ command # "remove"
        BY <2>2, <1>5 DEF Submission
      <3>2. ~busy
        BY <3>1, <1>1 DEF Ready
      <3> QED
        BY <3>1, <3>2 DEF Inv, Alone
    <2> QED
      BY <2>1, <2>2
  <1> QED
    BY <1>6, <1>7, <1>8, <1>9, <1>10 DEF Inv

LEMMA AnySubmitInv == ASSUME NEW s \in Slots, Inv, AnySubmit(s) PROVE Inv'
  <1>1. message \in {"none", "working", "done", "failed"}
    BY DEF Inv, TypeOK
  <1>2. PICK command \in Commands :
           Submit(command, s) /\ message' \in {message, "working"}
    BY DEF AnySubmit, Upload, RunInspection, AddPolicy, RemovePolicy, SyncPolicies,
           Commands, FormCommands
  <1> QED
    BY <1>1, <1>2, SubmitInv

-----------------------------------------------------------------------------
\* A step of the server: the task of s gets a new stage, an effect or what it has read, and
\* the screen stays as it is.
ServerStep(s, task) ==
    /\ tasks' = [tasks EXCEPT ![s] = task]
    /\ task \in Task
    /\ task.kind = tasks[s].kind /\ task.here = tasks[s].here /\ task.beside = tasks[s].beside
    /\ \/ tasks[s].stage = "sent" /\ task.stage \in {"applied", "refused"}
       \/ tasks[s].stage = "asked" /\ task.stage \in {"read", "unread"}
    /\ version' \in Nat /\ version <= version' /\ version' <= MaxVersion
    /\ task.effect <= version'
    /\ task.stage = "read" => task.effect <= task.seen /\ openedAt <= task.seen /\ task.seen <= version'
    /\ failures' \in 0 .. MaxFailures
    /\ UNCHANGED <<page, screen>>

LEMMA ServerStepInv ==
    ASSUME NEW s \in Slots, NEW task, Inv, tasks[s] # None, ServerStep(s, task)
    PROVE  Inv'
  <1>1. /\ tasks'[s] = task /\ task \in Task /\ task # None
        /\ \A t \in Slots \ {s} : tasks'[t] = tasks[t]
        /\ tasks' \in [Slots -> Task \cup {None}]
    BY TaskFacts DEF ServerStep, Inv, TypeOK
  <1>2. /\ page' = page /\ openedAt' = openedAt /\ rows' = rows /\ error' = error
        /\ loading' = loading /\ busy' = busy /\ message' = message
        /\ version' \in Nat /\ version <= version' /\ version' <= MaxVersion
        /\ failures' \in 0 .. MaxFailures
    BY DEF ServerStep, screen
  <1>3. TypeOK'
    BY <1>1, <1>2, BoundAssumption DEF Inv, TypeOK
  <1>4. Placed'
    <2> SUFFICES ASSUME NEW t \in Slots, tasks'[t] # None
                 PROVE  /\ Loading(t)' = Loading(t)
                        /\ tasks'[t].kind = tasks[t].kind /\ tasks'[t].here = tasks[t].here
                        /\ tasks[t] # None
      BY <1>2 DEF Inv, Placed
    <2>1. CASE t = s
      BY <2>1, <1>1 DEF ServerStep, Loading, At
    <2>2. CASE t # s
      BY <2>2, <1>1 DEF Loading, At
    <2> QED
      BY <2>1, <2>2
  <1>5. Fresh'
    <2>1. /\ version \in Nat /\ version' \in Nat /\ version <= version' /\ openedAt \in Nat
          /\ rows # None => rows \in Nat
          /\ \A t \in Slots : tasks[t] # None =>
                tasks[t] \in Task /\ tasks[t].effect \in Nat /\ tasks[t].seen \in Nat
      BY <1>2, BoundAssumption DEF Inv, TypeOK, Task
    <2>2. openedAt' <= version' /\ (rows' # None => page' \in Lists /\ openedAt' <= rows' /\ rows' <= version')
      BY <1>2, <2>1 DEF Inv, Fresh
    <2> SUFFICES ASSUME NEW t \in Slots, tasks'[t] # None
                 PROVE  /\ tasks'[t].effect <= version'
                        /\ tasks'[t].stage = "read" =>
                              /\ openedAt' <= tasks'[t].seen
                              /\ tasks'[t].effect <= tasks'[t].seen
                              /\ tasks'[t].seen <= version'
      BY <2>2 DEF Fresh
    <2>3. CASE t = s
      BY <2>3, <1>1, <1>2 DEF ServerStep
    <2>4. CASE t # s
      <3>1. tasks'[t] = tasks[t]
        BY <2>4, <1>1
      <3> QED
        BY <3>1, <1>2, <2>1 DEF Inv, Fresh
    <2> QED
      BY <2>3, <2>4
  <1>6. Told'
    BY <1>2 DEF Inv, Told
  <1>7. Alone'
    <2>1. \A t \in Slots :
             /\ Mine(t)' => Mine(t)
             /\ Submission(t)' /\ ~tasks'[t].beside => Submission(t) /\ ~tasks[t].beside
      BY <1>1 DEF ServerStep, Mine, Submission
    <2> QED
      BY <2>1, <1>2 DEF Inv, Alone
  <1> QED
    BY <1>3, <1>4, <1>5, <1>6, <1>7 DEF Inv

LEMMA ServeStep ==
    ASSUME NEW s \in Slots, Inv, Serve(s)
    PROVE  tasks[s] # None /\ \E task \in Task : ServerStep(s, task)
  <1>1. tasks[s] # None
    BY DEF Serve, Apply, Refuse, AnswerNotConfigured, Read, FailRead, At
  <1>2. /\ tasks[s] \in Task
        /\ tasks[s].effect \in 0 .. MaxVersion /\ tasks[s].effect <= version
        /\ version \in 0 .. MaxVersion /\ version \in Nat /\ openedAt \in Nat /\ openedAt <= version
        /\ failures \in 0 .. MaxFailures
    BY <1>1, BoundAssumption DEF Inv, TypeOK, Fresh, Task
  <1>3. CASE Apply(s)
    <2>1. tasks[s].stage = "sent" /\ version < MaxVersion /\ version' = version + 1
          /\ failures' = failures /\ UNCHANGED <<page, screen>>
      BY <1>3 DEF Apply, At
    <2>2. version' \in 0 .. MaxVersion /\ version' \in Nat /\ 0 \in 0 .. MaxVersion /\ version <= version' /\ 0 <= version'
      BY <2>1, <1>2, BoundAssumption
    <2> DEFINE effect == IF Announced(s) THEN version + 1 ELSE 0
               applied == [tasks[s] EXCEPT !.stage = "applied", !.effect = effect]
               refused == [tasks[s] EXCEPT !.stage = "refused"]
    <2>3. effect \in 0 .. MaxVersion /\ effect <= version'
      BY <2>1, <2>2
    <2> HIDE DEF effect
    <2>4. /\ applied \in Task /\ applied.kind = tasks[s].kind /\ applied.here = tasks[s].here
          /\ applied.beside = tasks[s].beside /\ applied.stage = "applied" /\ applied.effect = effect
      BY <1>2, <2>3 DEF Task
    <2>5. /\ refused \in Task /\ refused.kind = tasks[s].kind /\ refused.here = tasks[s].here
          /\ refused.beside = tasks[s].beside /\ refused.stage = "refused" /\ refused.effect = tasks[s].effect
      BY <1>2 DEF Task
    <2>6. tasks' = [tasks EXCEPT ![s] = applied] \/ tasks' = [tasks EXCEPT ![s] = refused]
      BY <1>3 DEF Apply, effect
    <2> HIDE DEF applied, refused
    <2>7. ServerStep(s, applied) \/ ServerStep(s, refused)
      <3>1. tasks[s].effect <= version'
        BY <1>2, <2>1
      <3> QED
        BY <1>2, <2>1, <2>2, <2>3, <2>4, <2>5, <2>6, <3>1 DEF ServerStep
    <2> QED
      BY <1>1, <2>4, <2>5, <2>7
  <1>4. CASE Refuse(s) \/ AnswerNotConfigured(s)
    <2>1. PICK stage \in {"applied", "refused"} : tasks' = [tasks EXCEPT ![s].stage = stage]
      BY <1>4 DEF Refuse, AnswerNotConfigured
    <2> DEFINE task == [tasks[s] EXCEPT !.stage = stage]
    <2>2. tasks[s].stage = "sent" /\ version' = version /\ failures' = failures /\ UNCHANGED <<page, screen>>
      BY <1>4 DEF Refuse, AnswerNotConfigured, At
    <2>3. /\ task \in Task /\ task.kind = tasks[s].kind /\ task.here = tasks[s].here
          /\ task.beside = tasks[s].beside /\ task.stage = stage /\ task.effect = tasks[s].effect
      BY <1>2 DEF Task
    <2>4. tasks' = [tasks EXCEPT ![s] = task]
      BY <2>1
    <2> HIDE DEF task
    <2>5. ServerStep(s, task)
      BY <1>2, <2>2, <2>3, <2>4 DEF ServerStep
    <2> QED
      BY <1>1, <2>3, <2>5
  <1>5. CASE Read(s)
    <2> DEFINE task == [tasks[s] EXCEPT !.stage = "read", !.seen = version]
    <2>1. /\ tasks[s].stage = "asked" /\ version' = version /\ failures' = failures
          /\ UNCHANGED <<page, screen>>
          /\ tasks' = [tasks EXCEPT ![s] = task]
      BY <1>5 DEF Read, At
    <2>2. /\ task \in Task /\ task.kind = tasks[s].kind /\ task.here = tasks[s].here
          /\ task.beside = tasks[s].beside /\ task.stage = "read" /\ task.effect = tasks[s].effect
          /\ task.seen = version
      BY <1>2 DEF Task
    <2> HIDE DEF task
    <2>3. ServerStep(s, task)
      BY <1>2, <2>1, <2>2 DEF ServerStep
    <2> QED
      BY <1>1, <2>2, <2>3
  <1>6. CASE FailRead(s)
    <2> DEFINE task == [tasks[s] EXCEPT !.stage = "unread"]
    <2>1. /\ tasks[s].stage = "asked" /\ version' = version /\ failures' = failures + 1
          /\ failures < MaxFailures
          /\ UNCHANGED <<page, screen>>
          /\ tasks' = [tasks EXCEPT ![s] = task]
      BY <1>6 DEF FailRead, At
    <2>2. /\ task \in Task /\ task.kind = tasks[s].kind /\ task.here = tasks[s].here
          /\ task.beside = tasks[s].beside /\ task.stage = "unread" /\ task.effect = tasks[s].effect
      BY <1>2 DEF Task
    <2> HIDE DEF task
    <2>3. failures' \in 0 .. MaxFailures
      BY <1>2, <2>1, BoundAssumption
    <2>4. ServerStep(s, task)
      BY <1>2, <2>1, <2>2, <2>3 DEF ServerStep
    <2> QED
      BY <1>1, <2>2, <2>4
  <1> QED
    BY <1>3, <1>4, <1>5, <1>6 DEF Serve

LEMMA ServeInv == ASSUME NEW s \in Slots, Inv, Serve(s) PROVE Inv'
  BY ServeStep, ServerStepInv

-----------------------------------------------------------------------------
\* An answer ends the task of s, or turns it into a load, and the screen stays consistent
\* with the tasks: the parts of the proof that the four answers share.
Ending(s) ==
    /\ tasks[s] # None
    /\ \/ tasks' = Ended(s)
       \/ /\ tasks' = [tasks EXCEPT ![s] = LoadTask]
          /\ page \in Lists
       \/ /\ tasks' = [tasks EXCEPT ![s].stage = "asked"]
          /\ tasks[s].here /\ page \in Lists
          /\ tasks[s].kind \notin {"upload", "load"}
    /\ UNCHANGED <<version, failures, page, openedAt>>

LEMMA EndingFacts ==
    ASSUME NEW s \in Slots, Inv, Ending(s)
    PROVE  /\ tasks' \in [Slots -> Task \cup {None}]
           /\ Placed'
           /\ \A t \in Slots :
                 /\ t # s => tasks'[t] = tasks[t]
                 /\ Mine(t)' => Mine(t)
                 /\ Submission(t)' => Submission(t) /\ tasks'[t].beside = tasks[t].beside
                 /\ tasks'[t] # None =>
                       tasks'[t].effect <= version /\ (tasks'[t].stage = "read" => tasks'[t] = tasks[t])
  <1>1. tasks[s] \in Task
    BY DEF Inv, TypeOK, Ending
  <1>2. /\ LoadTask.kind = "load" /\ LoadTask.stage = "asked" /\ LoadTask.here = TRUE
        /\ LoadTask.effect = 0
    BY DEF LoadTask
  <1> DEFINE asked == [tasks[s] EXCEPT !.stage = "asked"]
  <1>3. /\ asked \in Task /\ asked.kind = tasks[s].kind /\ asked.here = tasks[s].here
        /\ asked.beside = tasks[s].beside /\ asked.stage = "asked" /\ asked.effect = tasks[s].effect
    BY <1>1 DEF Task
  <1>4. /\ version \in Nat
        /\ \A t \in Slots : tasks[t] # None => tasks[t].effect <= version
    BY BoundAssumption DEF Inv, TypeOK, Fresh
  <1>5. \A t \in Slots \ {s} : tasks'[t] = tasks[t]
    BY DEF Ending, Ended, Inv, TypeOK
  <1>6. \/ tasks' = [tasks EXCEPT ![s] = None] /\ tasks'[s] = None
        \/ tasks' = [tasks EXCEPT ![s] = LoadTask] /\ tasks'[s] = LoadTask /\ page \in Lists
        \/ /\ tasks' = [tasks EXCEPT ![s] = asked] /\ tasks'[s] = asked
           /\ tasks[s].here /\ page \in Lists /\ tasks[s].kind \notin {"upload", "load"}
    BY DEF Ending, Ended, Inv, TypeOK
  <1> HIDE DEF asked
  <1>7. tasks' \in [Slots -> Task \cup {None}]
    BY <1>3, <1>6, TaskFacts DEF Inv, TypeOK
  <1>8. Placed'
    <2> SUFFICES ASSUME NEW t \in Slots, tasks'[t] # None
                 PROVE  /\ Loading(t)' =>
                              tasks'[t].here /\ tasks'[t].kind # "upload" /\ page \in Lists
                        /\ tasks'[t].kind = "load" => Loading(t)'
                        /\ tasks'[t].here /\ tasks'[t].kind = "upload" => page \in AgentOps
                        /\ tasks'[t].here /\ tasks'[t].kind = "run" => page = "inspection"
                        /\ tasks'[t].here /\ tasks'[t].kind \in {"add", "remove", "sync"} =>
                              page = "compliance"
      BY DEF Placed, Ending
    <2>1. CASE t = s
      BY <2>1, <1>2, <1>3, <1>6, TaskFacts DEF Inv, Placed, Ending, Loading, At
    <2>2. CASE t # s
      BY <2>2, <1>5 DEF Inv, Placed, Loading, At
    <2> QED
      BY <2>1, <2>2
  <1>9. ASSUME NEW t \in Slots
        PROVE  /\ Mine(t)' => Mine(t)
               /\ Submission(t)' => Submission(t) /\ tasks'[t].beside = tasks[t].beside
    <2>1. CASE t = s
      BY <2>1, <1>2, <1>3, <1>6 DEF Ending, Mine, Submission, Commands, FormCommands
    <2>2. CASE t # s
      BY <2>2, <1>5 DEF Mine, Submission
    <2> QED
      BY <2>1, <2>2
  <1>10. ASSUME NEW t \in Slots, tasks'[t] # None
         PROVE  tasks'[t].effect <= version /\ (tasks'[t].stage = "read" => tasks'[t] = tasks[t])
    <2>1. CASE t = s
      BY <2>1, <1>2, <1>3, <1>4, <1>6, <1>10 DEF Ending
    <2>2. CASE t # s
      BY <2>2, <1>4, <1>5, <1>10
    <2> QED
      BY <2>1, <2>2
  <1> QED
    BY <1>5, <1>7, <1>8, <1>9, <1>10

\* When the data shown do not change either, they stay fresh.
LEMMA EndingFresh ==
    ASSUME NEW s \in Slots, Inv, Ending(s),
           rows' = rows \/ (rows' \in openedAt .. version /\ page \in Lists)
    PROVE  Fresh'
  <1>1. version' = version /\ page' = page /\ openedAt' = openedAt
    BY DEF Ending
  <1>2. openedAt <= version /\ (rows' # None => page \in Lists /\ openedAt <= rows' /\ rows' <= version)
    BY BoundAssumption DEF Inv, TypeOK, Fresh
  <1> SUFFICES ASSUME NEW t \in Slots, tasks'[t] # None
               PROVE  /\ tasks'[t].effect <= version
                      /\ tasks'[t].stage = "read" =>
                            /\ openedAt <= tasks'[t].seen
                            /\ tasks'[t].effect <= tasks'[t].seen
                            /\ tasks'[t].seen <= version
    BY <1>1, <1>2 DEF Fresh
  <1> QED
    BY EndingFacts DEF Inv, Fresh

\* The end of a command of the page leaves no undisturbed submission that would need the
\* busy flag; the end of anything else leaves the flag as it is.
LEMMA EndingAlone ==
    ASSUME NEW s \in Slots, Inv, Ending(s), Mine(s) \/ busy' = busy, tasks'[s] = None \/ busy' = busy \/ ~Submission(s)'
    PROVE  Alone'
  <1> SUFFICES ASSUME NEW t \in Slots, Submission(t)', ~tasks'[t].beside
               PROVE  busy' /\ \A u \in Slots \ {t} : ~Mine(u)'
    BY DEF Alone
  <1>1. Submission(t) /\ ~tasks[t].beside
    BY EndingFacts
  <1>2. busy /\ \A u \in Slots \ {t} : ~Mine(u)
    BY <1>1 DEF Inv, Alone
  <1>3. \A u \in Slots \ {t} : ~Mine(u)'
    BY <1>2, EndingFacts
  <1>4. busy'
    <2>1. CASE busy' = busy
      BY <2>1, <1>2
    <2>2. CASE busy' # busy /\ t = s
      BY <2>2 DEF Submission
    <2>3. CASE busy' # busy /\ t # s
      BY <2>3, <1>2
    <2> QED
      BY <2>1, <2>2, <2>3
  <1> QED
    BY <1>3, <1>4

LEMMA EndingType ==
    ASSUME NEW s \in Slots, Inv, Ending(s),
           rows' \in 0 .. MaxVersion \cup {None}, error' \in {"none", "load", "command"},
           loading' \in BOOLEAN, busy' \in BOOLEAN,
           message' \in {"none", "working", "done", "failed"}
    PROVE  TypeOK'
  BY EndingFacts DEF Inv, TypeOK, Ending

LEMMA UploadAnsweredInv == ASSUME NEW s \in Slots, Inv, UploadAnswered(s) PROVE Inv'
  <1>1. tasks[s] # None /\ tasks[s].kind = "upload"
    BY DEF UploadAnswered, At
  <1>2. Ending(s)
    BY <1>1 DEF UploadAnswered, Ending, Lists, Pages, AgentOps
  <1>3. rows' = rows /\ error' = error
    BY DEF UploadAnswered
  <1>4. loading' \in BOOLEAN /\ busy' \in BOOLEAN
    BY DEF UploadAnswered, Inv, TypeOK
  <1>5. message' \in {"none", "working", "done", "failed"}
    BY DEF UploadAnswered, Inv, TypeOK
  <1>6. TypeOK'
    BY <1>2, <1>3, <1>4, <1>5, EndingType DEF Inv, TypeOK
  <1>7. Told'
    BY DEF UploadAnswered, Inv, Told
  <1>8. Alone'
    <2>1. Mine(s) \/ busy' = busy
      BY <1>1 DEF UploadAnswered, Mine, Commands, FormCommands
    <2>2. ~Submission(s)'
      <3>1. tasks'[s] = None \/ tasks'[s] = LoadTask
        BY DEF UploadAnswered, Ended, Inv, TypeOK
      <3> QED
        BY <3>1 DEF Submission, LoadTask, FormCommands
    <2> QED
      BY <1>2, <2>1, <2>2, EndingAlone
  <1> QED
    BY <1>2, <1>3, <1>6, <1>7, <1>8, EndingFacts, EndingFresh DEF Inv

LEMMA CommandAnsweredInv == ASSUME NEW s \in Slots, Inv, CommandAnswered(s) PROVE Inv'
  <1>1. tasks[s] # None /\ tasks[s].stage = "applied" /\ tasks[s].kind # "upload"
    BY DEF CommandAnswered, At
  <1>2. tasks[s].kind \in {"run", "add", "remove", "sync"}
    <2>1. tasks[s] \in Task /\ ~Loading(s)
      BY <1>1 DEF Inv, TypeOK, Loading, At
    <2>2. tasks[s].kind # "load"
      BY <1>1, <2>1 DEF Inv, Placed
    <2> QED
      BY <1>1, <2>1, <2>2 DEF Task, Commands, FormCommands
  <1>3. Ending(s)
    <2>1. tasks[s].here => page \in Lists
      BY <1>1, <1>2 DEF Inv, Placed, Lists, Pages, AgentOps
    <2> QED
      BY <1>1, <1>2, <2>1 DEF CommandAnswered, Ending
  <1>4. rows' = rows /\ error' = error /\ busy' = busy /\ page' = page
    BY DEF CommandAnswered
  <1>5. loading' \in BOOLEAN /\ (loading' = loading \/ loading')
    BY DEF CommandAnswered, Inv, TypeOK
  <1>6. message' \in {"none", "working", "done", "failed"}
    BY DEF CommandAnswered, Inv, TypeOK
  <1>7. TypeOK'
    BY <1>3, <1>4, <1>5, <1>6, EndingType DEF Inv, TypeOK
  <1>8. Told'
    BY <1>4, <1>5 DEF Inv, Told
  <1> QED
    BY <1>3, <1>4, <1>7, <1>8, EndingFacts, EndingFresh, EndingAlone DEF Inv

LEMMA CommandFailedInv == ASSUME NEW s \in Slots, Inv, CommandFailed(s) PROVE Inv'
  <1>1. tasks[s] # None /\ tasks[s].stage = "refused" /\ tasks'[s] = None
    BY DEF CommandFailed, At, Ended, Inv, TypeOK
  <1>2. tasks[s].kind \in Commands
    <2>1. tasks[s] \in Task /\ ~Loading(s)
      BY <1>1 DEF Inv, TypeOK, Loading, At
    <2>2. tasks[s].kind # "load"
      BY <1>1, <2>1 DEF Inv, Placed
    <2> QED
      BY <2>1, <2>2 DEF Task
  <1>3. Ending(s)
    BY <1>1 DEF CommandFailed, Ending
  <1>4. rows' = rows /\ loading' = loading /\ page' = page
    BY DEF CommandFailed
  <1>5. error' \in {"none", "load", "command"} /\ busy' \in BOOLEAN
    BY DEF CommandFailed, Inv, TypeOK
  <1>6. message' \in {"none", "working", "done", "failed"}
    BY DEF CommandFailed, Inv, TypeOK
  <1>7. TypeOK'
    BY <1>3, <1>4, <1>5, <1>6, EndingType DEF Inv, TypeOK
  <1>8. Told'
    <2>1. error' = error \/ (error' = "command" /\ page = "inspection")
      BY <1>1 DEF CommandFailed, Inv, Placed
    <2> QED
      BY <1>4, <2>1 DEF Inv, Told
  <1>9. Mine(s) \/ busy' = busy
    BY <1>1, <1>2 DEF CommandFailed, Mine
  <1> QED
    BY <1>1, <1>3, <1>4, <1>7, <1>8, <1>9, EndingFacts, EndingFresh, EndingAlone DEF Inv

LEMMA LoadAnsweredInv == ASSUME NEW s \in Slots, Inv, LoadAnswered(s) PROVE Inv'
  <1>1. tasks[s] # None /\ Loading(s) /\ tasks'[s] = None
    BY DEF LoadAnswered, Loading, At, Ended, Inv, TypeOK
  <1>2. tasks[s] \in Task /\ tasks[s].here /\ page \in Lists
    BY <1>1 DEF Inv, TypeOK, Placed
  <1>3. Ending(s)
    BY <1>1 DEF LoadAnswered, Ending
  <1>4. /\ loading' = FALSE /\ page' = page
        /\ error' = "none" \/ error' = "load"
        /\ busy' = (tasks[s].kind = "load" /\ busy)
    BY DEF LoadAnswered, ErrorAfter
  <1>5. /\ rows' = rows \/ (rows' \in openedAt .. version /\ page \in Lists)
        /\ rows' \in 0 .. MaxVersion \cup {None}
        /\ rows' = None => error' = "load"
    <2>1. CASE At(s, "read")
      <3>1. rows' = tasks[s].seen
        BY <2>1 DEF LoadAnswered
      <3>2. tasks[s].seen \in 0 .. MaxVersion /\ tasks[s].seen \in openedAt .. version
        BY <1>1, <1>2, <2>1, BoundAssumption DEF Inv, TypeOK, Fresh, Task, At
      <3> QED
        BY <3>1, <3>2, <1>2, TaskFacts
    <2>2. CASE ~At(s, "read")
      BY <2>2 DEF LoadAnswered, ErrorAfter, Inv, TypeOK
    <2> QED
      BY <2>1, <2>2
  <1>6. busy' \in BOOLEAN /\ loading' \in BOOLEAN
    BY <1>4
  <1>7. message' \in {"none", "working", "done", "failed"}
    BY DEF LoadAnswered, Inv, TypeOK
  <1>8. TypeOK'
    BY <1>3, <1>4, <1>5, <1>6, <1>7, EndingType
  <1>9. Told'
    BY <1>4, <1>5 DEF Told
  <1>10. Mine(s) \/ busy' = busy
    <2>1. CASE tasks[s].kind = "load"
      BY <2>1, <1>4 DEF Inv, TypeOK
    <2>2. CASE tasks[s].kind # "load"
      BY <2>2, <1>1, <1>2 DEF Mine, Task
    <2> QED
      BY <2>1, <2>2
  <1> QED
    BY <1>1, <1>3, <1>5, <1>8, <1>9, <1>10, EndingFacts, EndingFresh, EndingAlone DEF Inv

-----------------------------------------------------------------------------
LEMMA StepInv == Inv /\ [Next]_vars => Inv'
  <1> SUFFICES ASSUME Inv, [Next]_vars PROVE Inv'
    OBVIOUS
  <1>1. CASE Change
    BY <1>1, ChangeInv
  <1>2. CASE \E p \in Pages : Open(p)
    BY <1>2, OpenInv
  <1>3. ASSUME NEW s \in Slots, AnyLoad(s) PROVE Inv'
    <2>1. Load(s) /\ page \in Lists
      BY <1>3 DEF AnyLoad, UpdateHistoryLoad, InspectionLogLoad, ServerMonitoringLoad,
                  ComplianceRetry, Lists, Pages, AgentOps
    <2> QED
      BY <2>1, LoadInv
  <1>4. ASSUME NEW s \in Slots, AnySubmit(s) PROVE Inv'
    BY <1>4, AnySubmitInv
  <1>5. ASSUME NEW s \in Slots, Serve(s) PROVE Inv'
    BY <1>5, ServeInv
  <1>6. ASSUME NEW s \in Slots, Answer(s) PROVE Inv'
    BY <1>6, UploadAnsweredInv, CommandAnsweredInv, CommandFailedInv, LoadAnsweredInv DEF Answer
  <1>7. CASE UNCHANGED vars
    BY <1>7 DEF vars, screen, Inv, TypeOK, Placed, Fresh, Told, Alone, Loading, At, Mine,
                Submission
  <1> QED
    BY <1>1, <1>2, <1>3, <1>4, <1>5, <1>6, <1>7 DEF Next

\* The inductive invariant holds in every reachable state, whatever overlaps and fails.
THEOREM Invariance == Spec => []Inv
  BY InitInv, StepInv, PTL DEF Spec

\* Type correctness of the pages' state.
THEOREM TypeCorrect == Spec => []TypeOK
  <1>1. Inv => TypeOK
    BY DEF Inv
  <1> QED
    BY <1>1, Invariance, PTL

\* No page but the compliance page, after a failed load, says that there is nothing to list
\* when nothing has been read.
THEOREM EmptyMeansEmpty == Spec => []EmptyOnlyIfRead
  <1>1. Inv => EmptyOnlyIfRead
    BY DEF Inv, TypeOK, Told, EmptyOnlyIfRead, SaysEmptyUnread
  <1> QED
    BY <1>1, Invariance, PTL

\* Two submissions of a page are never under way at once unless a removal has run beside
\* one of them.
THEOREM SubmittedOnce == Spec => []NoDoubleSubmit
  <1>1. Inv => NoDoubleSubmit
    BY DEF Inv, Alone, NoDoubleSubmit, Submission, Mine, Commands
  <1> QED
    BY <1>1, Invariance, PTL

\* Only the end of the load, or the failure of the command, ends an announced command while
\* its page stays on the screen.
LEMMA AnnouncedEnds ==
    ASSUME NEW s \in Slots, Inv, [Next]_vars, tasks[s] # None, tasks'[s] = None,
           Announced(s), page' = page
    PROVE  LoadAnswered(s) \/ CommandFailed(s)
  <1>1. \A t \in Slots : tasks[t] # None => tasks[t] \in Task
    BY DEF Inv, TypeOK
  <1>2. tasks[s].here /\ tasks[s].kind \in {"add", "remove"}
    BY DEF Announced
  <1>3. ASSUME NEW t \in Slots, NEW task \in Task, tasks' = [tasks EXCEPT ![t] = task]
        PROVE  FALSE
    BY <1>3, TaskFacts DEF Inv, TypeOK
  <1>4. ASSUME NEW t \in Slots, Serve(t) PROVE FALSE
    BY <1>3, <1>4, ServeStep DEF ServerStep
  <1>5. ASSUME NEW t \in Slots, AnyLoad(t) PROVE FALSE
    BY <1>3, <1>5, TaskFacts
    DEF AnyLoad, UpdateHistoryLoad, InspectionLogLoad, ServerMonitoringLoad, ComplianceRetry, Load
  <1>6. ASSUME NEW t \in Slots, AnySubmit(t) PROVE FALSE
    <2>1. PICK command \in Commands : Submit(command, t)
      BY <1>6 DEF AnySubmit, Upload, RunInspection, AddPolicy, RemovePolicy, SyncPolicies,
                  Commands, FormCommands
    <2>2. t # s
      BY <2>1 DEF Submit
    <2>3. \/ tasks'[s] = tasks[s]
          \/ tasks'[s] = [tasks[s] EXCEPT !.beside = TRUE]
      BY <2>1, <2>2 DEF Submit
    <2>4. [tasks[s] EXCEPT !.beside = TRUE] \in Task
      BY <1>1 DEF Task
    <2> QED
      BY <2>3, <2>4, TaskFacts
  <1>7. ASSUME NEW t \in Slots, Answer(t) PROVE LoadAnswered(s) \/ CommandFailed(s)
    <2>1. t = s
      BY <1>7, TaskFacts DEF Answer, UploadAnswered, CommandAnswered, CommandFailed,
                             LoadAnswered, Ended, Inv, TypeOK
    <2>2. ~UploadAnswered(s)
      BY <1>2 DEF UploadAnswered
    <2>3. ~CommandAnswered(s)
      <3> SUFFICES ASSUME CommandAnswered(s) PROVE FALSE
        OBVIOUS
      <3>1. tasks'[s] = [tasks[s] EXCEPT !.stage = "asked"]
        BY <1>2 DEF CommandAnswered, Inv, TypeOK
      <3>2. [tasks[s] EXCEPT !.stage = "asked"] \in Task
        BY <1>1 DEF Task
      <3> QED
        BY <3>1, <3>2, TaskFacts
    <2> QED
      BY <1>7, <2>1, <2>2, <2>3 DEF Answer
  <1>8. ~Change /\ ~(\E p \in Pages : Open(p)) /\ ~UNCHANGED vars
    BY DEF Change, Open, vars
  <1> QED
    BY <1>4, <1>5, <1>6, <1>7, <1>8 DEF Next

\* What the page announces as registered or deleted is among the data it shows, or it says
\* that they could not be loaded.
THEOREM AnnouncedIsShown == Spec => CommandShown
  <1>1. ASSUME Inv, [Next]_vars, NEW s \in Slots, tasks[s] # None, tasks'[s] = None,
               Announced(s), page' = page, message' = "done"
        PROVE  error' = "load" \/ (rows' # None /\ rows' >= tasks[s].effect)
    <2>1. CASE LoadAnswered(s) /\ At(s, "read")
      <3>1. rows' = tasks[s].seen
        BY <2>1 DEF LoadAnswered
      <3>2. tasks[s].seen \in Nat /\ tasks[s].effect \in Nat /\ tasks[s].effect <= tasks[s].seen
        BY <1>1, <2>1, BoundAssumption DEF Inv, TypeOK, Fresh, Task, At
      <3> QED
        BY <3>1, <3>2, TaskFacts
    <2>2. CASE LoadAnswered(s) /\ ~At(s, "read")
      BY <2>2 DEF LoadAnswered, ErrorAfter
    <2>3. CASE CommandFailed(s)
      BY <1>1, <2>3 DEF CommandFailed, Announced
    <2> QED
      BY <1>1, <2>1, <2>2, <2>3, AnnouncedEnds
  <1>2. Inv /\ [Next]_vars =>
           [\A s \in Slots :
               /\ tasks[s] # None /\ tasks'[s] = None
               /\ Announced(s)
               /\ page' = page
               /\ message' = "done"
               => \/ error' = "load"
                  \/ rows' # None /\ rows' >= tasks[s].effect]_vars
    BY <1>1
  <1> QED
    BY <1>2, Invariance, PTL DEF Spec, CommandShown

-----------------------------------------------------------------------------
\* Every step of the pages is a step of what they promise about their data, or shows nothing.
LEMMA StepView == Inv /\ [Next]_vars => [View!Next]_View!viewVars
  <1> SUFFICES ASSUME Inv, [Next]_vars PROVE [View!Next]_View!viewVars
    OBVIOUS
  <1> DEFINE opened == IF page \in Lists THEN openedAt ELSE None
  <1>1. CASE Change
    BY <1>1 DEF Change, screen, View!Next, View!Change
  <1>2. ASSUME NEW p \in Pages, Open(p) PROVE View!Next
    <2>1. version' = version /\ rows' = None /\ page' = p /\ openedAt' = version
      BY <1>2 DEF Open
    <2>2. CASE p \in Lists
      BY <2>1, <2>2 DEF View!Next, View!Open
    <2>3. CASE p \notin Lists
      BY <2>1, <2>3 DEF View!Next, View!Close
    <2> QED
      BY <2>2, <2>3
  <1>3. ASSUME NEW s \in Slots, LoadAnswered(s) PROVE [View!Next]_View!viewVars
    <2>1. version' = version /\ page' = page /\ openedAt' = openedAt
      BY <1>3 DEF LoadAnswered
    <2>2. CASE At(s, "read")
      <3>1. page \in Lists /\ rows' = tasks[s].seen
        BY <1>3, <2>2 DEF LoadAnswered, Inv, Placed, Loading, At
      <3>2. tasks[s].seen \in openedAt .. version /\ openedAt # None
        BY <1>3, <2>2, BoundAssumption, TaskFacts DEF Inv, TypeOK, Fresh, Task, At
      <3>3. View!Show
        BY <2>1, <3>1, <3>2 DEF View!Show
      <3> QED
        BY <3>3 DEF View!Next
    <2>3. CASE ~At(s, "read")
      BY <1>3, <2>1, <2>3 DEF LoadAnswered, View!viewVars
    <2> QED
      BY <2>2, <2>3
  <1>4. ASSUME NEW s \in Slots, Serve(s) PROVE [View!Next]_View!viewVars
    <2>1. (version' = version \/ version' = version + 1) /\ UNCHANGED <<page, openedAt, rows>>
      BY <1>4 DEF Serve, Apply, Refuse, AnswerNotConfigured, Read, FailRead, screen
    <2> QED
      BY <2>1 DEF View!Next, View!Change, View!viewVars
  <1>5. ASSUME NEW s \in Slots,
               AnyLoad(s) \/ AnySubmit(s) \/ UploadAnswered(s) \/ CommandAnswered(s) \/ CommandFailed(s)
        PROVE  [View!Next]_View!viewVars
    <2>1. UNCHANGED <<version, page, openedAt, rows>>
      BY <1>5 DEF AnyLoad, UpdateHistoryLoad, InspectionLogLoad, ServerMonitoringLoad,
                  ComplianceRetry, Load, AnySubmit, Upload, RunInspection, AddPolicy,
                  RemovePolicy, SyncPolicies, Submit, UploadAnswered, CommandAnswered,
                  CommandFailed
    <2> QED
      BY <2>1 DEF View!viewVars
  <1>6. CASE UNCHANGED vars
    BY <1>6 DEF vars, screen, View!viewVars
  <1> QED
    BY <1>1, <1>2, <1>3, <1>4, <1>5, <1>6 DEF Next, Answer

\* The pages implement the abstract specification of their data: an answer never shows on a
\* page that was opened after its request was read.
THEOREM PagesKeepView == Spec => ViewKept
  <1>1. Init => View!Init
    BY DEF Init, View!Init, Lists, Pages, AgentOps
  <1> QED
    BY <1>1, StepView, Invariance, PTL DEF Spec, View!Spec, ViewKept
=============================================================================
