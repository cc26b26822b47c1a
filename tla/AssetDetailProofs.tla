------------------------- MODULE AssetDetailProofs -------------------------
(***************************************************************************)
(* Proofs about AssetDetail, for every number of saves under way.  Saves   *)
(* that a closed page has left behind go on beside those of the next page; *)
(* what ties them to the form is that the page on the screen has one save  *)
(* at most, and only while the form says that it is busy.                  *)
(***************************************************************************)
EXTENDS AssetDetail, TLAPS

\* A save, or the load after it, of the page on the screen, as opposed to one left behind.
Here(s) == saves[s] # None /\ saves[s].here

\* An address that is loaded is one of an open page, which a failed load leaves without a form.
PageIsOpen ==
    /\ first # None => assetId # None
    /\ form # None => ~error
    /\ assetId = None => ~error

\* A page without a form has nothing typed or under way in it.
NoFormIsBlank == form = None => typed = {} /\ ~unsaved /\ ~busy

\* The form is busy while the page has a save under way, of which there is one; a page has none
\* before it has a form.  After a failed load a save may still be on its way.
OneSaveHere ==
    /\ \A s, t \in Slots : Here(s) /\ Here(t) => s = t
    /\ form # None => (busy <=> Saving)
    /\ form = None /\ ~error => ~Saving

\* A page that is closed takes the load after its save with it.
ReloadIsHere == \A s \in Slots : At(s, "asked") => Here(s)

\* What nobody has typed in is in the form, and in what a save sends, as it was read.
FormAsRead == form # None => \A f \in Fields : f \in typed \/ form[f] = base.fields[f]
SentAsRead ==
    \A s \in Slots : saves[s] # None =>
        \A f \in Fields : f \in saves[s].typed \/ saves[s].body[f] = saves[s].base.fields[f]

\* What has been typed since the save was sent has been typed while it was under way.
TypedAfterSent ==
    \A s \in Slots : Here(s) /\ (At(s, "sent") \/ At(s, "stored")) /\ form # None =>
        form = saves[s].body \/ midSave

\* The page is loaded anew for the asset in the address, unless that has changed meanwhile.
ReloadsAddress == \A s \in Slots : Here(s) /\ ~movedInSave => saves[s].reload = assetId

\* The address that has been loaded is the one shown, saves under way or not.
LoadedIsShown == assetId # None /\ first = None /\ ~movedInSave => error \/ data = assetId

Inv ==
    /\ TypeOK
    /\ PageIsOpen /\ NoFormIsBlank /\ OneSaveHere /\ ReloadIsHere
    /\ FormAsRead /\ SentAsRead /\ TypedAfterSent
    /\ ReloadsAddress /\ LoadedIsShown
    /\ TypedIsGuarded

-----------------------------------------------------------------------------
(***************************************************************************)
(* Saves                                                                   *)
(***************************************************************************)
LEMMA SaveHasParts ==
  ASSUME TypeOK, NEW s \in Slots, saves[s] # None
  PROVE  /\ saves[s] \in Save
         /\ saves[s].asset \in Assets /\ saves[s].body \in Record /\ saves[s].reload \in Assets
         /\ saves[s].here \in BOOLEAN /\ saves[s].base \in Page
  BY DEF TypeOK, Save

\* A save that comes to another stage is the same save.
LEMMA StageStep ==
  ASSUME TypeOK, NEW s \in Slots, saves[s] # None,
         NEW stage \in {"sent", "stored", "refused", "asked"},
         saves' = [saves EXCEPT ![s].stage = stage]
  PROVE  /\ saves' \in [Slots -> Save \cup {None}]
         /\ saves'[s] # None /\ saves'[s].stage = stage
         /\ saves'[s].body = saves[s].body /\ saves'[s].reload = saves[s].reload
         /\ saves'[s].here = saves[s].here
         /\ saves'[s].base = saves[s].base /\ saves'[s].typed = saves[s].typed
         /\ \A t \in Slots : t # s => saves'[t] = saves[t]
         /\ \A t \in Slots : Here(t)' <=> Here(t)
         /\ Saving' <=> Saving
  <1> DEFINE new == [saves[s] EXCEPT !.stage = stage]
  <1>1. saves[s] \in Save
    BY SaveHasParts
  <1>2. /\ new \in Save /\ new.stage = stage
        /\ new.body = saves[s].body /\ new.reload = saves[s].reload /\ new.here = saves[s].here
        /\ new.base = saves[s].base /\ new.typed = saves[s].typed
    BY <1>1 DEF Save
  <1>3. saves' = [saves EXCEPT ![s] = new]
    OBVIOUS
  <1> HIDE DEF new
  <1>4. new # None
    BY <1>2, NoneAssumption
  <1>5. /\ saves' \in [Slots -> Save \cup {None}]
        /\ saves'[s] = new /\ \A t \in Slots : t # s => saves'[t] = saves[t]
    BY <1>2, <1>3 DEF TypeOK
  <1>6. \A t \in Slots : Here(t)' <=> Here(t)
    BY <1>2, <1>4, <1>5 DEF Here
  <1>7. Saving' <=> Saving
    BY <1>6 DEF Here, Saving
  <1> QED BY <1>2, <1>4, <1>5, <1>6, <1>7

\* A save that ends leaves its slot to the next.
LEMMA EndStep ==
  ASSUME TypeOK, NEW s \in Slots, saves' = [saves EXCEPT ![s] = None]
  PROVE  /\ saves' \in [Slots -> Save \cup {None}]
         /\ saves'[s] = None
         /\ \A t \in Slots : t # s => saves'[t] = saves[t]
         /\ \A t \in Slots : Here(t)' <=> t # s /\ Here(t)
         /\ ~Here(s) => (Saving' <=> Saving)
  BY DEF TypeOK, Here, Saving

\* When the one save of the page ends, the page has none.
LEMMA EndHere ==
  ASSUME Inv, NEW s \in Slots, Here(s), saves' = [saves EXCEPT ![s] = None]
  PROVE  ~Saving'
  <1>1. \A t \in Slots : ~Here(t)'
    BY EndStep DEF Inv, OneSaveHere
  <1> QED BY <1>1 DEF Here, Saving

-----------------------------------------------------------------------------
LEMMA InitInv == Init => Inv
  <1> SUFFICES ASSUME Init PROVE Inv
    OBVIOUS
  <1>1. TypeOK
    <2>1. edits \in 0 .. MaxEdits /\ moves \in 0 .. MaxMoves
      BY ConstantAssumption, SMT DEF Init
    <2>2. stored \in [Assets -> Record] /\ saves \in [Slots -> Save \cup {None}]
      BY ConstantAssumption DEF Init, Record
    <2> QED BY <2>1, <2>2, Zenon DEF Init, TypeOK
  <1>2. \A s \in Slots : saves[s] = None
    BY DEF Init
  <1> QED
    BY <1>1, <1>2
    DEF Init, Inv, PageIsOpen, NoFormIsBlank, OneSaveHere, ReloadIsHere, FormAsRead, SentAsRead,
        TypedAfterSent, ReloadsAddress, LoadedIsShown, TypedIsGuarded, Here, At, Saving

LEMMA UnmountKeepsInv == ASSUME Inv, Unmount PROVE Inv'
  <1>1. /\ UNCHANGED <<stored, edits>>
        /\ moves' = 0 /\ assetId' = None /\ first' = None /\ data' = None /\ error' = FALSE
        /\ form' = None /\ base' = None /\ typed' = {} /\ dirty' = FALSE /\ busy' = FALSE
        /\ unsaved' = FALSE /\ midSave' = FALSE /\ movedInSave' = FALSE
    BY DEF Unmount, NoForm, server
  <1>2. ASSUME NEW s \in Slots
        PROVE  /\ saves'[s] \in Save \cup {None}
               /\ ~Here(s)'
               /\ saves'[s] # None => /\ saves[s] # None /\ saves'[s].stage # "asked"
                                      /\ saves'[s].body = saves[s].body
                                      /\ saves'[s].base = saves[s].base
                                      /\ saves'[s].typed = saves[s].typed
    <2>1. saves'[s] = IF saves[s] # None /\ saves[s].stage \in {"sent", "stored", "refused"}
                      THEN [saves[s] EXCEPT !.here = FALSE] ELSE None
      BY DEF Unmount
    <2>2. CASE saves[s] # None /\ saves[s].stage \in {"sent", "stored", "refused"}
      <3> DEFINE left == [saves[s] EXCEPT !.here = FALSE]
      <3>1. saves[s] \in Save
        BY <2>2, SaveHasParts DEF Inv
      <3>2. left \in Save /\ left.here = FALSE
        BY <3>1 DEF Save
      <3>3. /\ left.stage = saves[s].stage /\ left.body = saves[s].body
            /\ left.base = saves[s].base /\ left.typed = saves[s].typed
        BY <3>1 DEF Save
      <3>4. saves'[s] = left
        BY <2>1, <2>2
      <3> HIDE DEF left
      <3> QED BY <2>2, <3>2, <3>3, <3>4 DEF Here
    <2>3. CASE ~(saves[s] # None /\ saves[s].stage \in {"sent", "stored", "refused"})
      BY <2>1, <2>3 DEF Here
    <2> QED BY <2>2, <2>3
  <1>3. saves' \in [Slots -> Save \cup {None}]
    <2>1. DOMAIN saves' = Slots /\ saves' = [s \in Slots |-> saves'[s]]
      BY DEF Unmount
    <2> QED BY <1>2, <2>1
  <1>4. TypeOK'
    <2>1. moves' \in 0 .. MaxMoves
      BY <1>1, ConstantAssumption, SMT
    <2> QED BY <1>1, <1>3, <2>1, Zenon DEF Inv, TypeOK
  <1>5. OneSaveHere' /\ ReloadIsHere' /\ TypedAfterSent' /\ ReloadsAddress'
    BY <1>1, <1>2 DEF OneSaveHere, ReloadIsHere, TypedAfterSent, ReloadsAddress, At, Here, Saving
  <1>6. SentAsRead'
    BY <1>2 DEF Inv, SentAsRead
  <1>7. PageIsOpen' /\ NoFormIsBlank' /\ FormAsRead' /\ LoadedIsShown' /\ TypedIsGuarded'
    BY <1>1 DEF PageIsOpen, NoFormIsBlank, FormAsRead, LoadedIsShown, TypedIsGuarded
  <1> QED BY <1>4, <1>5, <1>6, <1>7 DEF Inv

\* No page: no save of one.
LEMMA ClosedHasNoSave == ASSUME Inv, assetId = None PROVE ~Saving /\ form = None
  BY DEF Inv, PageIsOpen, OneSaveHere, TypeOK

LEMMA AskedIsReading == [stage |-> "asked"] \in Reading /\ [stage |-> "asked"] # None
  <1>1. [stage |-> "asked"] \in Reading
    BY DEF Reading
  <1> QED BY <1>1, NoneAssumption

LEMMA AddressKeepsInv ==
  ASSUME Inv, NEW a \in Assets, Open(a) \/ Move(a)
  PROVE  Inv'
  <1>1. /\ assetId' = a /\ a # None
        /\ first' \in Reading /\ first' # None
        /\ UNCHANGED <<stored, edits, data, error, form, dirty, busy, saves, base, typed, unsaved, midSave>>
    BY AskedIsReading, ConstantAssumption DEF Open, Move, LoadFor, server, past
  <1>2. TypeOK'
    <2>1. moves' \in 0 .. MaxMoves
      BY ConstantAssumption, SMT DEF Open, Move, Inv, TypeOK
    <2>2. movedInSave' \in BOOLEAN
      BY DEF Open, Move, past, Inv, TypeOK
    <2> QED BY <1>1, <2>1, <2>2 DEF Inv, TypeOK
  <1>3. ReloadsAddress'
    <2>1. CASE Open(a)
      BY <1>1, <2>1, ClosedHasNoSave DEF Open, ReloadsAddress, Here, Saving
    <2>2. CASE Move(a)
      BY <1>1, <2>2 DEF Move, ReloadsAddress, Here, Saving
    <2> QED BY <2>1, <2>2
  <1>4. LoadedIsShown' /\ PageIsOpen'
    BY <1>1 DEF LoadedIsShown, PageIsOpen, Inv
  <1>5. OneSaveHere' /\ ReloadIsHere' /\ TypedAfterSent' /\ SentAsRead'
    BY <1>1 DEF Inv, OneSaveHere, ReloadIsHere, TypedAfterSent, SentAsRead, At, Here, Saving
  <1>6. NoFormIsBlank' /\ FormAsRead' /\ TypedIsGuarded'
    BY <1>1 DEF Inv, NoFormIsBlank, FormAsRead, TypedIsGuarded
  <1> QED BY <1>2, <1>3, <1>4, <1>5, <1>6 DEF Inv
-----------------------------------------------------------------------------
(***************************************************************************)
(* The load of an address and the form                                     *)
(***************************************************************************)
\* The answer to a load is read or has failed; the page is otherwise as it was.
LEMMA AnswerKeepsInv == ASSUME Inv, ReadFirst \/ FailFirst PROVE Inv'
  <1>1. /\ first # None
        /\ UNCHANGED <<stored, edits, moves, assetId, data, error, form, dirty, busy, saves,
                       base, typed, unsaved, midSave, movedInSave>>
    BY DEF ReadFirst, FailFirst, server, route, past
  <1>2. assetId \in Assets
    BY <1>1 DEF Inv, PageIsOpen, TypeOK
  <1>3. first' \in Reading
    <2>1. stored[assetId] \in Record
      BY <1>2 DEF Inv, TypeOK
    <2> QED BY <2>1 DEF ReadFirst, FailFirst, Reading
  <1>4. first' # None
    BY <1>3, NoneAssumption
  <1>5. TypeOK'
    BY <1>1, <1>3 DEF Inv, TypeOK
  <1>6. /\ PageIsOpen' /\ LoadedIsShown' /\ NoFormIsBlank' /\ FormAsRead' /\ TypedIsGuarded'
        /\ OneSaveHere' /\ ReloadIsHere' /\ SentAsRead' /\ TypedAfterSent' /\ ReloadsAddress'
    BY <1>1, <1>2, <1>4, ConstantAssumption
    DEF Inv, PageIsOpen, LoadedIsShown, NoFormIsBlank, FormAsRead, TypedIsGuarded,
        OneSaveHere, ReloadIsHere, SentAsRead, TypedAfterSent, ReloadsAddress, At, Here, Saving
  <1> QED BY <1>5, <1>6 DEF Inv

\* The form is filled with the fields as they have been read.
LEMMA FilledIsRecord == ASSUME NEW r \in Record PROVE Filled(r) \in Record /\ Filled(r) = r
  BY DEF Filled, Record

LEMMA FirstReadKeepsInv == ASSUME Inv, FirstRead PROVE Inv'
  <1>1. /\ first # None /\ first' = None /\ data' = assetId
        /\ movedInSave' = (movedInSave /\ Saving)
        /\ UNCHANGED <<stored, edits, moves, assetId, error, dirty, busy, saves, typed, unsaved, midSave>>
    BY DEF FirstRead, server, route
  <1>2. assetId \in Assets /\ assetId # None
    BY <1>1, ConstantAssumption DEF Inv, PageIsOpen, TypeOK
  <1>3. ReloadsAddress' /\ LoadedIsShown'
    BY <1>1 DEF Inv, ReloadsAddress, LoadedIsShown, Here, Saving
  <1>4. ReloadIsHere' /\ SentAsRead' /\ TypedIsGuarded'
    BY <1>1 DEF Inv, ReloadIsHere, SentAsRead, TypedIsGuarded, At, Here
  <1>5. movedInSave' \in BOOLEAN
    BY <1>1
  <1>6. CASE form = None /\ ~error
    <2>1. first \in Reading /\ first.stage = "read"
      BY <1>1 DEF FirstRead, Inv, TypeOK
    <2>2. first.fields \in Record
      BY <2>1 DEF Reading
    <2>3. /\ form' = first.fields /\ base' = [asset |-> assetId, fields |-> first.fields]
      BY <1>6, <2>2, FilledIsRecord DEF FirstRead
    <2>4. base' \in Page /\ form' \in Record /\ base'.fields = form'
      BY <1>2, <2>2, <2>3 DEF Page
    <2>5. base' # None /\ form' # None
      BY <2>4, NoneAssumption
    <2>6. ~Saving /\ typed = {} /\ ~busy
      BY <1>6 DEF Inv, OneSaveHere, NoFormIsBlank
    <2>7. TypeOK'
      BY <1>1, <1>2, <1>5, <2>4, <2>5 DEF Inv, TypeOK
    <2>8. OneSaveHere' /\ TypedAfterSent'
      BY <1>1, <2>5, <2>6 DEF OneSaveHere, TypedAfterSent, Here, Saving
    <2>9. PageIsOpen' /\ NoFormIsBlank' /\ FormAsRead'
      BY <1>1, <1>2, <1>6, <2>4, <2>5 DEF PageIsOpen, NoFormIsBlank, FormAsRead
    <2> QED BY <1>3, <1>4, <2>7, <2>8, <2>9 DEF Inv
  <1>7. CASE ~(form = None /\ ~error)
    <2>1. UNCHANGED <<form, base>>
      BY <1>7 DEF FirstRead
    <2>2. TypeOK'
      BY <1>1, <1>2, <1>5, <2>1 DEF Inv, TypeOK
    <2>3. OneSaveHere' /\ TypedAfterSent'
      BY <1>1, <2>1 DEF Inv, OneSaveHere, TypedAfterSent, At, Here, Saving
    <2>4. PageIsOpen' /\ NoFormIsBlank' /\ FormAsRead'
      BY <1>1, <2>1 DEF Inv, PageIsOpen, NoFormIsBlank, FormAsRead
    <2> QED BY <1>3, <1>4, <2>2, <2>3, <2>4 DEF Inv
  <1> QED BY <1>6, <1>7

LEMMA FirstFailedKeepsInv == ASSUME Inv, FirstFailed PROVE Inv'
  <1>1. /\ first # None /\ first' = None /\ error' = TRUE
        /\ form' = None /\ base' = None /\ typed' = {} /\ busy' = FALSE
        /\ unsaved' = FALSE /\ midSave' = FALSE
        /\ UNCHANGED <<stored, edits, moves, assetId, data, dirty, saves, movedInSave>>
    BY DEF FirstFailed, server, route
  <1>2. assetId # None
    BY <1>1 DEF Inv, PageIsOpen
  <1>3. TypeOK'
    BY <1>1 DEF Inv, TypeOK
  <1>4. /\ PageIsOpen' /\ NoFormIsBlank' /\ FormAsRead' /\ LoadedIsShown' /\ TypedIsGuarded'
        /\ OneSaveHere' /\ TypedAfterSent'
    BY <1>1, <1>2
    DEF Inv, PageIsOpen, NoFormIsBlank, FormAsRead, LoadedIsShown, TypedIsGuarded, OneSaveHere,
        TypedAfterSent, Here
  <1>5. ReloadIsHere' /\ SentAsRead' /\ ReloadsAddress'
    BY <1>1 DEF Inv, ReloadIsHere, SentAsRead, ReloadsAddress, At, Here
  <1> QED BY <1>3, <1>4, <1>5 DEF Inv

LEMMA TypeKeepsInv ==
  ASSUME Inv, NEW f \in Fields, NEW v \in Values, Type(f, v)
  PROVE  Inv'
  <1>1. /\ form # None
        /\ form' = [form EXCEPT ![f] = v] /\ dirty' = TRUE /\ typed' = typed \cup {f}
        /\ unsaved' = TRUE /\ midSave' = (midSave \/ busy)
        /\ UNCHANGED <<stored, edits, moves, assetId, first, data, error, busy, saves, base, movedInSave>>
    BY DEF Type, server, route
  <1>2. form \in Record
    BY <1>1 DEF Inv, TypeOK
  <1>3. form' \in Record /\ \A g \in Fields : g # f => form'[g] = form[g]
    BY <1>1, <1>2 DEF Record
  <1>4. form' # None
    BY <1>3, NoneAssumption
  <1>5. TypeOK'
    <2>1. midSave' \in BOOLEAN
      BY <1>1 DEF Inv, TypeOK
    <2> QED BY <1>1, <1>3, <1>4, <2>1 DEF Inv, TypeOK
  <1>6. FormAsRead'
    BY <1>1, <1>3 DEF Inv, FormAsRead
  <1>7. TypedAfterSent'
    BY <1>1 DEF Inv, TypedAfterSent, OneSaveHere, At, Here, Saving
  <1>8. PageIsOpen' /\ NoFormIsBlank' /\ LoadedIsShown' /\ TypedIsGuarded' /\ OneSaveHere'
    BY <1>1, <1>4
    DEF Inv, PageIsOpen, NoFormIsBlank, LoadedIsShown, TypedIsGuarded, OneSaveHere, Here, Saving
  <1>9. ReloadIsHere' /\ SentAsRead' /\ ReloadsAddress'
    BY <1>1 DEF Inv, ReloadIsHere, SentAsRead, ReloadsAddress, At, Here
  <1> QED BY <1>5, <1>6, <1>7, <1>8, <1>9 DEF Inv
-----------------------------------------------------------------------------
(***************************************************************************)
(* A save, step by step                                                    *)
(***************************************************************************)
LEMMA SubmitKeepsInv == ASSUME Inv, NEW s \in Slots, Submit(s) PROVE Inv'
  <1> DEFINE new == [stage |-> "sent", asset |-> data, body |-> form, reload |-> assetId,
                     here |-> TRUE, base |-> base, typed |-> typed]
  <1>1. /\ form # None /\ ~busy /\ saves[s] = None
        /\ busy' = TRUE
        /\ saves' = [saves EXCEPT ![s] = new]
        /\ UNCHANGED <<stored, edits, moves, assetId, first, data, error, form, dirty,
                       base, typed, unsaved, midSave, movedInSave>>
    BY DEF Submit, Body, server, route, past
  <1>2. new \in Save
    BY <1>1 DEF Inv, TypeOK, Save
  <1>3. /\ new.stage = "sent" /\ new.here = TRUE /\ new.body = form /\ new.reload = assetId
        /\ new.base = base /\ new.typed = typed
    OBVIOUS
  <1> HIDE DEF new
  <1>4. new # None
    BY <1>2, NoneAssumption
  <1>5. /\ saves' \in [Slots -> Save \cup {None}]
        /\ saves'[s] = new /\ \A t \in Slots : t # s => saves'[t] = saves[t]
    BY <1>1, <1>2 DEF Inv, TypeOK
  <1>6. \A t \in Slots : ~Here(t)
    BY <1>1 DEF Inv, OneSaveHere, Here, Saving
  <1>7. \A t \in Slots : Here(t)' <=> t = s
    BY <1>3, <1>4, <1>5, <1>6 DEF Here
  <1>8. Saving'
    BY <1>7 DEF Here, Saving
  <1>9. TypeOK'
    BY <1>1, <1>5 DEF Inv, TypeOK
  <1>10. OneSaveHere'
    BY <1>1, <1>7, <1>8 DEF OneSaveHere
  <1>11. ReloadIsHere'
    BY <1>3, <1>5, <1>7 DEF Inv, ReloadIsHere, At, Here
  <1>12. SentAsRead'
    BY <1>1, <1>3, <1>5 DEF Inv, SentAsRead, FormAsRead
  <1>13. TypedAfterSent' /\ ReloadsAddress'
    BY <1>1, <1>3, <1>5, <1>7 DEF TypedAfterSent, ReloadsAddress
  <1>14. PageIsOpen' /\ NoFormIsBlank' /\ FormAsRead' /\ LoadedIsShown' /\ TypedIsGuarded'
    BY <1>1 DEF Inv, PageIsOpen, NoFormIsBlank, FormAsRead, LoadedIsShown, TypedIsGuarded
  <1> QED BY <1>9, <1>10, <1>11, <1>12, <1>13, <1>14 DEF Inv

\* The server's steps leave the page as it is.
LEMMA ServerKeepsInv == ASSUME Inv, NEW s \in Slots, Store(s) \/ Refuse(s) PROVE Inv'
  <1>1. /\ At(s, "sent")
        /\ UNCHANGED <<edits, moves, assetId, first, data, error, form, dirty, busy,
                       base, typed, unsaved, midSave, movedInSave>>
    BY DEF Store, Refuse, server, route, past
  <1>2. PICK stage \in {"stored", "refused"} : saves' = [saves EXCEPT ![s].stage = stage]
    BY DEF Store, Refuse
  <1>3. saves[s] # None
    BY <1>1 DEF At
  <1>4. /\ saves' \in [Slots -> Save \cup {None}]
        /\ saves'[s] # None /\ saves'[s].stage = stage
        /\ saves'[s].body = saves[s].body /\ saves'[s].reload = saves[s].reload
        /\ saves'[s].base = saves[s].base /\ saves'[s].typed = saves[s].typed
        /\ \A t \in Slots : t # s => saves'[t] = saves[t]
        /\ \A t \in Slots : Here(t)' <=> Here(t)
        /\ Saving' <=> Saving
    BY <1>2, <1>3, StageStep DEF Inv
  <1>5. stored' \in [Assets -> Record]
    <2>1. saves[s].body \in Record
      BY <1>3, SaveHasParts DEF Inv
    <2> QED BY <2>1 DEF Store, Refuse, server, Inv, TypeOK
  <1>6. TypeOK'
    BY <1>1, <1>4, <1>5 DEF Inv, TypeOK
  <1>7. OneSaveHere'
    BY <1>1, <1>4 DEF Inv, OneSaveHere
  <1>8. ReloadIsHere' /\ SentAsRead' /\ ReloadsAddress'
    BY <1>1, <1>3, <1>4 DEF Inv, ReloadIsHere, SentAsRead, ReloadsAddress, At
  <1>9. TypedAfterSent'
    BY <1>1, <1>3, <1>4 DEF Inv, TypedAfterSent, At
  <1>10. PageIsOpen' /\ NoFormIsBlank' /\ FormAsRead' /\ LoadedIsShown' /\ TypedIsGuarded'
    BY <1>1 DEF Inv, PageIsOpen, NoFormIsBlank, FormAsRead, LoadedIsShown, TypedIsGuarded
  <1> QED BY <1>6, <1>7, <1>8, <1>9, <1>10 DEF Inv

LEMMA SavedHereKeepsInv == ASSUME Inv, NEW s \in Slots, Here(s), Saved(s) PROVE Inv'
  <1>1. /\ At(s, "stored") /\ saves[s] # None
        /\ dirty' = FALSE
        /\ saves' = [saves EXCEPT ![s].stage = "asked"]
        /\ UNCHANGED <<stored, edits, moves, assetId, first, data, error, form, busy, movedInSave>>
    BY DEF Here, Saved, StillDirty, server, route
  <1>2. /\ saves' \in [Slots -> Save \cup {None}]
        /\ saves'[s] # None /\ saves'[s].stage = "asked"
        /\ saves'[s].body = saves[s].body /\ saves'[s].reload = saves[s].reload
        /\ saves'[s].base = saves[s].base /\ saves'[s].typed = saves[s].typed
        /\ \A t \in Slots : t # s => saves'[t] = saves[t]
        /\ \A t \in Slots : Here(t)' <=> Here(t)
        /\ Saving' <=> Saving
    BY <1>1, StageStep DEF Inv
  <1>3. saves[s].body \in Record /\ saves[s].asset \in Assets
    BY <1>1, SaveHasParts DEF Inv
  <1>4. OneSaveHere' /\ ReloadIsHere' /\ SentAsRead' /\ ReloadsAddress' /\ TypedAfterSent'
    <2>1. OneSaveHere'
      BY <1>1, <1>2 DEF Inv, OneSaveHere
    <2>2. ReloadIsHere' /\ SentAsRead' /\ ReloadsAddress'
      BY <1>1, <1>2 DEF Inv, ReloadIsHere, SentAsRead, ReloadsAddress, At
    <2>3. \A t \in Slots : Here(t)' => t = s
      BY <1>2 DEF Inv, OneSaveHere
    <2> QED BY <1>2, <2>1, <2>2, <2>3 DEF TypedAfterSent, At
  <1>5. PageIsOpen' /\ LoadedIsShown'
    BY <1>1 DEF Inv, PageIsOpen, LoadedIsShown
  <1>6. CASE form = None
    <2>1. UNCHANGED <<base, typed, unsaved, midSave>>
      BY <1>6 DEF Saved, Here
    <2>2. TypeOK'
      BY <1>1, <1>2, <2>1 DEF Inv, TypeOK
    <2>3. NoFormIsBlank' /\ FormAsRead' /\ TypedIsGuarded'
      BY <1>1, <1>6, <2>1 DEF Inv, NoFormIsBlank, FormAsRead, TypedIsGuarded
    <2> QED BY <1>4, <1>5, <2>2, <2>3 DEF Inv
  <1>7. CASE form # None
    <2>1. /\ base' = [asset |-> saves[s].asset, fields |-> saves[s].body]
          /\ typed' = {f \in Fields : form[f] # saves[s].body[f]}
          /\ unsaved' = (form # saves[s].body)
          /\ midSave' = (midSave /\ unsaved')
      BY <1>7 DEF Saved, Here
    <2>2. base' \in Page /\ base'.fields = saves[s].body
      BY <1>3, <2>1 DEF Page
    <2>3. base' # None
      BY <2>2, NoneAssumption
    <2>4. form = saves[s].body \/ midSave
      BY <1>1, <1>7 DEF Inv, TypedAfterSent
    <2>5. unsaved' \in BOOLEAN /\ midSave' \in BOOLEAN /\ typed' \subseteq Fields
      BY <2>1
    <2>6. TypeOK'
      BY <1>1, <1>2, <1>7, <2>2, <2>3, <2>5 DEF Inv, TypeOK
    <2>7. NoFormIsBlank' /\ FormAsRead' /\ TypedIsGuarded'
      BY <1>1, <1>7, <2>1, <2>2, <2>4 DEF NoFormIsBlank, FormAsRead, TypedIsGuarded
    <2> QED BY <1>4, <1>5, <2>6, <2>7 DEF Inv
  <1> QED BY <1>6, <1>7

\* The page that sent the save is gone: its answer is for nobody.
LEMMA LeftBehindKeepsInv ==
  ASSUME Inv, NEW s \in Slots, ~Here(s), Saved(s) \/ SaveFailed(s)
  PROVE  Inv'
  <1>1. /\ saves' = [saves EXCEPT ![s] = None]
        /\ UNCHANGED <<stored, edits, moves, assetId, first, data, error, form, dirty, busy,
                       base, typed, unsaved, midSave, movedInSave>>
    BY DEF Here, At, Saved, SaveFailed, server, route, past
  <1>2. /\ saves' \in [Slots -> Save \cup {None}]
        /\ saves'[s] = None
        /\ \A t \in Slots : t # s => saves'[t] = saves[t]
        /\ \A t \in Slots : Here(t)' <=> Here(t)
        /\ Saving' <=> Saving
    BY <1>1, EndStep DEF Inv
  <1>3. TypeOK'
    BY <1>1, <1>2 DEF Inv, TypeOK
  <1>4. OneSaveHere'
    BY <1>1, <1>2 DEF Inv, OneSaveHere
  <1>5. ReloadIsHere' /\ SentAsRead' /\ ReloadsAddress' /\ TypedAfterSent'
    BY <1>1, <1>2 DEF Inv, ReloadIsHere, SentAsRead, ReloadsAddress, TypedAfterSent, At
  <1>6. PageIsOpen' /\ NoFormIsBlank' /\ FormAsRead' /\ LoadedIsShown' /\ TypedIsGuarded'
    BY <1>1 DEF Inv, PageIsOpen, NoFormIsBlank, FormAsRead, LoadedIsShown, TypedIsGuarded
  <1> QED BY <1>3, <1>4, <1>5, <1>6 DEF Inv

\* The save of the page is over, with or without the page loaded anew.
LEMMA EndedKeepsInv ==
  ASSUME Inv, NEW s \in Slots, Here(s), SaveFailed(s) \/ Reloaded(s) \/ ReloadFailed(s)
  PROVE  Inv'
  <1>1. /\ saves' = [saves EXCEPT ![s] = None] /\ busy' = FALSE
        /\ UNCHANGED <<stored, edits, moves, assetId, first, error, form,
                       base, typed, unsaved, midSave, movedInSave>>
    BY DEF Here, SaveFailed, Reloaded, ReloadFailed, server, route, past
  <1>2. dirty' = dirty
    <2>1. CASE SaveFailed(s)
      <3>1. dirty' = (dirty /\ ~At(s, "stored"))
        BY <2>1 DEF SaveFailed, StillDirty, Here
      <3>2. ~At(s, "stored")
        BY <2>1 DEF SaveFailed, At
      <3> QED BY <3>1, <3>2 DEF Inv, TypeOK
    <2>2. CASE Reloaded(s) \/ ReloadFailed(s)
      BY <2>2 DEF Reloaded, ReloadFailed
    <2> QED BY <2>1, <2>2
  <1>3. data' = data \/ data' = saves[s].reload
    BY DEF SaveFailed, Reloaded, ReloadFailed
  <1>4. /\ saves' \in [Slots -> Save \cup {None}]
        /\ saves'[s] = None
        /\ \A t \in Slots : t # s => saves'[t] = saves[t]
        /\ \A t \in Slots : ~Here(t)'
        /\ ~Saving'
    BY <1>1, EndStep, EndHere DEF Inv, OneSaveHere
  <1>5. saves[s].reload \in Assets
    BY SaveHasParts DEF Inv, Here
  <1>6. TypeOK'
    <2>1. data' \in Assets \cup {None} /\ (form # None => data' # None)
      BY <1>3, <1>5, ConstantAssumption DEF Inv, TypeOK
    <2> QED BY <1>1, <1>2, <1>4, <2>1 DEF Inv, TypeOK
  <1>7. OneSaveHere' /\ TypedAfterSent' /\ ReloadsAddress'
    BY <1>1, <1>4 DEF OneSaveHere, TypedAfterSent, ReloadsAddress
  <1>8. ReloadIsHere'
    <2>1. ASSUME NEW t \in Slots, At(t, "asked")' PROVE FALSE
      <3>1. t # s /\ At(t, "asked")
        BY <1>4, <2>1 DEF At
      <3>2. Here(t)
        BY <3>1 DEF Inv, ReloadIsHere
      <3> QED BY <3>1, <3>2 DEF Inv, OneSaveHere
    <2> QED BY <2>1 DEF ReloadIsHere
  <1>9. SentAsRead'
    BY <1>4 DEF Inv, SentAsRead
  <1>10. LoadedIsShown'
    BY <1>1, <1>3 DEF Inv, LoadedIsShown, ReloadsAddress
  <1>11. PageIsOpen' /\ NoFormIsBlank' /\ FormAsRead' /\ TypedIsGuarded'
    BY <1>1, <1>2 DEF Inv, PageIsOpen, NoFormIsBlank, FormAsRead, TypedIsGuarded
  <1> QED BY <1>6, <1>7, <1>8, <1>9, <1>10, <1>11 DEF Inv

LEMMA SaveKeepsInv == ASSUME Inv, NEW s \in Slots, SaveStep(s) PROVE Inv'
  <1>1. CASE Reloaded(s) \/ ReloadFailed(s)
    <2>1. Here(s)
      BY <1>1 DEF Inv, ReloadIsHere, Reloaded, ReloadFailed
    <2> QED BY <1>1, <2>1, EndedKeepsInv
  <1>2. CASE Submit(s) \/ Store(s) \/ Refuse(s)
    BY <1>2, SubmitKeepsInv, ServerKeepsInv
  <1>3. CASE Saved(s) \/ SaveFailed(s)
    BY <1>3, SavedHereKeepsInv, LeftBehindKeepsInv, EndedKeepsInv
  <1> QED BY <1>1, <1>2, <1>3 DEF SaveStep

LEMMA EditKeepsInv ==
  ASSUME Inv, NEW a \in Assets, NEW f \in Fields, NEW v \in Values, EditByOther(a, f, v)
  PROVE  Inv'
  <1>1. UNCHANGED <<moves, assetId, first, data, error, form, dirty, busy, saves,
                    base, typed, unsaved, midSave, movedInSave>>
    BY DEF EditByOther, route, past
  <1>2. edits' \in 0 .. MaxEdits
    BY ConstantAssumption, SMT DEF EditByOther, Inv, TypeOK
  <1>3. stored' \in [Assets -> Record]
    <2>1. stored' = [stored EXCEPT ![a] = [stored[a] EXCEPT ![f] = v]]
      BY DEF EditByOther
    <2>2. [stored[a] EXCEPT ![f] = v] \in Record
      BY DEF Inv, TypeOK, Record
    <2> QED BY <2>1, <2>2 DEF Inv, TypeOK
  <1>4. TypeOK'
    BY <1>1, <1>2, <1>3 DEF Inv, TypeOK
  <1>5. /\ PageIsOpen' /\ LoadedIsShown' /\ NoFormIsBlank' /\ FormAsRead' /\ TypedIsGuarded'
        /\ OneSaveHere' /\ ReloadIsHere' /\ SentAsRead' /\ TypedAfterSent' /\ ReloadsAddress'
    BY <1>1
    DEF Inv, PageIsOpen, LoadedIsShown, NoFormIsBlank, FormAsRead, TypedIsGuarded,
        OneSaveHere, ReloadIsHere, SentAsRead, TypedAfterSent, ReloadsAddress, At, Here, Saving
  <1> QED BY <1>4, <1>5 DEF Inv

LEMMA StutterKeepsInv == ASSUME Inv, UNCHANGED vars PROVE Inv'
  BY DEF vars, server, route, past, Inv, TypeOK, PageIsOpen, LoadedIsShown, NoFormIsBlank,
         FormAsRead, TypedIsGuarded, OneSaveHere, ReloadIsHere, SentAsRead, TypedAfterSent,
         ReloadsAddress, At, Here, Saving

LEMMA StepKeepsInv == Inv /\ [Next]_vars => Inv'
  <1> SUFFICES ASSUME Inv, [Next]_vars PROVE Inv'
    OBVIOUS
  <1>1. CASE Address
    BY <1>1, UnmountKeepsInv, AddressKeepsInv DEF Address, CloseQuietly, CloseOnYes, Leave
  <1>2. CASE FirstLoad
    BY <1>2, AnswerKeepsInv, FirstReadKeepsInv, FirstFailedKeepsInv DEF FirstLoad
  <1> QED
    BY <1>1, <1>2, SaveKeepsInv, TypeKeepsInv, EditKeepsInv, StutterKeepsInv DEF Next

LEMMA InvHolds == Spec => []Inv
  BY InitInv, StepKeepsInv, PTL DEF Spec

-----------------------------------------------------------------------------
\* The variables of the page keep their types; a form has the asset it shows and the data it was
\* filled with.
THEOREM TypeCorrect == Spec => []TypeOK
  <1>1. Inv => TypeOK
    BY DEF Inv
  <1> QED BY <1>1, InvHolds, PTL

\* Whatever is typed, saved, answered or lost, in whatever order, a page without a warning has
\* nothing unsaved, except what was typed while a save was under way.
THEOREM TypedStaysGuarded == Spec => []TypedIsGuarded
  <1>1. Inv => TypedIsGuarded
    BY DEF Inv
  <1> QED BY <1>1, InvHolds, PTL

\* However the address changes, a page at rest shows the asset in the address or an error, unless
\* a save was under way at the change.
THEOREM AddressIsShown == Spec => []SettledShowsAddress
  <1>1. Inv => SettledShowsAddress
    BY DEF Inv, LoadedIsShown, SettledShowsAddress
  <1> QED BY <1>1, InvHolds, PTL

\* For every number of fields and administrators, a save changes a field nobody typed in only to
\* what the page had read for it.
THEOREM UntypedNeverInvented == Spec => UntypedOnlyPutBack
  <1> DEFINE Kept(s, f) ==
        /\ At(s, "sent")
        /\ stored' # stored
        /\ saves'[s] # saves[s]
        /\ stored'[saves[s].asset][f] # stored[saves[s].asset][f]
        /\ saves[s].asset = saves[s].base.asset
        => f \in saves[s].typed \/ stored[saves[s].asset][f] # saves[s].base.fields[f]
  <1>1. ASSUME Inv, [Next]_vars, NEW s \in Slots, NEW f \in Fields PROVE Kept(s, f)
    <2> SUFFICES ASSUME At(s, "sent"), stored' # stored, saves'[s] # saves[s],
                        stored'[saves[s].asset][f] # stored[saves[s].asset][f],
                        f \notin saves[s].typed
                 PROVE  stored[saves[s].asset][f] # saves[s].base.fields[f]
      OBVIOUS
    <2>1. ASSUME NEW t \in Slots, SaveStep(t) PROVE Store(s)
      <3>1. Store(t)
        BY <2>1
        DEF SaveStep, Submit, Refuse, Saved, SaveFailed, Reloaded, ReloadFailed, server
      <3>2. PICK stage \in {"stored", "refused"} : saves' = [saves EXCEPT ![t].stage = stage]
        BY <3>1 DEF Store
      <3> QED BY <1>1, <3>1, <3>2 DEF Inv, TypeOK
    <2>2. Store(s)
      <3>1. ~Address /\ ~FirstLoad /\ vars' # vars
        BY DEF Address, CloseQuietly, CloseOnYes, Leave, Open, Move, Unmount, FirstLoad, ReadFirst,
               FailFirst, FirstRead, FirstFailed, server, vars
      <3>2. \A g \in Fields, v \in Values :
              ~Type(g, v) /\ \A a \in Assets : ~EditByOther(a, g, v)
        BY DEF Type, EditByOther, server
      <3> QED BY <1>1, <2>1, <3>1, <3>2 DEF Next
    <2>3. saves[s] # None
      BY DEF At
    <2>4. stored' = [stored EXCEPT ![saves[s].asset] = saves[s].body] /\ saves[s].asset \in Assets
      BY <1>1, <2>2, <2>3, SaveHasParts DEF Store, Inv
    <2>5. stored'[saves[s].asset] = saves[s].body
      BY <1>1, <2>4 DEF Inv, TypeOK
    <2>6. saves[s].body[f] = saves[s].base.fields[f]
      BY <1>1, <2>3 DEF Inv, SentAsRead
    <2> QED BY <2>5, <2>6
  <1>2. Inv /\ [Next]_vars => [\A s \in Slots, f \in Fields : Kept(s, f)]_vars
    BY <1>1
  <1> QED BY <1>2, InvHolds, PTL DEF Spec, UntypedOnlyPutBack
=============================================================================
