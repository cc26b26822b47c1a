---------------------------- MODULE AssetDetail ----------------------------
(***************************************************************************)
(* The detail page of one asset and its management form (AssetDetailModal, *)
(* ManagementForm and the asset in the address, src/frontend/src.jsx).     *)
(*                                                                         *)
(* The page is a dialog over the console; the address names its asset.     *)
(* Closing it asks first when something was typed and not saved; the       *)
(* browser's Back, or another address, changes or ends it without asking.  *)
(* The page is the same component for every asset: a change of the address *)
(* from one asset to another loads the data anew but keeps the form, which *)
(* was filled once, when it appeared.  A save sends every field of the     *)
(* form and reloads the page.  Others edit the same assets meanwhile.      *)
(***************************************************************************)
EXTENDS Naturals

CONSTANTS
    None,
    Assets,
    Fields,      \* the management data of an asset
    Values,
    Empty,       \* the value of every field at first
    Slots,       \* bound: saves under way at once
    MaxEdits,    \* bound: edits by others
    MaxMoves     \* bound: changes of the address under one open page

ASSUME ConstantAssumption ==
    /\ None \notin Assets /\ Empty \in Values /\ MaxEdits \in Nat /\ MaxMoves \in Nat

VARIABLES
    stored,     \* the management data on the server
    edits,      \* edits by others so far
    moves,      \* changes of the address since the page was opened
    assetId,    \* the asset in the address; None: the page is closed
    first,      \* the load for this address: None, asked, failed or what it has read
    data,       \* the asset whose data the page shows
    error,      \* the load for the address has failed: the page shows nothing else
    form,       \* the fields of the form; None: no form yet
    dirty,
    busy,
    saves,      \* what each slot is at: a save and the reload after it
    base,       \* the asset and the data the form was filled with, or has stored since (history)
    typed,      \* the fields typed in since the form was filled (history)
    unsaved,    \* the form differs from what was saved last, by typing (history)
    midSave,    \* it was typed in while a save was under way, and not saved since (history)
    movedInSave \* the address changed while a save was under way, and the page has not been
                \* loaded for it with no save under way since (history)

server == <<stored, edits>>
route == <<moves, assetId>>
past == <<base, typed, unsaved, midSave, movedInSave>>
vars == <<server, route, first, data, error, form, dirty, busy, saves, past>>

Record == [Fields -> Values]
Page == [asset : Assets, fields : Record]

Reading == [stage : {"asked", "failed"}] \cup [stage : {"read"}, fields : Record]

\* asset and body are what is sent; reload is the asset of the page that sent it, which is
\* the one loaded anew.  base and typed are the form's at that time (history).
Save == [stage  : {"sent", "stored", "refused", "asked"},
         asset  : Assets,
         body   : Record,
         reload : Assets,
         here   : BOOLEAN,
         base   : Page,
         typed  : SUBSET Fields]

ASSUME NoneAssumption == None \notin Record \cup Page \cup Reading \cup Save

At(s, stage) == saves[s] # None /\ saves[s].stage = stage

\* A save, or the load after it, of the page on the screen.
Saving == \E s \in Slots : saves[s] # None /\ saves[s].here

NoForm ==
    /\ form' = None /\ base' = None /\ typed' = {}
    /\ dirty' = FALSE /\ busy' = FALSE
    /\ unsaved' = FALSE /\ midSave' = FALSE /\ movedInSave' = FALSE

Init ==
    /\ stored = [a \in Assets |-> [f \in Fields |-> Empty]]
    /\ edits = 0
    /\ moves = 0
    /\ assetId = None
    /\ first = None
    /\ data = None
    /\ error = FALSE
    /\ form = None
    /\ dirty = FALSE
    /\ busy = FALSE
    /\ saves = [s \in Slots |-> None]
    /\ base = None
    /\ typed = {}
    /\ unsaved = FALSE
    /\ midSave = FALSE
    /\ movedInSave = FALSE

-----------------------------------------------------------------------------
\* The asset a, chosen in the list or by an address, on a page that was closed.
Open(a) ==
    /\ assetId = None
    /\ assetId' = a
    /\ first' = [stage |-> "asked"]
    /\ UNCHANGED <<server, moves, data, error, form, dirty, busy, saves, past>>

\* The page is unmounted with all its state.  Its saves go on without it.
Unmount ==
    /\ assetId' = None
    /\ first' = None
    /\ data' = None
    /\ error' = FALSE
    /\ moves' = 0
    /\ NoForm
    /\ saves' = [s \in Slots |->
                   IF saves[s] # None /\ saves[s].stage \in {"sent", "stored", "refused"}
                   THEN [saves[s] EXCEPT !.here = FALSE]
                   ELSE None]
    /\ UNCHANGED server

\* Escape, the cross or the background: a page that knows of typing closes only on a yes.
CloseQuietly == assetId # None /\ ~dirty /\ Unmount

CloseOnYes == assetId # None /\ dirty /\ Unmount

\* The browser's Back, or the end of the sign-in: nothing is asked.
Leave == assetId # None /\ Unmount

\* Mutant: the data are loaded only when the page appears.
LoadedFor(a) == first

\* Every asset in the address is loaded; the answer for another is not waited for.
LoadFor(a) == [stage |-> "asked"]

\* Back, or an address, from one asset to another: the page stays mounted.
Move(a) ==
    /\ assetId # None /\ a # assetId
    /\ moves < MaxMoves
    /\ moves' = moves + 1
    /\ assetId' = a
    /\ first' = LoadFor(a)
    /\ movedInSave' = (movedInSave \/ Saving)
    /\ UNCHANGED <<server, data, error, form, dirty, busy, saves, base, typed, unsaved, midSave>>

-----------------------------------------------------------------------------
ReadFirst ==
    /\ first # None /\ first.stage = "asked"
    /\ first' = [stage |-> "read", fields |-> stored[assetId]]
    /\ UNCHANGED <<server, route, data, error, form, dirty, busy, saves, past>>

FailFirst ==
    /\ first # None /\ first.stage = "asked"
    /\ first' = [stage |-> "failed"]
    /\ UNCHANGED <<server, route, data, error, form, dirty, busy, saves, past>>

\* Mutant: a field without a value is left out of the form.
FilledWhereGiven(fields) == [f \in {g \in Fields : fields[g] # Empty} |-> fields[f]]

\* Every field has its place in the form, if only the empty text.
Filled(fields) == [f \in Fields |-> fields[f]]

\* The data are shown.  The form is filled when it appears, and never again.
FirstRead ==
    /\ first # None /\ first.stage = "read"
    /\ first' = None
    /\ data' = assetId
    /\ IF form = None /\ ~error
       THEN form' = Filled(first.fields) /\ base' = [asset |-> assetId, fields |-> first.fields]
       ELSE UNCHANGED <<form, base>>
    /\ movedInSave' = (movedInSave /\ Saving)
    /\ UNCHANGED <<server, route, error, dirty, busy, saves, typed, unsaved, midSave>>

\* The error takes the place of the page, and of its form, until the page is closed.
FirstFailed ==
    /\ first # None /\ first.stage = "failed"
    /\ first' = None
    /\ error' = TRUE
    /\ form' = None /\ base' = None /\ typed' = {} /\ busy' = FALSE
    /\ unsaved' = FALSE /\ midSave' = FALSE
    /\ UNCHANGED <<server, route, data, dirty, saves, movedInSave>>

-----------------------------------------------------------------------------
\* set(): no field is disabled while a save is under way.
Type(f, v) ==
    /\ form # None /\ v # form[f]
    /\ form' = [form EXCEPT ![f] = v]
    /\ dirty' = TRUE
    /\ typed' = typed \cup {f}
    /\ unsaved' = TRUE
    /\ midSave' = (midSave \/ busy)
    /\ UNCHANGED <<server, route, first, data, error, busy, saves, base, movedInSave>>

\* Mutant: only what was typed is sent, and the rest stored as empty.
BodyTypedOnly == [f \in Fields |-> IF f \in typed THEN form[f] ELSE Empty]

\* Every field of the form is sent, typed in or not.
Body == form

Submit(s) ==
    /\ form # None /\ ~busy
    /\ saves[s] = None
    /\ busy' = TRUE
    /\ saves' = [saves EXCEPT ![s] =
                   [stage |-> "sent", asset |-> data, body |-> Body,
                    reload |-> assetId, here |-> TRUE,
                    base |-> base, typed |-> typed]]
    /\ UNCHANGED <<server, route, first, data, error, form, dirty, past>>

\* The server stores the record.  Its answer may be lost: the page then tells an error.
Store(s) ==
    /\ At(s, "sent")
    /\ stored' = [stored EXCEPT ![saves[s].asset] = saves[s].body]
    /\ \E stage \in {"stored", "refused"} : saves' = [saves EXCEPT ![s].stage = stage]
    /\ UNCHANGED <<edits, route, first, data, error, form, dirty, busy, past>>

Refuse(s) ==
    /\ At(s, "sent")
    /\ saves' = [saves EXCEPT ![s].stage = "refused"]
    /\ UNCHANGED <<server, route, first, data, error, form, dirty, busy, past>>

\* Mutant: every answer takes the warning back, a failure too.
NeverDirty(s) == FALSE

\* onDirtyChange(false) follows a save that has succeeded, and no other.
StillDirty(s) == dirty /\ ~At(s, "stored")

\* The save has succeeded: the page has nothing unsaved any more, whatever was typed since,
\* and is loaded anew.
Saved(s) ==
    /\ At(s, "stored")
    /\ IF saves[s].here
       THEN /\ dirty' = StillDirty(s)
            /\ saves' = [saves EXCEPT ![s].stage = "asked"]
            /\ IF form = None
               THEN UNCHANGED <<base, typed, unsaved, midSave>>
               ELSE /\ base' = [asset |-> saves[s].asset, fields |-> saves[s].body]
                    /\ typed' = {f \in Fields : form[f] # saves[s].body[f]}
                    /\ unsaved' = (form # saves[s].body)
                    /\ midSave' = (midSave /\ unsaved')
       ELSE /\ saves' = [saves EXCEPT ![s] = None]
            /\ UNCHANGED <<dirty, base, typed, unsaved, midSave>>
    /\ UNCHANGED <<server, route, first, data, error, form, busy, movedInSave>>

SaveFailed(s) ==
    /\ At(s, "refused")
    /\ saves' = [saves EXCEPT ![s] = None]
    /\ IF saves[s].here
       THEN busy' = FALSE /\ dirty' = StillDirty(s)
       ELSE UNCHANGED <<busy, dirty>>
    /\ UNCHANGED <<server, route, first, data, error, form, past>>

\* loadDetail has no guard of its own: the asset it was called for is shown, even if the
\* address has changed since.
Reloaded(s) ==
    /\ At(s, "asked")
    /\ saves' = [saves EXCEPT ![s] = None]
    /\ busy' = FALSE
    /\ data' = saves[s].reload
    /\ UNCHANGED <<server, route, first, error, form, dirty, past>>

\* Its failure is told as one of the save.
ReloadFailed(s) ==
    /\ At(s, "asked")
    /\ saves' = [saves EXCEPT ![s] = None]
    /\ busy' = FALSE
    /\ UNCHANGED <<server, route, first, data, error, form, dirty, past>>

\* Another administrator saves a field.
EditByOther(a, f, v) ==
    /\ edits < MaxEdits
    /\ edits' = edits + 1
    /\ v # stored[a][f]
    /\ stored' = [stored EXCEPT ![a][f] = v]
    /\ UNCHANGED <<route, first, data, error, form, dirty, busy, saves, past>>

-----------------------------------------------------------------------------
Address ==
    \/ CloseQuietly
    \/ CloseOnYes
    \/ Leave
    \/ \E a \in Assets : Open(a) \/ Move(a)

FirstLoad == ReadFirst \/ FailFirst \/ FirstRead \/ FirstFailed

SaveStep(s) ==
    \/ Submit(s)
    \/ Store(s)
    \/ Refuse(s)
    \/ Saved(s)
    \/ SaveFailed(s)
    \/ Reloaded(s)
    \/ ReloadFailed(s)

Next ==
    \/ Address
    \/ FirstLoad
    \/ \E s \in Slots : SaveStep(s)
    \/ \E f \in Fields, v \in Values :
          Type(f, v) \/ \E a \in Assets : EditByOther(a, f, v)

Spec == Init /\ [][Next]_vars

-----------------------------------------------------------------------------
TypeOK ==
    /\ stored \in [Assets -> Record]
    /\ edits \in 0 .. MaxEdits /\ moves \in 0 .. MaxMoves
    /\ assetId \in Assets \cup {None}
    /\ first \in Reading \cup {None}
    /\ data \in Assets \cup {None}
    /\ error \in BOOLEAN
    /\ form \in Record \cup {None} /\ base \in Page \cup {None}
    /\ form # None => data # None /\ base # None /\ assetId # None
    /\ dirty \in BOOLEAN /\ busy \in BOOLEAN
    /\ saves \in [Slots -> Save \cup {None}]
    /\ typed \subseteq Fields
    /\ unsaved \in BOOLEAN /\ midSave \in BOOLEAN /\ movedInSave \in BOOLEAN

\* What was typed and not saved is never closed without asking, except what was typed while
\* a save was under way: the success of that save takes back the warning for it too.
TypedIsGuarded == unsaved /\ ~dirty => midSave

\* When nothing is under way, the page shows the asset in the address, or an error.  The
\* exception: the address changed during a save, whose reload then shows the asset left, until
\* the page is loaded again.
SettledShowsAddress ==
    assetId # None /\ first = None /\ ~Saving /\ ~movedInSave =>
        error \/ data = assetId

\* A save changes a field nobody typed in only by putting back what the page had read for
\* it: somebody else has changed the field since, and loses the change.  The exception: the
\* address changed under the form, which goes on with the fields of the asset it left.
UntypedOnlyPutBack ==
    [][\A s \in Slots, f \in Fields :
          /\ At(s, "sent")
          /\ stored' # stored
          /\ saves'[s] # saves[s]
          /\ stored'[saves[s].asset][f] # stored[saves[s].asset][f]
          /\ saves[s].asset = saves[s].base.asset
          => f \in saves[s].typed \/ stored[saves[s].asset][f] # saves[s].base.fields[f]]_vars
=============================================================================
