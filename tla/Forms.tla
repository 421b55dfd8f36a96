--------------------------------- MODULE Forms ---------------------------------
(***************************************************************************)
(* The forms in which managers edit one row: the cards of the settings     *)
(* page, which lay what was typed over the row that was loaded last, the   *)
(* access-profile form, which copies the row when it is opened, and the    *)
(* floor plan, which copies it at the first drag.  All save every field    *)
(* they show, whether or not it is still what the row has: a save of a     *)
(* page that is behind writes older values back.  Requests may be lost,    *)
(* and another manager may have the same page open.  What is typed, or     *)
(* dragged, is typed here.                                                 *)
(***************************************************************************)
EXTENDS Integers, FiniteSets

CONSTANTS
  Managers,   \* managers with the page open
  Fields,     \* the fields of the form
  Minutes,    \* the field autoDisconnectMinutes
  Typable,    \* field -> values that can be typed into it
  MaxSaves    \* bound: saves asked for

ASSUME FormsAssumption ==
  /\ MaxSaves \in Nat
  /\ Typable \in [Fields -> SUBSET Nat]

VARIABLES
  shape,   \* which of the forms it is
  row,     \* the row in the database
  loaded,  \* manager -> the row as his page loaded it
  base,    \* manager -> what the form shows where nothing was typed
  typed,   \* manager -> what was typed
  open,    \* manager -> whether the form is open
  saving,  \* manager -> the saves asked for -> where each is, and what it sends
  saves

formVars == <<shape, row, loaded, base, typed, open, saving, saves>>

DefaultMinutes == 3
Empty == [f \in Fields |-> DefaultMinutes]
Untyped == [f \in Fields |-> {}]
NotSaving == [at |-> "none", data |-> Empty]
Saves == 1 .. MaxSaves

FormsInit ==
  /\ shape \in {"overlay", "copy", "plan"}
  /\ row = Empty
  /\ loaded = [m \in Managers |-> Empty] /\ base = loaded
  /\ typed = [m \in Managers |-> Untyped]
  /\ open = [m \in Managers |-> shape = "overlay"]
  /\ saving = [m \in Managers |-> [i \in Saves |-> NotSaving]]
  /\ saves = 0

-------------------------------------------------------------------------------
(* current = {...data, ...form} on a card; the copy in the other forms.    *)
Beneath(m) == IF shape = "overlay" THEN loaded[m] ELSE base[m]
Current(m) ==
  [f \in Fields |-> IF typed[m][f] = {} THEN Beneath(m)[f] ELSE CHOOSE v \in typed[m][f] : TRUE]

Dirty(m) == typed[m] # Untyped

Typed(m) == \E f \in Fields : \E v \in Typable[f] :
  /\ open[m] /\ typed[m][f] # {v}
  /\ typed' = [typed EXCEPT ![m][f] = {v}]

TypeOnCard(m) ==
  /\ shape = "overlay" /\ Typed(m)
  /\ UNCHANGED <<shape, row, loaded, base, open, saving, saves>>

TypeInForm(m) ==
  /\ shape = "copy" /\ Typed(m)
  /\ UNCHANGED <<shape, row, loaded, base, open, saving, saves>>

(* The first drag keeps what is loaded later from being shown.             *)
Drag(m) ==
  /\ shape = "plan" /\ Typed(m)
  /\ base' = IF Dirty(m) THEN base ELSE [base EXCEPT ![m] = loaded[m]]
  /\ UNCHANGED <<shape, row, loaded, open, saving, saves>>

(* The floor plan is edited in a mode of its own, in which the row is not  *)
(* loaded again.                                                           *)
SwitchMode(m) ==
  /\ shape = "plan"
  /\ open' = [open EXCEPT ![m] = ~ @]
  /\ UNCHANGED <<shape, row, loaded, base, typed, saving, saves>>

StartEdit(m) ==
  /\ shape = "copy"
  /\ base' = [base EXCEPT ![m] = loaded[m]]
  /\ typed' = [typed EXCEPT ![m] = Untyped]
  /\ open' = [open EXCEPT ![m] = TRUE]
  /\ UNCHANGED <<shape, row, loaded, saving, saves>>

ResetForm(m) ==
  /\ typed' = [typed EXCEPT ![m] = Untyped]
  /\ open' = [open EXCEPT ![m] = @ /\ shape # "copy"]

CancelEdit(m) ==
  /\ shape = "copy" /\ open[m] /\ ResetForm(m)
  /\ UNCHANGED <<shape, row, loaded, base, saving, saves>>

(* Another room is chosen, and this one again.                             *)
LeaveRoom(m) ==
  /\ shape = "plan" /\ Dirty(m) /\ ResetForm(m)
  /\ UNCHANGED <<shape, row, loaded, base, saving, saves>>

(* A save sends the whole form, whatever else is under way.                *)
Asks(m, data) ==
  /\ open[m] /\ saves < MaxSaves
  /\ saving' = [saving EXCEPT ![m][saves + 1] = [at |-> "asked", data |-> data]]
  /\ saves' = saves + 1
  /\ UNCHANGED <<shape, row, loaded, base, typed, open>>

(* The button of a card and of the profile form is disabled while a save   *)
(* of that page is pending; that of the floor plan is not.                 *)
IsPending(m) == \E i \in Saves : saving[m][i].at \in {"asked", "stored"}

(* Number(minutes) || 3                                                    *)
Sent(data) == [data EXCEPT ![Minutes] = IF @ = 0 THEN DefaultMinutes ELSE @]

SaveCard(m) == shape = "overlay" /\ ~ IsPending(m) /\ Asks(m, Sent(Current(m)))
SaveForm(m) == shape = "copy" /\ ~ IsPending(m) /\ Asks(m, Current(m))
SavePlan(m) == shape = "plan" /\ Dirty(m) /\ Asks(m, Current(m))

(* The server stores every field that was sent, also for a page that has   *)
(* been left.                                                              *)
Stores(m, i) ==
  /\ saving[m][i].at \in {"asked", "left"}
  /\ row' = saving[m][i].data
  /\ saving' = [saving EXCEPT ![m][i].at = IF @ = "asked" THEN "stored" ELSE "none"]
  /\ UNCHANGED <<shape, loaded, base, typed, open, saves>>

UpdateOrg(m, i) == shape = "overlay" /\ Stores(m, i)
UpdateProfile(m, i) == shape = "copy" /\ Stores(m, i)
SaveFloor(m, i) == shape = "plan" /\ Stores(m, i)

(* After a save a card keeps what was typed; the profile form is closed,   *)
(* and the floor plan shows again what was loaded, whatever was dragged    *)
(* since the save.                                                         *)
AfterSave(m) == IF shape = "overlay" THEN UNCHANGED <<typed, open>> ELSE ResetForm(m)

Saved(m, i) ==
  /\ saving[m][i].at = "stored"
  /\ AfterSave(m)
  /\ saving' = [saving EXCEPT ![m][i].at = "none"]
  /\ UNCHANGED <<shape, row, loaded, base, saves>>

SaveFailed(m, i) ==
  /\ saving[m][i].at # "none"
  /\ saving' = [saving EXCEPT ![m][i].at = "none"]
  /\ UNCHANGED <<shape, row, loaded, base, typed, open, saves>>

(* The page loads the row again, and not in the mode of its own.           *)
Fetch(m) ==
  /\ loaded[m] # row /\ (shape = "plan" => ~ open[m])
  /\ loaded' = [loaded EXCEPT ![m] = row]
  /\ UNCHANGED <<shape, row, base, typed, open, saving, saves>>

(* The manager opens the page anew; nobody awaits its saves any more.      *)
LeftBehind == [none |-> "none", asked |-> "left", stored |-> "none", left |-> "left"]
OpenPage(m) ==
  /\ loaded' = [loaded EXCEPT ![m] = row]
  /\ typed' = [typed EXCEPT ![m] = Untyped]
  /\ open' = [open EXCEPT ![m] = shape = "overlay"]
  /\ saving' = [saving EXCEPT ![m] = [i \in Saves |-> [saving[m][i] EXCEPT !.at = LeftBehind[@]]]]
  /\ UNCHANGED <<shape, row, base, saves>>

FormsNext == \E m \in Managers :
  \/ TypeOnCard(m) \/ TypeInForm(m) \/ Drag(m)
  \/ SwitchMode(m) \/ StartEdit(m) \/ CancelEdit(m) \/ LeaveRoom(m)
  \/ SaveCard(m) \/ SaveForm(m) \/ SavePlan(m)
  \/ Fetch(m) \/ OpenPage(m)
  \/ \E i \in Saves :
       \/ UpdateOrg(m, i) \/ UpdateProfile(m, i) \/ SaveFloor(m, i)
       \/ Saved(m, i) \/ SaveFailed(m, i)

FormsSpec == FormsInit /\ [][FormsNext]_formVars

-------------------------------------------------------------------------------
FormsTypeOK ==
  /\ \A f \in Fields : row[f] \in Typable[f] \cup {DefaultMinutes}
  /\ \A m \in Managers, f \in Fields : typed[m][f] \subseteq Typable[f]
  /\ saves \in 0 .. MaxSaves
===============================================================================
