------------------------------- MODULE Profiles -------------------------------
(***************************************************************************)
(* AccessProfilesService: what customers may use at a station.  Profiles   *)
(* are edited while customers are given profiles and take their seats.  A  *)
(* request is served in steps between database calls; the statements of a  *)
(* transaction lock the rows they change until it ends.                    *)
(***************************************************************************)
EXTENDS Integers, Sequences, FiniteSets

CONSTANTS
  Guests,       \* customers
  Stations,     \* computers with an agent
  Editors,      \* requests that edit profiles
  EditsOverlap, \* whether they may overlap
  Nobody,       \* the guest of an empty seat
  MaxProfiles,  \* bound: profiles created
  MaxFailures   \* bound: edits that die half-way

ASSUME ProfilesAssumption ==
  /\ EditsOverlap \in BOOLEAN
  /\ {MaxProfiles, MaxFailures} \subseteq Nat
  /\ Nobody \notin Guests

VARIABLES
  profiles, \* AccessProfile rows by age; 0 stands for none
  assigned, \* guest -> accessProfileId
  seat,     \* station -> the guest of its open session
  looking,  \* station -> the policy being applied to it
  command,  \* station -> whether the profile of the newest APPLY_ACCESS_POLICY command
            \* for it had been deleted before the guest sat down (history)
  editing,  \* editor -> the request being served
  failures

profileVars == <<profiles, assigned, seat, looking, command, editing, failures>>

-------------------------------------------------------------------------------
(* What a profile allows is left out: it is copied and nothing looks at it.*)
(* A profile is named for its level.                                       *)
Levels == {"FULL", "COMPUTER_ONLY", "EMAIL_ONLY"}

None == 0
Rows == 1 .. Len(profiles)

Waiting == [step |-> "wait", row |-> None, level |-> "FULL", isDefault |-> FALSE,
            locked |-> {}, todo |-> << >>]
(* gone (history): the rows deleted before the guest sat down.             *)
NotLooking == [step |-> "none", profile |-> None, gone |-> {}]

NoCommand == FALSE

ProfilesInit ==
  /\ profiles = << >>
  /\ assigned = [g \in Guests |-> None]
  /\ seat = [s \in Stations |-> Nobody]
  /\ looking = [s \in Stations |-> NotLooking]
  /\ command = [s \in Stations |-> NoCommand]
  /\ editing = [e \in Editors |-> Waiting]
  /\ failures = 0

-------------------------------------------------------------------------------
(* Edits.                                                                  *)

Live(r) == ~ profiles[r].deleted
Deleted == {r \in Rows : ~ Live(r)}

BeginEdit(e, request) ==
  /\ editing[e] = Waiting
  /\ EditsOverlap \/ \A other \in Editors : editing[other] = Waiting
  /\ editing' = [editing EXCEPT ![e] = request]
  /\ UNCHANGED <<profiles, assigned, seat, looking, command, failures>>

EndEdit(e) == editing' = [editing EXCEPT ![e] = Waiting]

Unlocked(e, r) == \A other \in Editors \ {e} : r \notin editing[other].locked

(* The name must not be that of a live profile; the unique index also      *)
(* covers the deleted ones.                                                *)
NameInUse(name) == \E r \in Rows : Live(r) /\ profiles[r].name = name
NameTaken(name) == \E r \in Rows : profiles[r].name = name

Create(e, level, isDefault) ==
  /\ ~ NameInUse(level)
  /\ BeginEdit(e, [Waiting EXCEPT !.step = IF isDefault THEN "clear" ELSE "store",
                                  !.level = level, !.isDefault = isDefault])

Update(e, r, isDefault) ==
  /\ Live(r)
  /\ BeginEdit(e, [Waiting EXCEPT !.step = IF isDefault THEN "clear" ELSE "store", !.row = r,
                                  !.isDefault = isDefault])

(* The transaction begins by taking the mark from the other profiles; the  *)
(* change shows when it ends.                                              *)
OtherDefaults(e) == {r \in Rows \ {editing[e].row} : profiles[r].isDefault}

ClearDefaults(e) ==
  /\ editing[e].step = "clear"
  /\ \A r \in OtherDefaults(e) : Unlocked(e, r)
  /\ editing' = [editing EXCEPT ![e].step = "store", ![e].locked = OtherDefaults(e)]
  /\ UNCHANGED <<profiles, assigned, seat, looking, command, failures>>

Cleared(e) ==
  [r \in Rows |-> IF r \in editing[e].locked THEN [profiles[r] EXCEPT !.isDefault = FALSE]
                  ELSE profiles[r]]

NewProfile(name, isDefault) ==
  [name |-> name, isDefault |-> isDefault, deleted |-> FALSE]

StoreCreate(e) ==
  /\ editing[e].step = "store" /\ editing[e].row = None
  /\ Len(profiles) < MaxProfiles
  /\ ~ NameTaken(editing[e].level)
  /\ profiles' = Append(Cleared(e), NewProfile(editing[e].level, editing[e].isDefault))
  /\ EndEdit(e)
  /\ UNCHANGED <<assigned, seat, looking, command, failures>>

CreateRefused(e) ==
  /\ editing[e].step = "store" /\ editing[e].row = None
  /\ NameTaken(editing[e].level)
  /\ EndEdit(e)
  /\ UNCHANGED <<profiles, assigned, seat, looking, command, failures>>

StoreUpdate(e) ==
  LET r == editing[e].row IN
  /\ editing[e].step = "store" /\ r # None
  /\ Unlocked(e, r)
  /\ profiles' = [Cleared(e) EXCEPT ![r].isDefault = editing[e].isDefault]
  /\ EndEdit(e)
  /\ UNCHANGED <<assigned, seat, looking, command, failures>>

Remove(e, r) ==
  /\ Live(r)
  /\ BeginEdit(e, [Waiting EXCEPT !.step = "remove", !.row = r])

Retired(row) == [row EXCEPT !.deleted = TRUE, !.isDefault = FALSE]

(* Customers are detached in the same transaction.                         *)
StoreRemove(e) ==
  LET r == editing[e].row IN
  /\ editing[e].step = "remove"
  /\ Unlocked(e, r)
  /\ assigned' = [g \in Guests |-> IF assigned[g] = r THEN None ELSE assigned[g]]
  /\ profiles' = [profiles EXCEPT ![r] = Retired(@)]
  /\ EndEdit(e)
  /\ UNCHANGED <<seat, looking, command, failures>>

(* ensureDefaults counts the live profiles, then creates three, one write  *)
(* after the other, the first as the default.                              *)
BuiltIn == <<"FULL", "COMPUTER_ONLY", "EMAIL_ONLY">>

EnsureDefaults(e) ==
  /\ \A r \in Rows : ~ Live(r)
  /\ BeginEdit(e, [Waiting EXCEPT !.step = "seed", !.todo = BuiltIn])

SeedNext(e) ==
  LET todo == editing[e].todo IN
  /\ editing[e].step = "seed"
  /\ Len(profiles) < MaxProfiles
  /\ ~ NameTaken(Head(todo))
  /\ profiles' = Append(profiles, NewProfile(Head(todo), Head(todo) = "FULL"))
  /\ IF Len(todo) = 1 THEN EndEdit(e)
     ELSE editing' = [editing EXCEPT ![e].todo = Tail(todo)]
  /\ UNCHANGED <<assigned, seat, looking, command, failures>>

SeedRefused(e) ==
  /\ editing[e].step = "seed"
  /\ NameTaken(Head(editing[e].todo))
  /\ EndEdit(e)
  /\ UNCHANGED <<profiles, assigned, seat, looking, command, failures>>

EditDies(e) ==
  /\ editing[e] # Waiting
  /\ failures < MaxFailures
  /\ failures' = failures + 1
  /\ EndEdit(e)
  /\ UNCHANGED <<profiles, assigned, seat, looking, command>>

-------------------------------------------------------------------------------
(* Customers and stations.                                                 *)

(* CustomersService.update stores any row that exists, from a form that    *)
(* may have listed it before it was deleted.                               *)
AssignProfile(g, r) ==
  /\ assigned' = [assigned EXCEPT ![g] = r]
  /\ UNCHANGED <<profiles, seat, looking, command, editing, failures>>

OpenSession(s, g) ==
  /\ seat[s] = Nobody
  /\ \A t \in Stations : seat[t] # g
  /\ looking[s] = NotLooking
  /\ seat' = [seat EXCEPT ![s] = g]
  /\ looking' = [looking EXCEPT ![s] = [NotLooking EXCEPT !.step = "look", !.gone = Deleted]]
  /\ UNCHANGED <<profiles, assigned, command, editing, failures>>

(* applyToComputer reads the customer with its profile, then queues the    *)
(* command; without a profile the station keeps what it had.               *)
AnyProfile(r) == r # None
Enforceable(r) == r # None /\ ~ profiles[r].deleted

LookUp(s) ==
  LET r == assigned[seat[s]] IN
  /\ looking[s].step = "look" /\ seat[s] # Nobody
  /\ looking' = [looking EXCEPT ![s] =
       IF Enforceable(r)
       THEN [@ EXCEPT !.step = "push", !.profile = r]
       ELSE NotLooking]
  /\ UNCHANGED <<profiles, assigned, seat, command, editing, failures>>

Push(s) ==
  /\ looking[s].step = "push"
  /\ command' = [command EXCEPT ![s] = looking[s].profile \in looking[s].gone]
  /\ looking' = [looking EXCEPT ![s] = NotLooking]
  /\ UNCHANGED <<profiles, assigned, seat, editing, failures>>

CloseSession(s) ==
  /\ seat[s] # Nobody
  /\ looking[s] = NotLooking
  /\ seat' = [seat EXCEPT ![s] = Nobody]
  /\ UNCHANGED <<profiles, assigned, looking, command, editing, failures>>

ProfilesNext ==
  \/ \E e \in Editors :
       \/ ClearDefaults(e) \/ CreateRefused(e) \/ StoreUpdate(e) \/ StoreRemove(e)
       \/ EnsureDefaults(e) \/ SeedRefused(e) \/ EditDies(e)
       \/ StoreCreate(e) \/ SeedNext(e)
       \/ \E r \in Rows : Remove(e, r) \/ \E isDefault \in BOOLEAN : Update(e, r, isDefault)
       \/ \E level \in Levels, isDefault \in BOOLEAN : Create(e, level, isDefault)
  \/ \E g \in Guests, r \in Rows \cup {None} : AssignProfile(g, r)
  \/ \E s \in Stations : \/ LookUp(s) \/ Push(s) \/ CloseSession(s)
                         \/ \E g \in Guests : OpenSession(s, g)

ProfilesSpec == ProfilesInit /\ [][ProfilesNext]_profileVars

-------------------------------------------------------------------------------
Profile == [name : Levels, isDefault : BOOLEAN, deleted : BOOLEAN]
Edit == [step : {"wait", "clear", "store", "remove", "seed"}, row : Rows \cup {None},
         level : Levels, isDefault : BOOLEAN, locked : SUBSET Rows, todo : Seq(Levels)]
Look == [step : {"none", "look", "push"}, profile : Rows \cup {None}, gone : SUBSET Rows]

ProfilesTypeOK ==
  /\ profiles \in Seq(Profile)
  /\ assigned \in [Guests -> Rows \cup {None}]
  /\ seat \in [Stations -> Guests \cup {Nobody}]
  /\ looking \in [Stations -> Look]
  /\ command \in [Stations -> BOOLEAN]
  /\ editing \in [Editors -> Edit]
  /\ failures \in Nat

(* The profile that is marked as the default is one, and not a deleted     *)
(* one, whatever edits, removals and half-finished seedings came before.   *)
AtMostOneDefault ==
  \A q, r \in Rows :
    profiles[q].isDefault /\ profiles[r].isDefault => q = r /\ Live(q)

(* A station is not sent the policy of a profile that had been deleted     *)
(* before its guest sat down, although customers may still point at it.    *)
NoDeletedPolicy == \A s \in Stations : ~ command[s]

(* What is in force, as the default or on a station, was not deleted.      *)
ProfilesInForce == AtMostOneDefault /\ NoDeletedPolicy

(* "Detach from customers so we never leave a dangling reference".         *)
NoDanglingReference == \A g \in Guests : assigned[g] # None => Live(assigned[g])
===============================================================================
