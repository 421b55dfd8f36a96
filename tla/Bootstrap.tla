------------------------------- MODULE Bootstrap -------------------------------
(***************************************************************************)
(* The two programs that fill an empty database, statement by statement:   *)
(* BootstrapService, which runs whenever the API starts, and the seed of   *)
(* the demo organization, which is run by hand.  Neither is a transaction, *)
(* so a program that dies leaves what it has written.  A program is the    *)
(* sequence of its statements; a row is named by what it is, and counted.  *)
(***************************************************************************)
EXTENDS Integers, Sequences

CONSTANTS
  Programs,  \* processes that run one of the two programs
  MaxRuns    \* bound: runs of the programs

ASSUME BootstrapAssumption == MaxRuns \in Nat

Tenants == {"main", "demo"}
RoleKeys == {"OWNER", "CASHIER"}

VARIABLES
  rows,     \* tenant -> row -> how many there are of it
  granted,  \* tenant -> the roles that have their permissions
  program,  \* process -> the tenant its program is for, and the statements left
  cut,      \* tenants of which a program died where the next boot may not make
            \* up for it (history)
  runs

bootstrapVars == <<rows, granted, program, cut, runs>>

Statement(op, row) == [op |-> op, row |-> row]
Upsert(row) == Statement("upsert", row)
Insert(row) == Statement("insert", row)

(* Every system role is made sure of, stripped, and given its permissions. *)
RoleWithPermissions(key) ==
  << Upsert(key), Statement("strip", key), Statement("grant", key) >>
Organization ==
  << Upsert("permissions"), Upsert("tenant") >>
    \o RoleWithPermissions("OWNER") \o RoleWithPermissions("CASHIER") \o << Upsert("branch") >>

OwnerFirst == << Insert("owner") >> \o Organization \o << Insert("ownerRole") >>
BootProgram == Organization \o << Insert("owner"), Insert("ownerRole") >>

SeedEmployees == << Upsert("owner"), Upsert("ownerRole"), Upsert("cashier"), Upsert("cashierRole") >>
SeedRooms == << Insert("room"), Insert("group"), Insert("computers") >>
SeedCustomer == << Insert("customer"), Insert("ledger"), Insert("catalog"), Insert("register") >>
SeedProgram == Organization \o SeedEmployees \o SeedRooms \o SeedCustomer

Statements(t) == IF t = "main" THEN BootProgram ELSE SeedProgram
AllRows == {s.row : s \in {BootProgram[i] : i \in DOMAIN BootProgram}
                            \cup {SeedProgram[i] : i \in DOMAIN SeedProgram}}

(* Rows with a unique key: the second insert fails.                        *)
Keyed == {"permissions", "tenant", "branch", "owner", "ownerRole", "cashier", "cashierRole",
          "computers"} \cup RoleKeys

NotRunning == [tenant |-> "main", left |-> << >>]

BootstrapInit ==
  /\ rows = [t \in Tenants |-> [r \in AllRows |-> 0]]
  /\ granted = [t \in Tenants |-> {}]
  /\ program = [p \in Programs |-> NotRunning]
  /\ cut = {} /\ runs = 0

-------------------------------------------------------------------------------
Has(t, row) == rows[t][row] > 0
Running(p) == program[p].left # << >>

(* employee.count() > 0, whichever organization the employee is of.        *)
AnyEmployee == \E t \in Tenants : Has(t, "owner")

Start(p, t) ==
  /\ ~ Running(p) /\ runs < MaxRuns
  /\ t = "main" => ~ AnyEmployee
  /\ program' = [program EXCEPT ![p] = [tenant |-> t, left |-> Statements(t)]]
  /\ runs' = runs + 1
  /\ UNCHANGED <<rows, granted, cut>>

Adds(t, statement) ==
  \/ statement.op = "insert" /\ (statement.row \in Keyed => ~ Has(t, statement.row))
  \/ statement.op = "upsert" /\ ~ Has(t, statement.row)
Clashes(t, statement) == statement.op = "insert" /\ statement.row \in Keyed /\ Has(t, statement.row)

GrantedAfter(roles, statement) ==
  CASE statement.op = "strip" -> roles \ {statement.row}
    [] statement.op = "grant" -> roles \cup {statement.row}
    [] OTHER -> roles

(* A program executes its next statement; one that fails ends it.          *)
Execute(p) == LET t == program[p].tenant  s == Head(program[p].left) IN
  /\ Running(p)
  /\ rows' = IF Adds(t, s) THEN [rows EXCEPT ![t][s.row] = @ + 1] ELSE rows
  /\ granted' = [granted EXCEPT ![t] = GrantedAfter(@, s)]
  /\ program' = [program EXCEPT ![p] =
       IF Clashes(t, s) THEN NotRunning ELSE [tenant |-> t, left |-> Tail(program[p].left)]]
  /\ UNCHANGED <<cut, runs>>

(* Beside another program of its organization, before it comes to an owner *)
(* that another one has made, or between the owner and his role.           *)
Works(p, t) == Running(p) /\ program[p].tenant = t
DiesLate(p) == LET t == program[p].tenant  left == program[p].left IN
  \/ \E q \in Programs \ {p} : Works(q, t)
  \/ /\ Has(t, "owner")
     /\ Head(left).row = "ownerRole" \/ \E i \in DOMAIN left : left[i].row = "owner"

ProgramDies(p) ==
  /\ Running(p)
  /\ program' = [program EXCEPT ![p] = NotRunning]
  /\ cut' = IF DiesLate(p) THEN cut \cup {program[p].tenant} ELSE cut
  /\ UNCHANGED <<rows, granted, runs>>

BootstrapNext == \E p \in Programs :
  \/ \E t \in Tenants : Start(p, t)
  \/ Execute(p) \/ ProgramDies(p)

BootstrapSpec == BootstrapInit /\ [][BootstrapNext]_bootstrapVars

-------------------------------------------------------------------------------
BootstrapTypeOK ==
  /\ \A t \in Tenants : granted[t] \subseteq {key \in RoleKeys : Has(t, key)}
  /\ runs \in 0 .. MaxRuns

(* The next boot does nothing once there is an employee, so whatever an    *)
(* organization that has its owner lacks then, it lacks for good ("safe to *)
(* run on every boot").  Boots that overlap, seeds that are run again and  *)
(* programs that die on the way and are started anew leave it with one     *)
(* owner, his role, the branch and all permissions of the roles, unless    *)
(* one of them died late.                                                  *)
OwnerComesLast == \A t \in Tenants \ cut :
  Has(t, "owner") /\ (~ \E p \in Programs : Works(p, t)) =>
    /\ granted[t] = RoleKeys
    /\ \A r \in {"branch", "owner", "ownerRole"} : rows[t][r] = 1
===============================================================================
