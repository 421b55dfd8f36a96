-------------------------------- MODULE Agent --------------------------------
(***************************************************************************)
(* The workstation agents: a manager provisions an install token, the      *)
(* Windows service exchanges it for a secret, fetches queued commands with *)
(* its heartbeat, executes them one by one and reports each result.  HTTP  *)
(* calls can be lost on the way, answered too late or served long after    *)
(* the service has given them up, and the service can restart, which       *)
(* forgets all that it keeps in memory.  Registering reads the token in    *)
(* one statement and burns it in a later one; a report reads in one and    *)
(* writes in a later one; what a heartbeat returns is one query.           *)
(***************************************************************************)
EXTENDS Naturals, Sequences, FiniteSets

CONSTANTS
  Computers,
  Requests,     \* registrations that the API handles at the same time
  NoRequest,
  TokenTtl,     \* life of an install token
  CommandTtl,   \* life of a command (30 seconds)
  Take,         \* commands returned by one heartbeat (20)
  MaxClock,     \* bound: the clock
  MaxTokens,    \* bound: tokens provisioned
  MaxStarts,    \* bound: starts of the service
  MaxCommands,  \* bound: commands sent
  MaxSessions,  \* bound: usage sessions opened
  MaxLosses     \* bound: calls lost

ASSUME SetsAssumption == NoRequest \notin Requests /\ Computers # {}
ASSUME NumbersAssumption ==
  /\ {TokenTtl, CommandTtl, MaxClock, MaxTokens, MaxStarts} \subseteq Nat
  /\ {MaxCommands, MaxSessions, MaxLosses} \subseteq Nat
  /\ Take \in Nat \ {0}

VARIABLES
  clock,
  agents,    \* computer -> row of computer_agents; 0 is a null token, an empty secret
  status,    \* computer -> "AVAILABLE", "IN_USE" or "DISCONNECTED"
  seated,    \* computer -> whether a customer's session is live on it
  commands,  \* rows of agent_commands in the order of createdAt
  calls,     \* request -> the registration it handles
  installer, \* computer -> token in the service's appsettings.json (0: none)
  station,   \* computer -> memory of its service
  secrets,   \* secrets issued so far; a new one is the next number
  done,      \* history: commands executed or found expired, with the secret of the report
             \* and whether a customer sat there whose session it was to wait for
  reports,   \* the report of each entry of done: where it is
  minted, starts, opened, losses  \* counters of the bounds

server == <<agents, status, seated, commands, calls>>
bounds == <<minted, starts, opened, losses>>
vars == <<clock, server, installer, station, secrets, done, reports, bounds>>

NoAgent == [exists |-> FALSE, token |-> 0, tokenExpires |-> 0, secret |-> 0]
NoCall(c) == [pc |-> "idle", computer |-> c, token |-> 0, secret |-> 0]
SomeComputer == CHOOSE c \in Computers : TRUE
Off == [pc |-> "off", token |-> 0, secret |-> 0, call |-> NoRequest,
        batch |-> {}, report |-> 0]

Init ==
  /\ clock = 0
  /\ agents = [c \in Computers |-> NoAgent]
  /\ status = [c \in Computers |-> "DISCONNECTED"]
  /\ seated = [c \in Computers |-> FALSE]
  /\ commands = << >>
  /\ calls = [r \in Requests |-> NoCall(SomeComputer)]
  /\ installer = [c \in Computers |-> 0]
  /\ station = [c \in Computers |-> Off]
  /\ secrets = 0
  /\ done = << >>
  /\ reports = << >>
  /\ minted = 0 /\ starts = 0 /\ opened = 0 /\ losses = 0

Loss == losses < MaxLosses /\ losses' = losses + 1

-------------------------------------------------------------------------------
(* Tokens and registration.                                                *)

(* A new token replaces the old one and the secret; the manager downloads  *)
(* an installer that carries it.                                           *)
Provision(c) ==
  /\ minted < MaxTokens
  /\ minted' = minted + 1
  /\ agents' = [agents EXCEPT ![c] = [exists |-> TRUE, token |-> minted + 1,
                                      tokenExpires |-> clock + TokenTtl, secret |-> 0]]
  /\ installer' = [installer EXCEPT ![c] = minted + 1]
  /\ UNCHANGED <<clock, status, seated, commands, calls, station, secrets, done, reports,
                 starts, opened, losses>>

(* The service starts, or starts again, from its configuration file.       *)
Start(c) ==
  /\ starts < MaxStarts
  /\ starts' = starts + 1
  /\ station' = [station EXCEPT ![c] =
       [Off EXCEPT !.pc = IF installer[c] = 0 THEN "beat" ELSE "register",
                   !.token = installer[c]]]
  /\ UNCHANGED <<clock, server, installer, secrets, done, reports, minted, opened, losses>>

SendRegister(c, r) ==
  /\ station[c].pc = "register"
  /\ calls[r].pc = "idle"
  /\ station' = [station EXCEPT ![c].pc = "waiting", ![c].call = r]
  /\ calls' = [calls EXCEPT ![r] = [NoCall(c) EXCEPT !.pc = "find", !.token = station[c].token]]
  /\ UNCHANGED <<clock, agents, status, seated, commands, installer, secrets, done, reports, bounds>>

(* The answer is lost or does not come in time; the service tries again    *)
(* after its backoff.                                                      *)
GiveUp(c) ==
  /\ station[c].pc = "waiting"
  /\ Loss
  /\ station' = [station EXCEPT ![c].pc = "register", ![c].call = NoRequest]
  /\ UNCHANGED <<clock, server, installer, secrets, done, reports, minted, starts, opened>>

TokenValid(r) ==
  /\ agents[calls[r].computer].token = calls[r].token
  /\ agents[calls[r].computer].tokenExpires > clock

RegisterFind(r) ==
  /\ calls[r].pc = "find"
  /\ calls' = [calls EXCEPT ![r].pc = IF TokenValid(r) THEN "burn" ELSE "refused"]
  /\ UNCHANGED <<clock, agents, status, seated, commands, installer, station, secrets, done, reports,
                 bounds>>

Burned(row, secret) == [row EXCEPT !.token = 0, !.tokenExpires = 0, !.secret = secret]

RegisterBurn(r) ==
  LET c == calls[r].computer IN
  /\ calls[r].pc = "burn"
  /\ secrets' = secrets + 1
  /\ agents' = [agents EXCEPT ![c] = Burned(agents[c], secrets')]
  /\ calls' = [calls EXCEPT ![r].pc = "available", ![r].secret = secrets']
  /\ UNCHANGED <<clock, status, seated, commands, installer, station, done, reports, bounds>>

RegisterAvailable(r) ==
  /\ calls[r].pc = "available"
  /\ status' = [status EXCEPT ![calls[r].computer] = "AVAILABLE"]
  /\ calls' = [calls EXCEPT ![r].pc = "answered"]
  /\ UNCHANGED <<clock, agents, seated, commands, installer, station, secrets, done, reports, bounds>>

(* The answer reaches the service, if it still waits for this call.        *)
RegisterAnswer(r) ==
  LET c == calls[r].computer IN
  /\ calls[r].pc \in {"answered", "refused"}
  /\ calls' = [calls EXCEPT ![r] = NoCall(c)]
  /\ station' = IF station[c].call # r THEN station
                ELSE IF calls[r].pc = "refused"
                THEN [station EXCEPT ![c].pc = "register", ![c].call = NoRequest]
                ELSE [station EXCEPT ![c].pc = "beat", ![c].call = NoRequest,
                                     ![c].token = 0, ![c].secret = calls[r].secret]
  /\ UNCHANGED <<clock, agents, status, seated, commands, installer, secrets, done, reports, bounds>>

-------------------------------------------------------------------------------
(* Commands.                                                               *)

Busy(c) == status[c] = "IN_USE"

Expiry(sent) == sent + CommandTtl

(* A disruptive action on a busy computer is refused, unless it is forced  *)
(* or to be done when the session ends.                                    *)
SendCommand(c, disruptive, force, afterSessionEnd) ==
  /\ Len(commands) < MaxCommands
  /\ agents[c].exists
  /\ disruptive /\ Busy(c) => force \/ afterSessionEnd
  /\ commands' = Append(commands,
       [computer |-> c,
        condition |-> IF disruptive /\ Busy(c) /\ ~ force THEN "AFTER_SESSION_END" ELSE "NONE",
        expiresAt |-> Expiry(clock), status |-> "QUEUED"])
  /\ UNCHANGED <<clock, agents, status, seated, calls, installer, station, secrets, done, reports, bounds>>

(* What a heartbeat returns: the oldest queued commands of the computer,   *)
(* orderBy createdAt ascending, take 20.  The service works them off in    *)
(* that order.                                                             *)
Numbers == 1 .. Len(commands)
AnyStatus(c) == {i \in Numbers : commands[i].computer = c}
Queued(c) == {i \in Numbers : commands[i].computer = c /\ commands[i].status = "QUEUED"}

Newest(S) == {i \in S : Cardinality({j \in S : j > i}) < Take}
Oldest(S) == {i \in S : Cardinality({j \in S : j < i}) < Take}
First(S) == CHOOSE i \in S : \A j \in S : i <= j

Authentic(c) == station[c].secret # 0 /\ agents[c].secret = station[c].secret

(* A lost heartbeat, or one that is refused or returns nothing, changes    *)
(* nothing.                                                                *)
Heartbeat(c) ==
  /\ station[c].pc = "beat"
  /\ Authentic(c)
  /\ Queued(c) # {}
  /\ station' = [station EXCEPT ![c].pc = "run", ![c].batch = Oldest(Queued(c))]
  /\ UNCHANGED <<clock, server, installer, secrets, done, reports, bounds>>

Current(c) == First(station[c].batch)

(* The service tests the expiry date, runs the command and sends a report  *)
(* of the outcome with its secret.                                         *)
Expired(i) == commands[i].expiresAt < clock

Waits(i) == commands[i].condition = "AFTER_SESSION_END"

Execute(c) ==
  /\ station[c].pc = "run"
  /\ \E outcome \in IF Expired(Current(c)) THEN {"EXPIRED"} ELSE {"SUCCESS", "FAILED"} :
       done' = Append(done, [command |-> Current(c), outcome |-> outcome,
                             secret |-> station[c].secret, early |-> Waits(Current(c)) /\ seated[c]])
  /\ reports' = Append(reports, "sent")
  /\ station' = [station EXCEPT ![c].pc = "report", ![c].report = Len(done) + 1]
  /\ UNCHANGED <<clock, server, installer, secrets, bounds>>

(* commandResult: the agent is authenticated and the command found ...     *)
Known(n) ==
  LET c == commands[done[n].command].computer
  IN  done[n].secret # 0 /\ agents[c].secret = done[n].secret

FindReported(n) ==
  /\ reports[n] = "sent"
  /\ reports' = [reports EXCEPT ![n] = IF Known(n) THEN "found" ELSE "refused"]
  /\ UNCHANGED <<clock, server, installer, station, secrets, done, bounds>>

(* ... and whatever status was reported replaces the one in the row, which *)
(* is not looked at.                                                       *)
Reported(n) == [commands EXCEPT ![done[n].command].status = done[n].outcome]

StoreReported(n) ==
  /\ reports[n] = "found"
  /\ reports' = [reports EXCEPT ![n] = "stored"]
  /\ commands' = Reported(n)
  /\ UNCHANGED <<clock, agents, status, seated, calls, installer, station, secrets, done, bounds>>

(* The service goes on when the report is answered.                        *)
RestOfBatch(c) == station[c].batch \ {Current(c)}

ReportAnswered(c) ==
  /\ station[c].pc = "report"
  /\ reports[station[c].report] = "stored"
  /\ station' = [station EXCEPT ![c].pc = IF RestOfBatch(c) = {} THEN "beat" ELSE "run",
                                ![c].batch = RestOfBatch(c)]
  /\ UNCHANGED <<clock, server, installer, secrets, done, reports, bounds>>

(* An exception while reporting ends the loop over the batch: the server   *)
(* refuses the secret, or the call fails or takes too long.  What is then  *)
(* still on its way is served at any later time, or never.                 *)
Terminated(c) == [station EXCEPT ![c].pc = "off", ![c].batch = {}]
Abandoned(c) == [station EXCEPT ![c].pc = "beat", ![c].batch = {}]

ReportRefused(c) ==
  /\ station[c].pc = "report"
  /\ reports[station[c].report] = "refused"
  /\ station' = Abandoned(c)
  /\ UNCHANGED <<clock, server, installer, secrets, done, reports, bounds>>

ReportLost(c) ==
  /\ station[c].pc = "report"
  /\ Loss
  /\ station' = Abandoned(c)
  /\ UNCHANGED <<clock, server, installer, secrets, done, reports, minted, starts, opened>>

-------------------------------------------------------------------------------
(* Usage sessions, as far as they matter here, and the clock.              *)

OpenSession(c) ==
  /\ opened < MaxSessions
  /\ opened' = opened + 1
  /\ ~ seated[c]
  /\ seated' = [seated EXCEPT ![c] = TRUE]
  /\ status' = [status EXCEPT ![c] = "IN_USE"]
  /\ UNCHANGED <<clock, agents, commands, calls, installer, station, secrets, done, reports,
                 minted, starts, losses>>

CloseSession(c) ==
  /\ seated[c]
  /\ seated' = [seated EXCEPT ![c] = FALSE]
  /\ status' = [status EXCEPT ![c] = "AVAILABLE"]
  /\ UNCHANGED <<clock, agents, commands, calls, installer, station, secrets, done, reports, bounds>>

Tick ==
  /\ clock < MaxClock
  /\ clock' = clock + 1
  /\ UNCHANGED <<server, installer, station, secrets, done, reports, bounds>>

Manager(c) ==
  \/ Provision(c)
  \/ \E disruptive, force, after \in BOOLEAN : SendCommand(c, disruptive, force, after)

Registration(r) ==
  \/ \E c \in Computers : SendRegister(c, r)
  \/ RegisterFind(r) \/ RegisterBurn(r) \/ RegisterAvailable(r) \/ RegisterAnswer(r)

Service(c) ==
  \/ Start(c) \/ GiveUp(c)
  \/ Heartbeat(c) \/ Execute(c) \/ ReportAnswered(c) \/ ReportRefused(c) \/ ReportLost(c)

Server(n) == FindReported(n) \/ StoreReported(n)

Next ==
  \/ \E c \in Computers : Manager(c) \/ Service(c) \/ OpenSession(c) \/ CloseSession(c)
  \/ \E r \in Requests : Registration(r)
  \/ \E n \in DOMAIN done : Server(n)
  \/ Tick

Spec == Init /\ [][Next]_vars

(* The service's loop goes on: it sends its heartbeats, works off what it  *)
(* got and reports.  The server works on a report that is waited for; one  *)
(* that was given up may be served or not.                                 *)
ServesReportOf(c) == station[c].pc = "report" /\ Server(station[c].report)

FairSpec ==
  /\ Spec
  /\ \A c \in Computers :
       /\ WF_vars(Heartbeat(c)) /\ WF_vars(Execute(c)) /\ WF_vars(ServesReportOf(c))
       /\ WF_vars(ReportAnswered(c)) /\ WF_vars(ReportRefused(c))

-------------------------------------------------------------------------------
Outcomes == {"SUCCESS", "FAILED", "EXPIRED"}
Command == [computer : Computers, condition : {"NONE", "AFTER_SESSION_END"}, expiresAt : Nat,
            status : Outcomes \cup {"QUEUED"}]
AgentRow == [exists : BOOLEAN, token : Nat, tokenExpires : Nat, secret : Nat]
Call == [pc : {"idle", "find", "burn", "available", "answered", "refused"},
         computer : Computers, token : Nat, secret : Nat]
Station == [pc : {"off", "register", "waiting", "beat", "run", "report"}, token : Nat,
            secret : Nat, call : Requests \cup {NoRequest}, batch : SUBSET Nat, report : Nat]
Done == [command : Nat, outcome : Outcomes, secret : Nat, early : BOOLEAN]

(* Type invariant; what a service has fetched are rows, one at least while *)
(* it works them off, and the report it waits for is of one of them.       *)
TypeOK ==
  /\ agents \in [Computers -> AgentRow]
  /\ status \in [Computers -> {"AVAILABLE", "IN_USE", "DISCONNECTED"}]
  /\ seated \in [Computers -> BOOLEAN]
  /\ commands \in Seq(Command)
  /\ calls \in [Requests -> Call]
  /\ installer \in [Computers -> Nat]
  /\ station \in [Computers -> Station]
  /\ secrets \in Nat
  /\ done \in Seq(Done)
  /\ reports \in Seq({"sent", "found", "stored", "refused"}) /\ Len(reports) = Len(done)
  /\ clock \in Nat /\ minted \in Nat /\ starts \in Nat /\ opened \in Nat /\ losses \in Nat
  /\ \A c \in Computers : /\ station[c].batch \subseteq Numbers
                          /\ station[c].pc \in {"run", "report"} => station[c].batch # {}
                          /\ station[c].pc = "report" => station[c].report \in DOMAIN done

(* Commands reach a computer in the order in which they were sent, also    *)
(* when reports are lost and the service restarts in the middle of a batch.*)
FirstHandledInOrder ==
  \A n \in DOMAIN done, i \in Numbers :
    i < done[n].command /\ commands[i].computer = commands[done[n].command].computer =>
      \E m \in 1 .. n - 1 : done[m].command = i

(* A command shown as done was done, with that outcome: a late report may  *)
(* replace the outcome of a later execution, but no report is for another  *)
(* command or invents a result.                                            *)
StatusIsAnOutcome ==
  \A i \in Numbers :
    commands[i].status # "QUEUED" =>
      \E n \in DOMAIN done : done[n].command = i /\ done[n].outcome = commands[i].status

(* A command is executed again only because a report was lost or the       *)
(* service was restarted, and each such failure makes one command run      *)
(* again at most: what is stored, refused or still on its way and the rest *)
(* of a batch that was cut short are not repeated on that account.         *)
Repeats == Len(done) - Cardinality({done[n].command : n \in DOMAIN done})
RepeatedOnlyAfterFailure == done # << >> => Repeats <= losses + starts - 1

(* Every command to a computer whose service stays registered is answered  *)
(* in the end.                                                             *)
EveryCommandAnswered ==
  \A i \in 1 .. MaxCommands, c \in Computers :
    (i \in Numbers /\ i \in Queued(c)) ~> (i \notin Queued(c) \/ ~ Authentic(c))

(* "Actions that must never run immediately while a user is connected      *)
(* without force": no command that was to wait for the end of the session  *)
(* runs while a customer sits there.                                       *)
WaitsForSessionEnd ==
  \A n \in DOMAIN done : done[n].outcome # "EXPIRED" => ~ done[n].early
===============================================================================
