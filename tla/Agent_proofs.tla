---------------------------- MODULE Agent_proofs ----------------------------
(***************************************************************************)
(* Proofs about Agent, for every set of computers and all bounds: types,   *)
(* and what becomes of the commands however calls are lost, overtaken by   *)
(* others or served late and services restart.                             *)
(***************************************************************************)
EXTENDS Agent, FiniteSetTheorems, WellFoundedInduction, TLAPS

(* The first command of a batch exists.                                    *)
LEMMA FirstExists ==
  ASSUME NEW S \in SUBSET Nat, IsFiniteSet(S), S # {}
  PROVE  First(S) \in S /\ \A j \in S : First(S) <= j
<1> DEFINE Below(i) == {j \in S : j <= i}
           T == {Below(i) : i \in S}
           R == StrictSubsetOrdering(S)
<1>0. \A j \in S : j \in Nat
  OBVIOUS
<1>1. IsWellFoundedOn(R, FiniteSubsetsOf(S))
  BY FS_StrictSubsetOrderingWellFounded
<1>2. T \subseteq FiniteSubsetsOf(S) /\ T # {}
  <2>1. \A i \in S : Below(i) \in SUBSET S
    OBVIOUS
  <2>2. \A i \in S : Below(i) \in FiniteSubsetsOf(S)
    BY <2>1, FS_FiniteSubsetsOfFinite
  <2> QED
    BY <2>2
<1> HIDE DEF R, T
<1>3. PICK x \in T : \A y \in T : <<y, x>> \notin R
  BY <1>1, <1>2, WFMin
<1>4. PICK i \in S : x = Below(i)
  BY DEF T
<1>5. ASSUME NEW j \in S, j < i
      PROVE  FALSE
  <2>1. Below(j) \in T
    BY DEF T
  <2>2. (\A k \in S : k <= j => k <= i) /\ i <= i /\ ~ (i <= j)
    BY <1>0, <1>5
  <2>3. Below(j) \subseteq Below(i) /\ i \in Below(i) /\ i \notin Below(j)
    BY <2>2, Zenon
  <2>4. Below(j) \in SUBSET S /\ Below(i) \in SUBSET S
    BY Zenon
  <2> HIDE DEF Below
  <2>5. <<Below(j), x>> \in R
    BY <1>4, <2>3, <2>4 DEF R, StrictSubsetOrdering
  <2> QED
    BY <1>3, <2>1, <2>5
<1>6. \A j \in S : i <= j
  BY <1>0, <1>5
<1> QED
  BY <1>6 DEF First

LEMMA NumbersFinite ==
  ASSUME NEW seq, Len(seq) \in Nat, NEW S \in SUBSET (1 .. Len(seq))
  PROVE  S \in SUBSET Nat /\ IsFiniteSet(S)
<1>1. IsFiniteSet(1 .. Len(seq))
  BY FS_Interval
<1>2. IsFiniteSet(S)
  BY <1>1, FS_Subset
<1>3. 1 .. Len(seq) \subseteq Nat
  OBVIOUS
<1> QED
  BY <1>2, <1>3

(* A heartbeat returns something if something is queued, and leaves no     *)
(* older command behind.                                                   *)
LEMMA OldestOfSome ==
  ASSUME NEW S \in SUBSET Nat, IsFiniteSet(S)
  PROVE  /\ Oldest(S) \subseteq S
         /\ S # {} => Oldest(S) # {}
         /\ \A i \in S, j \in Oldest(S) : i < j => i \in Oldest(S)
<1> DEFINE Before(j) == {k \in S : k < j}
<1>0. \A k \in S : k \in Nat
  OBVIOUS
<1>1. \A j \in S : IsFiniteSet(Before(j)) /\ Cardinality(Before(j)) \in Nat
  <2> TAKE j \in S
  <2>1. Before(j) \in SUBSET S
    OBVIOUS
  <2> QED
    BY <2>1, FS_Subset, FS_CardinalityType
<1>2. ASSUME S # {} PROVE Oldest(S) # {}
  <2>1. First(S) \in S /\ \A j \in S : First(S) <= j
    BY <1>2, FirstExists
  <2> PICK i \in S : \A j \in S : i <= j
    BY <2>1
  <2>2. \A k \in S : ~ (k < i)
    BY <1>0
  <2>3. Before(i) = {}
    BY <2>2, Zenon
  <2>4. Cardinality(Before(i)) = 0
    BY <2>3, FS_EmptySet
  <2>5. Cardinality(Before(i)) < Take
    BY <2>4, NumbersAssumption
  <2>6. i \in Oldest(S)
    BY <2>5 DEF Oldest
  <2> QED
    BY <2>6
<1>3. ASSUME NEW i \in S, NEW j \in Oldest(S), i < j
      PROVE  i \in Oldest(S)
  <2>1. j \in S /\ Cardinality(Before(j)) < Take
    BY DEF Oldest
  <2>2. \A k \in S : k < i => k < j
    BY <1>0, <1>3, <2>1
  <2>3. Before(i) \in SUBSET Before(j)
    BY <2>2, Zenon
  <2>4. Cardinality(Before(i)) <= Cardinality(Before(j))
    BY <1>1, <2>1, <2>3, FS_Subset
  <2>5. Cardinality(Before(i)) < Take
    BY <1>1, <2>1, <2>4, NumbersAssumption
  <2> QED
    BY <2>5 DEF Oldest
<1> QED
  BY <1>2, <1>3 DEF Oldest

-------------------------------------------------------------------------------
(* Types.                                                                  *)
LEMMA TypesInit == Init => TypeOK
<1> SUFFICES ASSUME Init PROVE TypeOK
  OBVIOUS
<1>1. SomeComputer \in Computers
  BY SetsAssumption DEF SomeComputer
<1>2. NoAgent \in AgentRow /\ NoCall(SomeComputer) \in Call /\ Off \in Station
  BY <1>1 DEF NoAgent, AgentRow, NoCall, Call, Off, Station, Outcomes
<1>3. /\ << >> \in Seq(Command) /\ << >> \in Seq(Done)
      /\ << >> \in Seq({"sent", "found", "stored", "refused"})
  OBVIOUS
<1> QED
  BY <1>2, <1>3 DEF Init, TypeOK, Off

LEMMA BatchType ==
  ASSUME TypeOK, NEW c \in Computers, station[c].pc \in {"run", "report"}
  PROVE  /\ station[c].batch \in SUBSET Nat /\ IsFiniteSet(station[c].batch)
         /\ Current(c) \in station[c].batch /\ Current(c) \in Numbers
         /\ \A i \in station[c].batch : Current(c) <= i
<1>1. Len(commands) \in Nat
  BY DEF TypeOK
<1>2. station[c].batch \in SUBSET (1 .. Len(commands)) /\ station[c].batch # {}
  BY DEF TypeOK, Numbers
<1>3. station[c].batch \in SUBSET Nat /\ IsFiniteSet(station[c].batch)
  BY <1>1, <1>2, NumbersFinite
<1>4. First(station[c].batch) \in station[c].batch
      /\ \A i \in station[c].batch : First(station[c].batch) <= i
  BY <1>2, <1>3, FirstExists
<1> QED
  BY <1>2, <1>3, <1>4 DEF Current, Numbers

LEMMA QueuedType ==
  ASSUME TypeOK, NEW c \in Computers
  PROVE  /\ Queued(c) \in SUBSET Nat /\ IsFiniteSet(Queued(c)) /\ Queued(c) \subseteq Numbers
<1>1. Len(commands) \in Nat
  BY DEF TypeOK
<1>2. Queued(c) \in SUBSET (1 .. Len(commands))
  BY DEF Queued, Numbers
<1> QED
  BY <1>1, <1>2, NumbersFinite DEF Numbers

LEMMA ElementReplaced ==
  ASSUME NEW T, NEW seq \in Seq(T), NEW i, NEW x, i \in DOMAIN seq => x \in T
  PROVE  [seq EXCEPT ![i] = x] \in Seq(T) /\ Len([seq EXCEPT ![i] = x]) = Len(seq)
<1>1. CASE i \in DOMAIN seq
  BY <1>1
<1>2. CASE i \notin DOMAIN seq
  <2>1. [seq EXCEPT ![i] = x] = seq
    BY <1>2
  <2> QED
    BY <2>1
<1> QED
  BY <1>1, <1>2

(* Storing a result keeps the rows.                                        *)
LEMMA ReportType ==
  ASSUME TypeOK, NEW n \in DOMAIN done
  PROVE  Reported(n) \in Seq(Command) /\ Len(Reported(n)) = Len(commands)
<1> DEFINE k == done[n].command
           row == [commands[k] EXCEPT !.status = done[n].outcome]
<1>0. commands \in Seq(Command) /\ done \in Seq(Done)
  BY DEF TypeOK
<1>1. done[n] \in Done /\ (k \in DOMAIN commands => commands[k] \in Command)
  BY <1>0
<1>2. k \in DOMAIN commands => row \in Command
  BY <1>1 DEF Command, Done
<1>3. Reported(n) = [commands EXCEPT ![k] = row]
  BY DEF Reported
<1> HIDE DEF k, row
<1> QED
  BY <1>0, <1>2, <1>3, ElementReplaced

(* What a service holds is sound.                                          *)
Sound(row) == /\ row \in Station /\ row.batch \subseteq Numbers
              /\ row.pc \in {"run", "report"} => row.batch # {}
              /\ row.pc = "report" => row.report \in DOMAIN done
AllSound == station \in [Computers -> Station] /\ \A c \in Computers : Sound(station[c])

(* The rows and the histories, which only grow.                            *)
Rows == /\ commands \in Seq(Command) /\ done \in Seq(Done)
        /\ reports \in Seq({"sent", "found", "stored", "refused"}) /\ Len(reports) = Len(done)
Grows == Rows' /\ Len(commands) <= Len(commands)' /\ Len(done) <= Len(done)'
Front == /\ agents \in [Computers -> AgentRow]
         /\ status \in [Computers -> {"AVAILABLE", "IN_USE", "DISCONNECTED"}]
         /\ seated \in [Computers -> BOOLEAN]
         /\ calls \in [Requests -> Call]
         /\ installer \in [Computers -> Nat]
         /\ secrets \in Nat /\ clock \in Nat /\ minted \in Nat /\ starts \in Nat
         /\ opened \in Nat /\ losses \in Nat

LEMMA TypeParts == TypeOK <=> Front /\ Rows /\ AllSound
BY DEF TypeOK, Front, Rows, AllSound, Sound

LEMMA SoundStays ==
  ASSUME TypeOK, Grows, NEW row, Sound(row)
  PROVE  Sound(row)'
<1>1. Len(commands) \in Nat /\ Len(done) \in Nat /\ Len(commands)' \in Nat /\ Len(done)' \in Nat
  BY DEF Grows, Rows, TypeOK
<1>2. Numbers \subseteq Numbers'
  BY <1>1 DEF Grows, Numbers
<1>3. DOMAIN done \subseteq DOMAIN done'
  BY <1>1 DEF Grows, Rows, TypeOK
<1> QED
  BY <1>2, <1>3 DEF Sound

LEMMA AllSoundStay ==
  ASSUME TypeOK, Grows,
         \/ station' = station
         \/ \E c \in Computers : \E row : station' = [station EXCEPT ![c] = row] /\ Sound(row)'
  PROVE  AllSound'
<1>1. AllSound
  BY TypeParts
<1>2. CASE station' = station
  <2>1. ASSUME NEW c \in Computers
        PROVE  Sound(station[c])'
    <3>1. ASSUME NEW row, row = station[c]
          PROVE  Sound(row)'
      BY <1>1, <3>1, SoundStays DEF AllSound
    <3> QED
      BY <1>2, <3>1 DEF Sound
  <2> QED
    BY <1>1, <1>2, <2>1 DEF AllSound
<1>3. ASSUME NEW c \in Computers, NEW row, station' = [station EXCEPT ![c] = row], Sound(row)'
      PROVE  AllSound'
  <2>1. ASSUME NEW d \in Computers \ {c}
        PROVE  Sound(station[d])'
    <3>1. ASSUME NEW kept, kept = station[d]
          PROVE  Sound(kept)'
      BY <1>1, <3>1, SoundStays DEF AllSound
    <3> QED
      BY <1>1, <1>3, <3>1 DEF Sound, AllSound
  <2>2. station' \in [Computers -> Station] /\ station'[c] = row
    BY <1>1, <1>3 DEF AllSound, Sound
  <2> QED
    BY <1>3, <2>1, <2>2 DEF AllSound, Sound
<1> QED
  BY <1>2, <1>3

LEMMA RowsStay ==
  ASSUME TypeOK, commands' = commands, done' = done, reports' = reports
  PROVE  Grows
BY DEF TypeOK, Grows, Rows

LEMMA TypesStep ==
  ASSUME TypeOK, [Next]_vars
  PROVE  TypeOK'
<1>0. Front /\ Rows /\ AllSound
  BY TypeParts
<1>1. \A d \in Computers : station[d] \in Station /\ Sound(station[d])
  BY <1>0 DEF AllSound
<1>2. Front' /\ Grows /\ AllSound' => TypeOK'
  BY DEF Grows, Front, Rows, AllSound, Sound, TypeOK
<1>3. ASSUME NEW c \in Computers, Provision(c)
      PROVE  TypeOK'
  <2>1. [exists |-> TRUE, token |-> minted + 1, tokenExpires |-> clock + TokenTtl, secret |-> 0]
          \in AgentRow
    BY NumbersAssumption, SMTT(30) DEF TypeOK, AgentRow
  <2>2. Grows /\ station' = station
    BY <1>3, RowsStay DEF Provision
  <2>3. Front'
    BY <1>0, <1>3, <2>1 DEF Provision, Front
  <2> QED
    BY <1>2, <2>2, <2>3, AllSoundStay
<1>4. ASSUME NEW c \in Computers, Start(c)
      PROVE  TypeOK'
  <2> DEFINE row == [Off EXCEPT !.pc = IF installer[c] = 0 THEN "beat" ELSE "register",
                                !.token = installer[c]]
  <2>1. row \in Station /\ row.batch = {} /\ row.pc \notin {"run", "report"}
    BY <1>0 DEF Front, Off, Station
  <2>2. station' = [station EXCEPT ![c] = row]
    BY <1>4 DEF Start
  <2> HIDE DEF row
  <2>3. Grows
    BY <1>4, RowsStay DEF Start, server
  <2>4. Sound(row)
    BY <2>1 DEF Sound
  <2>5. Front'
    BY <1>0, <1>4 DEF Start, server, Front
  <2>6. AllSound'
    BY <2>2, <2>3, <2>4, AllSoundStay, SoundStays
  <2> QED
    BY <1>2, <2>3, <2>5, <2>6
<1>5. ASSUME NEW c \in Computers, NEW r \in Requests, SendRegister(c, r)
      PROVE  TypeOK'
  <2> DEFINE row == [station[c] EXCEPT !.pc = "waiting", !.call = r]
             call == [NoCall(c) EXCEPT !.pc = "find", !.token = station[c].token]
  <2>1. row \in Station /\ row.batch = station[c].batch /\ row.pc = "waiting"
    BY <1>1 DEF Station
  <2>2. station' = [station EXCEPT ![c] = row]
    BY <1>5, <1>0 DEF SendRegister, AllSound
  <2>3. call \in Call /\ calls' = [calls EXCEPT ![r] = call]
    BY <1>1, <1>5 DEF SendRegister, NoCall, Call, Station
  <2> HIDE DEF row, call
  <2>4. Sound(row)
    BY <1>1, <2>1 DEF Sound
  <2>5. Grows
    BY <1>5, RowsStay DEF SendRegister
  <2>6. Front'
    BY <1>0, <1>5, <2>3 DEF SendRegister, Front, bounds
  <2>7. AllSound'
    BY <2>2, <2>4, <2>5, AllSoundStay, SoundStays
  <2> QED
    BY <1>2, <2>5, <2>6, <2>7
<1>6. ASSUME NEW c \in Computers, GiveUp(c)
      PROVE  TypeOK'
  <2> DEFINE row == [station[c] EXCEPT !.pc = "register", !.call = NoRequest]
  <2>1. row \in Station /\ row.batch = station[c].batch /\ row.pc = "register"
    BY <1>1 DEF Station
  <2>2. station' = [station EXCEPT ![c] = row]
    BY <1>0, <1>6 DEF GiveUp, AllSound
  <2> HIDE DEF row
  <2>3. Sound(row)
    BY <1>1, <2>1 DEF Sound
  <2>4. Grows
    BY <1>6, RowsStay DEF GiveUp, server
  <2>5. Front'
    BY <1>0, <1>6 DEF GiveUp, Loss, server, Front
  <2>6. AllSound'
    BY <2>2, <2>3, <2>4, AllSoundStay, SoundStays
  <2> QED
    BY <1>2, <2>4, <2>5, <2>6
<1>7. ASSUME NEW r \in Requests, RegisterFind(r) \/ RegisterAvailable(r)
      PROVE  TypeOK'
  <2>0. /\ \A pc \in {"burn", "refused", "answered"} : [calls[r] EXCEPT !.pc = pc] \in Call
        /\ calls[r].computer \in Computers
    BY <1>0 DEF Front, Call
  <2>1. calls' \in [Requests -> Call]
    <3>1. CASE RegisterFind(r)
      BY <1>0, <2>0, <3>1 DEF RegisterFind, Front
    <3>2. CASE RegisterAvailable(r)
      BY <1>0, <2>0, <3>2 DEF RegisterAvailable, Front
    <3> QED
      BY <1>7, <3>1, <3>2
  <2>2. status' \in [Computers -> {"AVAILABLE", "IN_USE", "DISCONNECTED"}]
    BY <1>0, <1>7 DEF RegisterFind, RegisterAvailable, Front
  <2>3. Grows /\ station' = station
    BY <1>7, RowsStay DEF RegisterFind, RegisterAvailable
  <2>4. Front'
    BY <1>0, <1>7, <2>1, <2>2 DEF RegisterFind, RegisterAvailable, Front, bounds
  <2> QED
    BY <1>2, <2>3, <2>4, AllSoundStay
<1>8. ASSUME NEW r \in Requests, RegisterBurn(r)
      PROVE  TypeOK'
  <2> DEFINE c == calls[r].computer
             secret == secrets + 1
  <2>1. c \in Computers /\ secret \in Nat /\ calls[r] \in Call
    BY <1>0 DEF Front, Call
  <2>2. secrets' = secret /\ calls' = [calls EXCEPT ![r].pc = "available", ![r].secret = secret]
        /\ agents' = [agents EXCEPT ![c] = Burned(agents[c], secret)]
    BY <1>8 DEF RegisterBurn
  <2>3. Burned(agents[c], secret) \in AgentRow
    BY <1>0, <2>1 DEF Front, Burned, AgentRow
  <2> HIDE DEF c, secret
  <2>4. [calls[r] EXCEPT !.pc = "available", !.secret = secret] \in Call
    BY <2>1 DEF Call
  <2>5. calls' = [calls EXCEPT ![r] = [calls[r] EXCEPT !.pc = "available", !.secret = secret]]
    BY <1>0, <2>2 DEF Front
  <2>6. calls' \in [Requests -> Call] /\ agents' \in [Computers -> AgentRow] /\ secrets' \in Nat
    BY <1>0, <2>1, <2>2, <2>3, <2>4, <2>5 DEF Front
  <2>7. Grows /\ station' = station
    BY <1>8, RowsStay DEF RegisterBurn
  <2>8. Front'
    BY <1>0, <1>8, <2>6 DEF RegisterBurn, Front, bounds
  <2> QED
    BY <1>2, <2>7, <2>8, AllSoundStay
<1>9. ASSUME NEW r \in Requests, RegisterAnswer(r)
      PROVE  TypeOK'
  <2> DEFINE c == calls[r].computer
             refused == [station[c] EXCEPT !.pc = "register", !.call = NoRequest]
             accepted == [station[c] EXCEPT !.pc = "beat", !.call = NoRequest, !.token = 0,
                                            !.secret = calls[r].secret]
  <2>1. c \in Computers /\ calls[r].secret \in Nat
    BY <1>0 DEF Front, Call
  <2>2. NoCall(c) \in Call
    BY <2>1 DEF NoCall, Call
  <2>3. calls' \in [Requests -> Call]
    BY <1>0, <1>9, <2>2 DEF RegisterAnswer, Front
  <2>4. /\ refused \in Station /\ refused.batch = station[c].batch /\ refused.pc = "register"
        /\ accepted \in Station /\ accepted.batch = station[c].batch /\ accepted.pc = "beat"
    BY <1>1, <2>1 DEF Station
  <2>5. \/ station' = station
        \/ station' = [station EXCEPT ![c] = refused]
        \/ station' = [station EXCEPT ![c] = accepted]
    BY <1>0, <1>9, <2>1 DEF RegisterAnswer, AllSound
  <2> HIDE DEF c, refused, accepted
  <2>6. Sound(refused) /\ Sound(accepted)
    BY <1>1, <2>1, <2>4 DEF Sound
  <2>7. Grows
    BY <1>9, RowsStay DEF RegisterAnswer
  <2>8. AllSound'
    BY <2>1, <2>5, <2>6, <2>7, AllSoundStay, SoundStays
  <2>9. Front'
    BY <1>0, <1>9, <2>3 DEF RegisterAnswer, Front, bounds
  <2> QED
    BY <1>2, <2>7, <2>8, <2>9
<1>10. ASSUME NEW c \in Computers, NEW disruptive \in BOOLEAN, NEW force \in BOOLEAN,
              NEW after \in BOOLEAN, SendCommand(c, disruptive, force, after)
      PROVE  TypeOK'
  <2> DEFINE new == [computer |-> c,
                     condition |-> IF disruptive /\ Busy(c) /\ ~ force
                                   THEN "AFTER_SESSION_END" ELSE "NONE",
                     expiresAt |-> Expiry(clock), status |-> "QUEUED"]
  <2>1. Expiry(clock) \in Nat
    BY <1>0, NumbersAssumption DEF Front, Expiry
  <2>2. new \in Command
    BY <2>1 DEF Command
  <2>3. commands' = Append(commands, new) /\ done' = done /\ reports' = reports
        /\ station' = station
    BY <1>10 DEF SendCommand
  <2> HIDE DEF new
  <2>4. Grows
    BY <1>0, <2>2, <2>3 DEF Grows, Rows
  <2>5. Front'
    BY <1>0, <1>10 DEF SendCommand, Front, bounds
  <2> QED
    BY <1>2, <2>3, <2>4, <2>5, AllSoundStay
<1>11. ASSUME NEW c \in Computers, Heartbeat(c)
      PROVE  TypeOK'
  <2> DEFINE row == [station[c] EXCEPT !.pc = "run", !.batch = Oldest(Queued(c))]
  <2>1. Oldest(Queued(c)) \subseteq Numbers /\ Oldest(Queued(c)) # {}
        /\ Oldest(Queued(c)) \in SUBSET Nat
    BY <1>11, QueuedType, OldestOfSome DEF Heartbeat
  <2>2. row \in Station /\ row.batch = Oldest(Queued(c)) /\ row.pc = "run"
    BY <1>1, <2>1 DEF Station
  <2>3. station' = [station EXCEPT ![c] = row]
    BY <1>0, <1>11 DEF Heartbeat, AllSound
  <2> HIDE DEF row
  <2>4. Sound(row)
    BY <2>1, <2>2 DEF Sound
  <2>5. Grows
    BY <1>11, RowsStay DEF Heartbeat, server
  <2>6. Front'
    BY <1>0, <1>11 DEF Heartbeat, server, bounds, Front
  <2>7. AllSound'
    BY <2>3, <2>4, <2>5, AllSoundStay, SoundStays
  <2> QED
    BY <1>2, <2>5, <2>6, <2>7
<1>12. ASSUME NEW c \in Computers, Execute(c)
      PROVE  TypeOK'
  <2> DEFINE last == Len(done) + 1
             row == [station[c] EXCEPT !.pc = "report", !.report = last]
  <2> PICK new \in Done : done' = Append(done, new)
    <3> PICK outcome \in Outcomes :
          done' = Append(done, [command |-> Current(c), outcome |-> outcome,
                                secret |-> station[c].secret,
                                early |-> Waits(Current(c)) /\ seated[c]])
      BY <1>12, Zenon DEF Execute, Outcomes
    <3> DEFINE entry == [command |-> Current(c), outcome |-> outcome,
                         secret |-> station[c].secret,
                         early |-> Waits(Current(c)) /\ seated[c]]
    <3>1. Current(c) \in Nat
      BY <1>12, BatchType DEF Execute
    <3>2. station[c].secret \in Nat
      BY <1>1 DEF Station
    <3>3. (Waits(Current(c)) /\ seated[c]) \in BOOLEAN
      BY DEF Waits
    <3>4. entry \in Done
      BY <3>1, <3>2, <3>3, Zenon DEF Done
    <3> QED
      BY <3>4
  <2>1. last \in Nat
    BY <1>0 DEF Rows
  <2>3. station' = [station EXCEPT ![c] = row]
    BY <1>0, <1>12 DEF Execute, AllSound
  <2> HIDE DEF last
  <2>2. row \in Station /\ row.batch = station[c].batch /\ row.pc = "report" /\ row.report = last
    BY <1>1, <2>1 DEF Station
  <2> HIDE DEF row
  <2>4. commands' = commands /\ reports' = Append(reports, "sent")
    BY <1>12 DEF Execute, server
  <2>5. Grows /\ last \in DOMAIN done'
    BY <1>0, <2>4 DEF Grows, Rows, last
  <2>6. ASSUME NEW held, held = row
        PROVE  Sound(held)'
    <3>1. station[c].batch \subseteq Numbers /\ station[c].batch # {}
      BY <1>1, <1>12 DEF Sound, Execute
    <3>2. Numbers' = Numbers
      BY <2>4 DEF Numbers
    <3> QED
      BY <2>2, <2>5, <2>6, <3>1, <3>2 DEF Sound
  <2>7. Front'
    BY <1>0, <1>12 DEF Execute, server, bounds, Front
  <2>8. AllSound'
    BY <2>3, <2>5, <2>6, AllSoundStay
  <2> QED
    BY <1>2, <2>5, <2>7, <2>8
<1>13. ASSUME NEW n \in DOMAIN done, Server(n)
      PROVE  TypeOK'
  <2>1. Rows' /\ Len(commands)' = Len(commands) /\ done' = done /\ station' = station
    <3>1. CASE FindReported(n)
      BY <1>0, <3>1 DEF FindReported, Rows, server
    <3>2. CASE StoreReported(n)
      <4>1. commands' \in Seq(Command) /\ Len(commands)' = Len(commands)
        BY <3>2, ReportType DEF StoreReported
      <4> QED
        BY <1>0, <3>2, <4>1 DEF StoreReported, Rows
    <3> QED
      BY <1>13, <3>1, <3>2 DEF Server
  <2>2. Grows
    BY <1>0, <2>1 DEF Grows, Rows
  <2>3. Front'
    BY <1>0, <1>13 DEF Server, FindReported, StoreReported, server, bounds, Front
  <2> QED
    BY <1>2, <2>1, <2>2, <2>3, AllSoundStay
<1>14. ASSUME NEW c \in Computers, ReportAnswered(c)
      PROVE  TypeOK'
  <2> DEFINE rest == RestOfBatch(c)
             row == [station[c] EXCEPT !.pc = IF rest = {} THEN "beat" ELSE "run",
                                       !.batch = rest]
  <2>1. rest \subseteq station[c].batch
    BY DEF RestOfBatch
  <2>2. row \in Station /\ row.batch = rest /\ row.pc = IF rest = {} THEN "beat" ELSE "run"
    BY <1>1, <2>1 DEF Station
  <2>3. station' = [station EXCEPT ![c] = row]
    BY <1>0, <1>14 DEF ReportAnswered, AllSound
  <2> HIDE DEF row
  <2>4. Sound(row)
    BY <1>1, <2>1, <2>2 DEF Sound
  <2>5. Grows
    BY <1>14, RowsStay DEF ReportAnswered, server
  <2>6. Front'
    BY <1>0, <1>14 DEF ReportAnswered, server, bounds, Front
  <2>7. AllSound'
    BY <2>3, <2>4, <2>5, AllSoundStay, SoundStays
  <2> QED
    BY <1>2, <2>5, <2>6, <2>7
<1>15. ASSUME NEW c \in Computers, ReportRefused(c) \/ ReportLost(c)
      PROVE  TypeOK'
  <2> DEFINE row == [station[c] EXCEPT !.pc = "beat", !.batch = {}]
  <2>1. row \in Station /\ row.batch = {} /\ row.pc = "beat"
    BY <1>1 DEF Station
  <2>2. station' = [station EXCEPT ![c] = row]
    BY <1>0, <1>15 DEF ReportRefused, ReportLost, Abandoned, AllSound
  <2> HIDE DEF row
  <2>3. Sound(row)
    BY <2>1 DEF Sound
  <2>4. Grows
    BY <1>15, RowsStay DEF ReportRefused, ReportLost, server
  <2>5. Front'
    BY <1>0, <1>15 DEF ReportRefused, ReportLost, Loss, server, bounds, Front
  <2>6. AllSound'
    BY <2>2, <2>3, <2>4, AllSoundStay, SoundStays
  <2> QED
    BY <1>2, <2>4, <2>5, <2>6
<1>16. ASSUME NEW c \in Computers, OpenSession(c) \/ CloseSession(c)
      PROVE  TypeOK'
  <2>1. Grows /\ station' = station
    BY <1>16, RowsStay DEF OpenSession, CloseSession
  <2>2. /\ status' \in [Computers -> {"AVAILABLE", "IN_USE", "DISCONNECTED"}]
        /\ seated' \in [Computers -> BOOLEAN]
    BY <1>0, <1>16 DEF OpenSession, CloseSession, Front
  <2>3. opened' \in Nat
    BY <1>0, <1>16 DEF OpenSession, CloseSession, Front, bounds
  <2>4. Front'
    BY <1>0, <1>16, <2>2, <2>3 DEF OpenSession, CloseSession, bounds, Front
  <2> QED
    BY <1>2, <2>1, <2>4, AllSoundStay
<1>17. CASE Tick \/ UNCHANGED vars
  <2>1. Grows /\ station' = station
    BY <1>17, RowsStay DEF Tick, vars, server
  <2>2. Front'
    BY <1>0, <1>17, SMTT(30) DEF Tick, vars, server, bounds, Front
  <2> QED
    BY <1>2, <2>1, <2>2, AllSoundStay
<1> QED
  BY <1>3, <1>4, <1>5, <1>6, <1>7, <1>8, <1>9, <1>10, <1>11, <1>12, <1>13, <1>14, <1>15, <1>16,
     <1>17 DEF Next, Manager, Service, Registration

(* Whatever is lost, refused or restarted, the rows stay well-typed, and a *)
(* service that works on a batch has something left of it and waits for    *)
(* the report of something it did.                                         *)
THEOREM AgentTyped == Spec => []TypeOK
BY TypesInit, TypesStep, PTL DEF Spec

-------------------------------------------------------------------------------
(* Commands.  A step is one of these, as far as commands go.               *)
OthersKeep(c) == \A d \in Computers \ {c} : station'[d] = station[d]

Quiet ==
  /\ commands' = commands /\ done' = done
  /\ \A c \in Computers :
       /\ station'[c].batch \in {station[c].batch, {}}
       /\ station'[c].pc = "report" => station'[c] = station[c]

Sends == \E new \in Command :
  /\ commands' = Append(commands, new) /\ new.status = "QUEUED"
  /\ done' = done /\ station' = station

Fetches(c) ==
  /\ commands' = commands /\ done' = done
  /\ OthersKeep(c) /\ station'[c].batch = Oldest(Queued(c)) /\ station'[c].pc = "run"

Executes(c) ==
  /\ station[c].pc = "run" /\ commands' = commands
  /\ OthersKeep(c) /\ station'[c].batch = station[c].batch
  /\ \E new \in Done : done' = Append(done, new) /\ new.command = Current(c)

Answers(c) ==
  /\ station[c].pc = "report" /\ commands' = commands /\ done' = done
  /\ OthersKeep(c) /\ station'[c].batch = RestOfBatch(c) /\ station'[c].pc # "report"

Stores(n) == commands' = Reported(n) /\ done' = done /\ station' = station

CommandStep ==
  \/ Quiet \/ Sends
  \/ \E c \in Computers : Fetches(c) \/ Executes(c) \/ Answers(c)
  \/ \E n \in DOMAIN done : Stores(n)

LEMMA CommandSteps ==
  ASSUME TypeOK, [Next]_vars
  PROVE  CommandStep
<1>1. calls \in [Requests -> Call] /\ station \in [Computers -> Station]
  BY DEF TypeOK
<1>2. ASSUME NEW c \in Computers, Start(c) \/ GiveUp(c) \/ ReportRefused(c) \/ ReportLost(c)
      PROVE  Quiet
  <2>1. commands' = commands /\ done' = done
    BY <1>2 DEF Start, GiveUp, ReportRefused, ReportLost, server
  <2>2. OthersKeep(c) /\ station'[c].batch \in {station[c].batch, {}} /\ station'[c].pc # "report"
    BY <1>1, <1>2 DEF Start, GiveUp, ReportRefused, ReportLost, Off, Abandoned, Station,
       OthersKeep
  <2> QED
    BY <2>1, <2>2 DEF Quiet, OthersKeep
<1>3. ASSUME NEW r \in Requests, NEW c \in Computers, SendRegister(c, r) \/ RegisterAnswer(r)
      PROVE  Quiet
  <2>1. commands' = commands /\ done' = done
    BY <1>3 DEF SendRegister, RegisterAnswer
  <2>2. calls[r].computer \in Computers
    BY <1>1 DEF Call
  <2>3. \A d \in Computers :
          \/ station'[d] = station[d]
          \/ station'[d].batch = station[d].batch /\ station'[d].pc # "report"
    BY <1>1, <1>3, <2>2 DEF SendRegister, RegisterAnswer, Station
  <2> QED
    BY <2>1, <2>3 DEF Quiet
<1>4. ASSUME \/ \E r \in Requests : RegisterFind(r) \/ RegisterBurn(r) \/ RegisterAvailable(r)
             \/ \E c \in Computers : Provision(c) \/ OpenSession(c) \/ CloseSession(c)
             \/ \E n \in DOMAIN done : FindReported(n)
             \/ Tick \/ UNCHANGED vars
      PROVE  Quiet
  <2>1. commands' = commands /\ done' = done /\ station' = station
    BY <1>4 DEF RegisterFind, RegisterBurn, RegisterAvailable, Provision, OpenSession,
       CloseSession, FindReported, Tick, vars, server, bounds
  <2> QED
    BY <2>1 DEF Quiet
<1>5. ASSUME NEW c \in Computers, NEW disruptive \in BOOLEAN, NEW force \in BOOLEAN,
             NEW after \in BOOLEAN, SendCommand(c, disruptive, force, after)
      PROVE  Sends
  <2> DEFINE new == [computer |-> c,
                     condition |-> IF disruptive /\ Busy(c) /\ ~ force
                                   THEN "AFTER_SESSION_END" ELSE "NONE",
                     expiresAt |-> Expiry(clock), status |-> "QUEUED"]
  <2>1. Expiry(clock) \in Nat
    BY NumbersAssumption DEF TypeOK, Expiry
  <2>2. new \in Command /\ new.status = "QUEUED"
    BY <2>1 DEF Command
  <2>3. commands' = Append(commands, new) /\ done' = done /\ station' = station
    BY <1>5 DEF SendCommand
  <2> HIDE DEF new
  <2> QED
    BY <2>2, <2>3 DEF Sends
<1>6. ASSUME NEW c \in Computers, Heartbeat(c)
      PROVE  Fetches(c)
  BY <1>1, <1>6 DEF Heartbeat, Fetches, OthersKeep, Station, server
<1>7. ASSUME NEW c \in Computers, Execute(c)
      PROVE  Executes(c)
  <2>1. PICK new : done' = Append(done, new) /\ new.command = Current(c)
    BY <1>7 DEF Execute
  <2>2. station[c].pc = "run" /\ commands' = commands
        /\ OthersKeep(c) /\ station'[c].batch = station[c].batch
    BY <1>1, <1>7 DEF Execute, Station, OthersKeep, server
  <2>3. Len(done) \in Nat /\ done \in Seq(Done) /\ done' \in Seq(Done)
    BY <1>7, TypesStep DEF TypeOK
  <2>4. new = done'[Len(done) + 1] /\ Len(done) + 1 \in DOMAIN done'
    BY <2>1, <2>3
  <2>5. new \in Done
    BY <2>3, <2>4
  <2> QED
    BY <2>1, <2>2, <2>5 DEF Executes
<1>8. ASSUME NEW c \in Computers, ReportAnswered(c)
      PROVE  Answers(c)
  BY <1>1, <1>8 DEF ReportAnswered, Answers, OthersKeep, Station, server
<1>9. ASSUME NEW n \in DOMAIN done, StoreReported(n)
      PROVE  Stores(n)
  BY <1>9 DEF StoreReported, Stores
<1>10. ASSUME NEW c \in Computers,
              Manager(c) \/ Service(c) \/ OpenSession(c) \/ CloseSession(c)
       PROVE  CommandStep
  <2>1. CASE Manager(c) \/ OpenSession(c) \/ CloseSession(c)
    BY <1>4, <1>5, <2>1 DEF Manager, CommandStep
  <2>2. CASE Service(c)
    BY <1>2, <1>6, <1>7, <1>8, <2>2 DEF Service, CommandStep
  <2> QED
    BY <1>10, <2>1, <2>2
<1>11. ASSUME NEW r \in Requests, Registration(r)
       PROVE  Quiet
  <2>1. CASE RegisterAnswer(r)
    BY <1>3, <2>1, SetsAssumption
  <2> QED
    BY <1>3, <1>4, <1>11, <2>1 DEF Registration
<1> QED
  BY <1>4, <1>9, <1>10, <1>11 DEF CommandStep, Next, Server

(* Why commands are handled in order: what a service works on is of its    *)
(* computer, and with a command it holds every older one that it has not   *)
(* handled before; what it waits to be answered, and what the server shows *)
(* as done, was handled.  A report that is served long after the service   *)
(* gave it up disturbs none of it: its command was handled too.            *)
Handled(i) == \E n \in DOMAIN done : done[n].command = i
BatchOwn == \A c \in Computers : \A i \in station[c].batch : commands[i].computer = c
BatchOldest ==
  \A c \in Computers : \A j \in station[c].batch, i \in Numbers :
    i < j /\ commands[i].computer = c => i \in station[c].batch \/ Handled(i)
ReportsHandled == \A c \in Computers : station[c].pc = "report" => Handled(Current(c))
DoneKnown == \A n \in DOMAIN done : done[n].command \in Numbers

CommandInv ==
  /\ BatchOwn /\ BatchOldest /\ ReportsHandled /\ DoneKnown
  /\ StatusIsAnOutcome /\ FirstHandledInOrder

LEMMA CommandInit == Init => CommandInv
BY DEF Init, CommandInv, BatchOwn, BatchOldest, ReportsHandled, DoneKnown, StatusIsAnOutcome,
       FirstHandledInOrder, Off, Numbers

LEMMA QuietKeeps ==
  ASSUME TypeOK, CommandInv, Quiet
  PROVE  CommandInv'
<1>1. Numbers' = Numbers /\ \A i : Handled(i)' <=> Handled(i)
  BY DEF Quiet, Numbers, Handled
<1>2. BatchOwn' /\ BatchOldest'
  BY <1>1 DEF Quiet, CommandInv, BatchOwn, BatchOldest
<1>3. DoneKnown' /\ StatusIsAnOutcome' /\ FirstHandledInOrder'
  BY <1>1 DEF Quiet, CommandInv, DoneKnown, StatusIsAnOutcome, FirstHandledInOrder
<1>4. ReportsHandled'
  BY DEF Quiet, CommandInv, ReportsHandled, Handled, Current
<1> QED
  BY <1>2, <1>3, <1>4 DEF CommandInv

LEMMA SendsKeeps ==
  ASSUME TypeOK, CommandInv, Sends
  PROVE  CommandInv'
<1> PICK new \in Command :
      commands' = Append(commands, new) /\ new.status = "QUEUED" /\ done' = done
      /\ station' = station
  BY DEF Sends
<1>1. /\ Len(commands) \in Nat /\ Len(commands)' = Len(commands) + 1
      /\ \A i \in Numbers : commands'[i] = commands[i] /\ i <= Len(commands)
      /\ commands'[Len(commands) + 1].status = "QUEUED"
  BY DEF TypeOK, Numbers
<1>2. /\ Numbers \subseteq Numbers'
      /\ \A i \in Numbers' : i \in Numbers \/ i = Len(commands) + 1
      /\ \A i \in Numbers', j \in Numbers : i < j => i \in Numbers
  BY <1>1 DEF Numbers
<1>3. \A c \in Computers : station[c].batch \subseteq Numbers
  BY DEF TypeOK
<1>4. BatchOwn'
  BY <1>1, <1>3, ZenonT(60) DEF CommandInv, BatchOwn
<1>5. BatchOldest'
  <2>1. ASSUME NEW c \in Computers, NEW j \in station[c].batch, NEW i \in Numbers', i < j,
               commands'[i].computer = c
        PROVE  i \in station[c].batch \/ Handled(i)
    <3>1. j \in Numbers /\ i \in Numbers
      BY <1>2, <1>3, <2>1
    <3> QED
      BY <1>1, <2>1, <3>1 DEF CommandInv, BatchOldest
  <2> QED
    BY <2>1 DEF BatchOldest, Handled
<1>6. DoneKnown' /\ ReportsHandled'
  BY <1>2 DEF CommandInv, DoneKnown, ReportsHandled, Handled, Current
<1>7. StatusIsAnOutcome'
  BY <1>1, <1>2 DEF CommandInv, StatusIsAnOutcome
<1>8. FirstHandledInOrder'
  <2>1. ASSUME NEW n \in DOMAIN done, NEW i \in Numbers', i < done[n].command,
               commands'[i].computer = commands'[done[n].command].computer
        PROVE  \E m \in 1 .. n - 1 : done[m].command = i
    <3>1. done[n].command \in Numbers
      BY DEF CommandInv, DoneKnown
    <3>2. i \in Numbers
      BY <1>2, <2>1, <3>1
    <3> QED
      BY <1>1, <2>1, <3>1, <3>2 DEF CommandInv, FirstHandledInOrder
  <2> QED
    BY <2>1 DEF FirstHandledInOrder
<1> QED
  BY <1>4, <1>5, <1>6, <1>7, <1>8 DEF CommandInv

LEMMA FetchesKeeps ==
  ASSUME TypeOK, CommandInv, NEW c \in Computers, Fetches(c)
  PROVE  CommandInv'
<1>1. Numbers' = Numbers /\ \A i : Handled(i)' <=> Handled(i)
  BY DEF Fetches, Numbers, Handled
<1>2. /\ Oldest(Queued(c)) \subseteq Queued(c)
      /\ \A i \in Queued(c), j \in Oldest(Queued(c)) : i < j => i \in Oldest(Queued(c))
  BY QueuedType, OldestOfSome
<1>3. BatchOwn'
  BY <1>1, <1>2 DEF Fetches, OthersKeep, CommandInv, BatchOwn, Queued
<1>4. BatchOldest'
  <2>1. ASSUME NEW d \in Computers, NEW j \in station'[d].batch, NEW i \in Numbers, i < j,
               commands[i].computer = d
        PROVE  i \in station'[d].batch \/ Handled(i)
    <3>1. CASE d # c
      BY <2>1, <3>1 DEF Fetches, OthersKeep, CommandInv, BatchOldest
    <3>2. CASE d = c /\ commands[i].status = "QUEUED"
      BY <1>2, <2>1, <3>2 DEF Fetches, Queued
    <3>3. CASE d = c /\ commands[i].status # "QUEUED"
      BY <2>1, <3>3 DEF CommandInv, StatusIsAnOutcome, Handled
    <3> QED
      BY <3>1, <3>2, <3>3
  <2> QED
    BY <1>1, <2>1 DEF BatchOldest, Fetches
<1>5. DoneKnown' /\ StatusIsAnOutcome' /\ FirstHandledInOrder'
  BY <1>1 DEF Fetches, CommandInv, DoneKnown, StatusIsAnOutcome, FirstHandledInOrder
<1>6. ReportsHandled'
  BY DEF Fetches, OthersKeep, CommandInv, ReportsHandled, Handled, Current
<1> QED
  BY <1>3, <1>4, <1>5, <1>6 DEF CommandInv

LEMMA ExecutesKeeps ==
  ASSUME TypeOK, CommandInv, NEW c \in Computers, Executes(c)
  PROVE  CommandInv'
<1> DEFINE k == Current(c)
           last == Len(done) + 1
<1>1. Numbers' = Numbers /\ commands' = commands
  BY DEF Executes, Numbers
<1>2. /\ station[c].batch \in SUBSET Nat /\ k \in station[c].batch /\ k \in Numbers
      /\ \A i \in station[c].batch : k <= i
  BY BatchType DEF Executes
<1>3. commands[k].computer = c
  BY <1>2 DEF CommandInv, BatchOwn
<1>4. /\ Len(done) \in Nat /\ DOMAIN done = 1 .. Len(done) /\ DOMAIN done' = 1 .. last
      /\ done'[last].command = k
      /\ \A n \in DOMAIN done : done'[n] = done[n] /\ n < last
  BY DEF TypeOK, Executes
<1>12. ReportsHandled'
  <2>1. Handled(Current(c))'
    BY <1>4 DEF Handled, Executes, Current
  <2>2. ASSUME NEW d \in Computers \ {c}, station'[d].pc = "report"
        PROVE  Handled(Current(d))'
    <3>1. Handled(Current(d)) /\ Current(d)' = Current(d)
      BY <2>2 DEF Executes, OthersKeep, CommandInv, ReportsHandled, Current
    <3> QED
      BY <1>4, <3>1 DEF Handled
  <2> QED
    BY <2>1, <2>2 DEF ReportsHandled
<1> HIDE DEF k, last
<1>5. \A n \in DOMAIN done' : n \in DOMAIN done \/ n = last
  BY <1>4 DEF last
<1>6. DOMAIN done \subseteq DOMAIN done'
  BY <1>4 DEF last
<1>7. \A i : Handled(i) => Handled(i)'
  BY <1>4, <1>6, Zenon DEF Handled
<1>8. BatchOwn' /\ BatchOldest'
  BY <1>1, <1>7 DEF Executes, OthersKeep, CommandInv, BatchOwn, BatchOldest
<1>9. DoneKnown'
  BY <1>1, <1>2, <1>4, <1>5 DEF CommandInv, DoneKnown
<1>10. StatusIsAnOutcome'
  <2>1. ASSUME NEW i \in Numbers, commands[i].status # "QUEUED"
        PROVE  \E n \in DOMAIN done' :
                 done'[n].command = i /\ done'[n].outcome = commands[i].status
    <3>1. PICK n \in DOMAIN done : done[n].command = i /\ done[n].outcome = commands[i].status
      BY <2>1 DEF CommandInv, StatusIsAnOutcome
    <3> QED
      BY <1>4, <1>6, <3>1
  <2> QED
    BY <1>1, <2>1 DEF StatusIsAnOutcome
<1>11. FirstHandledInOrder'
  <2>1. ASSUME NEW i \in Numbers, i < k, commands[i].computer = commands[k].computer
        PROVE  \E m \in 1 .. last - 1 : done'[m].command = i
    <3>1. i \notin station[c].batch
      BY <1>2, <2>1 DEF Numbers
    <3>2. Handled(i)
      BY <1>2, <1>3, <2>1, <3>1 DEF CommandInv, BatchOldest
    <3> QED
      BY <1>4, <3>2 DEF last, Handled
  <2>2. ASSUME NEW n \in DOMAIN done, NEW i \in Numbers, i < done[n].command,
               commands[i].computer = commands[done[n].command].computer
        PROVE  \E m \in 1 .. n - 1 : done'[m].command = i
    <3>1. \E m \in 1 .. n - 1 : done[m].command = i
      BY <2>2 DEF CommandInv, FirstHandledInOrder
    <3>2. \A m \in 1 .. n - 1 : m \in DOMAIN done
      BY <1>4
    <3> QED
      BY <1>4, <3>1, <3>2
  <2> QED
    BY <1>1, <1>4, <1>5, <2>1, <2>2 DEF FirstHandledInOrder
<1> QED
  BY <1>8, <1>9, <1>10, <1>11, <1>12 DEF CommandInv

LEMMA AnswersKeeps ==
  ASSUME TypeOK, CommandInv, NEW c \in Computers, Answers(c)
  PROVE  CommandInv'
<1>1. Numbers' = Numbers /\ \A i : Handled(i)' <=> Handled(i)
  BY DEF Answers, Numbers, Handled
<1>2. station'[c].batch = station[c].batch \ {Current(c)} /\ Handled(Current(c))
  BY DEF Answers, RestOfBatch, CommandInv, ReportsHandled
<1>3. BatchOwn'
  BY <1>2 DEF Answers, OthersKeep, CommandInv, BatchOwn
<1>4. BatchOldest'
  <2>1. ASSUME NEW d \in Computers, NEW j \in station'[d].batch, NEW i \in Numbers, i < j,
               commands[i].computer = d
        PROVE  i \in station'[d].batch \/ Handled(i)
    <3>1. CASE d # c
      BY <2>1, <3>1 DEF Answers, OthersKeep, CommandInv, BatchOldest
    <3>2. CASE d = c
      BY <1>2, <2>1, <3>2 DEF CommandInv, BatchOldest
    <3> QED
      BY <3>1, <3>2
  <2> QED
    BY <1>1, <2>1 DEF BatchOldest, Answers
<1>5. DoneKnown' /\ StatusIsAnOutcome' /\ FirstHandledInOrder'
  BY <1>1 DEF Answers, CommandInv, DoneKnown, StatusIsAnOutcome, FirstHandledInOrder
<1>6. ReportsHandled'
  BY DEF Answers, OthersKeep, CommandInv, ReportsHandled, Handled, Current
<1> QED
  BY <1>3, <1>4, <1>5, <1>6 DEF CommandInv

LEMMA StoresKeeps ==
  ASSUME TypeOK, CommandInv, NEW n \in DOMAIN done, Stores(n)
  PROVE  CommandInv'
<1> DEFINE k == done[n].command
           outcome == done[n].outcome
<1>1. k \in Numbers /\ k \in DOMAIN commands /\ commands \in Seq(Command) /\ commands[k] \in Command
  BY DEF CommandInv, DoneKnown, TypeOK, Numbers
<1>2. commands' = [commands EXCEPT ![k].status = outcome]
  BY DEF Stores, Reported
<1>3. /\ Numbers' = Numbers
      /\ commands'[k].status = outcome /\ commands'[k].computer = commands[k].computer
      /\ \A i \in Numbers \ {k} : commands'[i] = commands[i]
  <2> HIDE DEF k, outcome
  <2> QED
    BY <1>1, <1>2 DEF Numbers, Command
<1>4. \A i \in Numbers : commands'[i].computer = commands[i].computer
  BY <1>3
<1>5. done' = done /\ station' = station /\ \A d \in Computers : station[d].batch \subseteq Numbers
  BY DEF Stores, TypeOK
<1>6. StatusIsAnOutcome'
  <2>1. ASSUME NEW i \in Numbers, commands'[i].status # "QUEUED"
        PROVE  \E m \in DOMAIN done : done[m].command = i /\ done[m].outcome = commands'[i].status
    <3>1. CASE i = k
      BY <1>3, <3>1
    <3>2. CASE i # k
      BY <1>3, <2>1, <3>2 DEF CommandInv, StatusIsAnOutcome
    <3> QED
      BY <3>1, <3>2
  <2> QED
    BY <1>3, <1>5, <2>1 DEF StatusIsAnOutcome
<1> HIDE DEF k, outcome
<1>7. BatchOwn' /\ BatchOldest'
  BY <1>3, <1>4, <1>5 DEF CommandInv, BatchOwn, BatchOldest, Handled
<1>8. ReportsHandled' /\ DoneKnown'
  BY <1>3, <1>5 DEF CommandInv, ReportsHandled, DoneKnown, Handled, Current
<1>9. FirstHandledInOrder'
  BY <1>3, <1>4, <1>5 DEF CommandInv, DoneKnown, FirstHandledInOrder
<1> QED
  BY <1>6, <1>7, <1>8, <1>9 DEF CommandInv

LEMMA CommandStepKeeps == TypeOK /\ CommandInv /\ [Next]_vars => CommandInv'
BY CommandSteps, QuietKeeps, SendsKeeps, FetchesKeeps, ExecutesKeeps, AnswersKeeps, StoresKeeps
   DEF CommandStep

LEMMA CommandsSafe == Spec => []CommandInv
BY AgentTyped, CommandInit, CommandStepKeeps, PTL DEF Spec

(* Lost, late and refused reports and restarts repeat commands, but never  *)
(* let a later one overtake an earlier one that has not been handled       *)
(* before.                                                                 *)
THEOREM HandledInOrder == Spec => []FirstHandledInOrder
<1>1. CommandInv => FirstHandledInOrder
  BY DEF CommandInv
<1> QED
  BY <1>1, CommandsSafe, PTL

(* What the manager sees happened to that command once, though not always  *)
(* last: a late report may replace the outcome of a later execution.       *)
THEOREM StatusesWereOutcomes == Spec => []StatusIsAnOutcome
<1>1. CommandInv => StatusIsAnOutcome
  BY DEF CommandInv
<1> QED
  BY <1>1, CommandsSafe, PTL
===============================================================================
