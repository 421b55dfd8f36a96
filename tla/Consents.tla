------------------------------- MODULE Consents -------------------------------
(***************************************************************************)
(* ConsentsService, for the documents of one key: a new version is the row *)
(* after the highest, and a customer signs the version that is active.     *)
(* Both read first and then insert; requests overlap and die in between,   *)
(* so the version that is signed need not be active any more.              *)
(***************************************************************************)
EXTENDS Integers, Sequences, FiniteSetsExt

CONSTANTS
  Requests,      \* requests served at the same time
  MaxVersions,   \* bound: versions
  MaxSignatures  \* bound: signatures

ASSUME ConsentsAssumption == {MaxVersions, MaxSignatures} \subseteq Nat

VARIABLES
  documents,  \* the versions of the ConsentDocument rows by age
  signed,     \* the versions of the CustomerConsent rows by age
  request     \* request -> what it has read

consentVars == <<documents, signed, request>>

NoRequest == [step |-> "none", version |-> 0]

ConsentsInit ==
  /\ documents = << >> /\ signed = << >>
  /\ request = [r \in Requests |-> NoRequest]

Active == Max({0} \cup {documents[i] : i \in DOMAIN documents})

Reads(r, step, version) ==
  /\ request[r] = NoRequest
  /\ request' = [request EXCEPT ![r] = [step |-> step, version |-> version]]
  /\ UNCHANGED <<documents, signed>>
Ends(r) == request' = [request EXCEPT ![r] = NoRequest]

CreateVersion(r) == Active < MaxVersions /\ Reads(r, "create", Active + 1)

(* The unique index on key and version makes the later insert fail.        *)
Duplicate(version) == \E i \in DOMAIN documents : documents[i] = version

InsertVersion(r) == LET version == request[r].version IN
  /\ request[r].step = "create"
  /\ documents' = IF Duplicate(version) THEN documents ELSE Append(documents, version)
  /\ Ends(r)
  /\ UNCHANGED signed

ActiveFor(r) == Active # 0 /\ Reads(r, "sign", Active)

Sign(r) ==
  /\ request[r].step = "sign" /\ Len(signed) < MaxSignatures
  /\ signed' = Append(signed, request[r].version)
  /\ Ends(r)
  /\ UNCHANGED documents

RequestDies(r) ==
  /\ request[r] # NoRequest /\ Ends(r)
  /\ UNCHANGED <<documents, signed>>

ConsentsNext == \E r \in Requests :
  CreateVersion(r) \/ InsertVersion(r) \/ ActiveFor(r) \/ Sign(r) \/ RequestDies(r)

ConsentsSpec == ConsentsInit /\ [][ConsentsNext]_consentVars

-------------------------------------------------------------------------------
ConsentsTypeOK ==
  /\ \A i \in DOMAIN documents : documents[i] \in 1 .. MaxVersions
  /\ \A i \in DOMAIN signed : signed[i] \in 1 .. MaxVersions
  /\ \A r \in Requests : request[r].step \in {"none", "create", "sign"}
===============================================================================
