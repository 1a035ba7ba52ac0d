---------------------------- MODULE Connections ----------------------------
(***************************************************************************)
(* The configuration of an account's data sources: credentials and         *)
(* connections (apps/api/app/routes/configuration.py), research matrix and *)
(* provider bindings (routes/research_matrix.py), and the suggestions of   *)
(* bindings (routes/provider_binding_assistance.py,                        *)
(* modules/connections/binding_assistance.py).                             *)
(*                                                                         *)
(* A record is written whole, data and version, from a copy read without a *)
(* lock; the state column only by the requests that name it.  A request    *)
(* that asks nobody outside is one step here.  A connection test waits for *)
(* the provider between its read and its write, and an application of      *)
(* suggestions holds the account row from its checks to its commit.  The   *)
(* options are those of one slot: one market lane, capability and purpose. *)
(***************************************************************************)
EXTENDS Integers, FiniteSets

CONSTANTS
  Connection,
  Binding,
  Suggestion,  \* stored recommendations
  Applier,     \* requests that may apply suggestions at the same time
  Tester,      \* requests that may test a connection at the same time
  MaxEdits     \* bound: writes of the configuration

ASSUME ConnectionsAssumption ==
  MaxEdits \in Nat /\ "NONE" \notin Binding \cup Suggestion

VARIABLES
  profile,     \* the account row: version, deleted, which schedules are enabled
  matrix,      \* the active research matrix: version, and the lane enabled
  credential,  \* the credential row: state, status, envelope present
  connection,  \* the row of each connection
  testing,     \* the connection each test waits for, as it was read
  binding,     \* the row of each provider binding
  suggestion,  \* the row of each recommendation
  applying,    \* the recommendation each application has checked
  edits

configVars == <<profile, matrix, credential, connection, testing, binding,
                suggestion, applying, edits>>

NoConnection == [state |-> "NONE", active |-> FALSE, linked |-> FALSE,
                 health |-> "UNTESTED", version |-> 0]
NoBinding == [state |-> "NONE", of |-> "NONE", by |-> "NONE", verified |-> FALSE, version |-> 0]
NoSuggestion == [state |-> "NONE"]
NotTesting == [id |-> "NONE"]
NotApplying == "NONE"

ConnectionsInit ==
  /\ profile = [version |-> 1, deleted |-> FALSE, scheduled |-> {"RESEARCH", "NEWS"}]
  /\ matrix = [version |-> 0, lane |-> TRUE]
  /\ credential = [state |-> "NONE", status |-> "NONE", envelope |-> FALSE]
  /\ connection = [c \in Connection |-> NoConnection]
  /\ testing = [t \in Tester |-> NotTesting]
  /\ binding = [b \in Binding |-> NoBinding]
  /\ suggestion = [s \in Suggestion |-> NoSuggestion]
  /\ applying = [a \in Applier |-> NotApplying]
  /\ edits = 0

Edit == edits < MaxEdits /\ edits' = edits + 1
Unlocked == \A a \in Applier : applying[a] = NotApplying

(***************************************************************************)
(* Account and matrix                                                      *)
(***************************************************************************)
(* Every write of the account waits for the application that holds it.     *)
UpdateAccount ==
  /\ Edit /\ Unlocked
  /\ profile' = [profile EXCEPT !.version = @ + 1]
  /\ UNCHANGED <<matrix, credential, connection, testing, binding, suggestion, applying>>

UpdateAutomation == ~profile.deleted /\ UpdateAccount

(* A schedule is saved, enabled or not, or removed, which disables it.     *)
SetSchedule(schedules) ==
  /\ Edit /\ Unlocked /\ ~profile.deleted
  /\ profile' = [profile EXCEPT !.version = @ + 1, !.scheduled = schedules]
  /\ UNCHANGED <<matrix, credential, connection, testing, binding, suggestion, applying>>

SaveResearchSchedule == \E on \in SUBSET {"RESEARCH"} : SetSchedule((profile.scheduled \ {"RESEARCH"}) \cup on)
RemoveResearchSchedule == SetSchedule(profile.scheduled \ {"RESEARCH"})
SaveNewsSchedule == \E on \in SUBSET {"NEWS"} : SetSchedule((profile.scheduled \ {"NEWS"}) \cup on)
RemoveNewsSchedule == SetSchedule(profile.scheduled \ {"NEWS"})

DeleteAccount ==
  /\ Edit /\ Unlocked
  /\ profile' = [profile EXCEPT !.version = @ + 1, !.deleted = TRUE]
  /\ UNCHANGED <<matrix, credential, connection, testing, binding, suggestion, applying>>

ReplaceMatrix ==
  /\ Edit /\ ~profile.deleted
  /\ \E lane \in BOOLEAN : matrix' = [version |-> matrix.version + 1, lane |-> lane]
  /\ UNCHANGED <<profile, credential, connection, testing, binding, suggestion, applying>>

(***************************************************************************)
(* Credentials                                                             *)
(***************************************************************************)
Linked == {c \in Connection : connection[c].linked /\ connection[c].state # "DELETED"}

CreateCredential ==
  /\ Edit /\ credential.state = "NONE"
  /\ credential' = [state |-> "ACTIVE", status |-> "UNTESTED", envelope |-> TRUE]
  /\ UNCHANGED <<profile, matrix, connection, testing, binding, suggestion, applying>>

(* A deleted one, too, receives the new secret; its state stays.           *)
ReplaceCredential ==
  /\ Edit /\ credential.state # "NONE"
  /\ credential' = [credential EXCEPT !.status = "UNTESTED", !.envelope = TRUE]
  /\ connection' = [c \in Connection |->
       IF c \in Linked
       THEN [connection[c] EXCEPT !.health = "UNTESTED", !.version = @ + 1]
       ELSE connection[c]]
  /\ UNCHANGED <<profile, matrix, testing, binding, suggestion, applying>>

DeleteCredential ==
  /\ Edit /\ credential.state = "ACTIVE"
  /\ credential' = [state |-> "DELETED", status |-> "DELETED", envelope |-> FALSE]
  /\ connection' = [c \in Connection |->
       IF c \in Linked
       THEN [state |-> "DISABLED", active |-> FALSE, linked |-> FALSE,
             health |-> "UNTESTED", version |-> connection[c].version + 1]
       ELSE connection[c]]
  /\ UNCHANGED <<profile, matrix, testing, binding, suggestion, applying>>

(* Without a linked connection the test only opens the envelope.           *)
TestCredential ==
  /\ Edit /\ credential.state # "NONE" /\ Linked = {}
  /\ credential' = [credential EXCEPT !.status = IF credential.envelope THEN "ACTIVE" ELSE "INVALID"]
  /\ UNCHANGED <<profile, matrix, connection, testing, binding, suggestion, applying>>

(***************************************************************************)
(* Connections                                                             *)
(***************************************************************************)
CreateConnection(c) ==
  /\ Edit /\ connection[c].state = "NONE"
  /\ \E active, linked \in BOOLEAN :
       /\ linked => credential.state = "ACTIVE"
       /\ connection' = [connection EXCEPT ![c] =
            [state |-> IF active THEN "ACTIVE" ELSE "DISABLED", active |-> active,
             linked |-> linked, health |-> "UNTESTED", version |-> 1]]
  /\ UNCHANGED <<profile, matrix, credential, testing, binding, suggestion, applying>>

(* A deleted connection comes back to life.                                *)
UpdateConnection(c) ==
  /\ Edit /\ connection[c].state # "NONE"
  /\ \E active, linked \in BOOLEAN :
       /\ linked => credential.state = "ACTIVE"
       /\ connection' = [connection EXCEPT ![c] =
            [state |-> IF active THEN "ACTIVE" ELSE "DISABLED", active |-> active,
             linked |-> linked, health |-> "UNTESTED", version |-> @.version + 1]]
  /\ UNCHANGED <<profile, matrix, credential, testing, binding, suggestion, applying>>

DeleteConnection(c) ==
  /\ Edit /\ connection[c].state # "NONE"
  /\ connection' = [connection EXCEPT ![c].state = "DELETED", ![c].active = FALSE,
                                      ![c].version = @ + 1]
  /\ UNCHANGED <<profile, matrix, credential, testing, binding, suggestion, applying>>

Resolvable(c) ==
  /\ connection[c].state \notin {"NONE", "DELETED"}
  /\ connection[c].active
  /\ connection[c].linked => credential.state # "DELETED" /\ credential.envelope

StartTest(t, c) ==
  /\ testing[t] = NotTesting /\ Resolvable(c)
  /\ testing' = [testing EXCEPT ![t] = [id |-> c, read |-> connection[c]]]
  /\ UNCHANGED <<profile, matrix, credential, connection, binding, suggestion, applying, edits>>

(* The row as it was read, with the new health, but the state as it is;    *)
(* the status of the credential follows, be it deleted.                    *)
FinishTest(t) ==
  /\ testing[t] # NotTesting /\ Edit
  /\ LET c == testing[t].id
         read == testing[t].read
     IN \E health \in {"HEALTHY", "FAILED"} :
          /\ connection' = [connection EXCEPT ![c] =
               [read EXCEPT !.state = connection[c].state, !.health = health,
                            !.version = @ + 1]]
          /\ credential' = IF read.linked
               THEN [credential EXCEPT !.status = IF health = "HEALTHY" THEN "ACTIVE" ELSE "INVALID"]
               ELSE credential
  /\ testing' = [testing EXCEPT ![t] = NotTesting]
  /\ UNCHANGED <<profile, matrix, binding, suggestion, applying>>

(***************************************************************************)
(* Bindings                                                                *)
(***************************************************************************)
Live(b) == binding[b].state = "ACTIVE"
BindingAllowed(c) == connection[c].state \notin {"NONE", "DELETED"} /\ matrix.lane
Healthy(c) ==
  connection[c].state # "DELETED" /\ connection[c].active /\ connection[c].health = "HEALTHY"
NewBinding(c, by, verified) ==
  [state |-> "ACTIVE", of |-> c, by |-> by, verified |-> verified,
   version |-> IF verified THEN 2 ELSE 1]

(* Nothing is locked, and a binding like it may exist.                     *)
CreateBinding(b, c) ==
  /\ Edit /\ ~profile.deleted
  /\ binding[b].state = "NONE" /\ BindingAllowed(c)
  /\ binding' = [binding EXCEPT ![b] = NewBinding(c, "OWNER", FALSE)]
  /\ UNCHANGED <<profile, matrix, credential, connection, testing, suggestion, applying>>

VerifyBinding(b) ==
  /\ Edit /\ ~profile.deleted /\ Live(b) /\ Healthy(binding[b].of)
  /\ binding' = [binding EXCEPT ![b].verified = TRUE, ![b].version = @ + 1]
  /\ UNCHANGED <<profile, matrix, credential, connection, testing, suggestion, applying>>

DeleteBinding(b) ==
  /\ Edit /\ ~profile.deleted /\ Live(b)
  /\ binding' = [binding EXCEPT ![b].state = "DELETED", ![b].version = @ + 1]
  /\ UNCHANGED <<profile, matrix, credential, connection, testing, suggestion, applying>>

(***************************************************************************)
(* Suggestions                                                             *)
(***************************************************************************)
(* Versions and states, of what is not deleted.                            *)
ConfigPrint ==
  [account |-> profile.version, matrix |-> matrix,
   connections |-> {<<c, connection[c].version, connection[c].state>> :
                      c \in {d \in Connection : connection[d].state \notin {"NONE", "DELETED"}}},
   bindings |-> {<<b, binding[b].version>> : b \in {d \in Binding : Live(d)}}]

Options == {c \in Connection : connection[c].state \notin {"NONE", "DELETED"} /\ connection[c].active}
Tested(c) == connection[c].health = "HEALTHY"
Existing(c) == {b \in Binding : Live(b) /\ binding[b].of = c}
Bound(c) == Tested(c) /\ \E b \in Existing(c) : binding[b].verified

(* What is bound before what is ready before what needs a test; between    *)
(* equals the rule or the assistant chooses.                               *)
Preferred ==
  IF \E c \in Options : Bound(c) THEN {c \in Options : Bound(c)}
  ELSE IF \E c \in Options : Tested(c) THEN {c \in Options : Tested(c)}
  ELSE Options

(* The row is stored when the assistant has answered, with the fingerprint *)
(* read before it was asked.                                               *)
Suggest(s) ==
  /\ Edit /\ ~profile.deleted /\ matrix.lane
  /\ suggestion[s] = NoSuggestion
  /\ \E c \in Preferred : \E known \in IF Existing(c) = {} THEN {"NONE"} ELSE Existing(c) :
       suggestion' = [suggestion EXCEPT ![s] =
         [state |-> "RECOMMENDED", of |-> c, existing |-> known,
          ready |-> Tested(c) /\ ~Bound(c), print |-> ConfigPrint]]
  /\ UNCHANGED <<profile, matrix, credential, connection, testing, binding, applying>>

(* Under the account lock: still recommended, and nothing has changed.     *)
Applicable(s) ==
  /\ suggestion[s].state = "RECOMMENDED" /\ ~profile.deleted
  /\ suggestion[s].print = ConfigPrint

MutStartApply(a, s) ==
  /\ applying[a] = NotApplying /\ Applicable(s)
  /\ applying' = [applying EXCEPT ![a] = s]
  /\ UNCHANGED <<profile, matrix, credential, connection, testing, binding, suggestion, edits>>
StartApply(a, s) ==
  /\ applying[a] = NotApplying /\ Unlocked /\ Applicable(s)
  /\ applying' = [applying EXCEPT ![a] = s]
  /\ UNCHANGED <<profile, matrix, credential, connection, testing, binding, suggestion, edits>>

(* Create unless it exists, verify when it was ready, in one commit.       *)
FinishApply(a) ==
  /\ applying[a] # NotApplying /\ Edit
  /\ LET s == applying[a]
         c == suggestion[s].of
     IN /\ suggestion[s].ready => Healthy(c)
        /\ \/ /\ suggestion[s].existing = "NONE" /\ BindingAllowed(c)
              /\ \E b \in Binding :
                   /\ binding[b].state = "NONE"
                   /\ binding' = [binding EXCEPT ![b] =
                        NewBinding(c, "SUGGESTION", suggestion[s].ready)]
           \/ /\ suggestion[s].existing # "NONE" /\ Live(suggestion[s].existing)
              /\ binding' = IF suggestion[s].ready
                   THEN [binding EXCEPT ![suggestion[s].existing].verified = TRUE,
                                        ![suggestion[s].existing].version = @ + 1]
                   ELSE binding
        /\ suggestion' = [suggestion EXCEPT ![s].state = "APPLIED"]
  /\ applying' = [applying EXCEPT ![a] = NotApplying]
  /\ UNCHANGED <<profile, matrix, credential, connection, testing>>

(* A check of one of its parts fails, or the request dies: all is undone.  *)
AbandonApply(a) ==
  /\ applying[a] # NotApplying
  /\ applying' = [applying EXCEPT ![a] = NotApplying]
  /\ UNCHANGED <<profile, matrix, credential, connection, testing, binding, suggestion, edits>>

ConnectionsNext ==
  \/ UpdateAccount \/ UpdateAutomation \/ DeleteAccount \/ ReplaceMatrix
  \/ SaveResearchSchedule \/ RemoveResearchSchedule \/ SaveNewsSchedule \/ RemoveNewsSchedule
  \/ CreateCredential \/ ReplaceCredential \/ DeleteCredential \/ TestCredential
  \/ \E c \in Connection :
       \/ CreateConnection(c) \/ UpdateConnection(c) \/ DeleteConnection(c)
       \/ \E t \in Tester : StartTest(t, c)
       \/ \E b \in Binding : CreateBinding(b, c)
  \/ \E t \in Tester : FinishTest(t)
  \/ \E b \in Binding : VerifyBinding(b) \/ DeleteBinding(b)
  \/ \E s \in Suggestion : Suggest(s) \/ \E a \in Applier : StartApply(a, s)
  \/ \E a \in Applier : FinishApply(a) \/ AbandonApply(a)

ConnectionsSpec == ConnectionsInit /\ [][ConnectionsNext]_configVars

(***************************************************************************)
(* Properties                                                              *)
(***************************************************************************)
(* Type invariant of the configuration rows.                               *)
ConnectionsTypeOK ==
  /\ profile \in [version: Nat, deleted: BOOLEAN, scheduled: SUBSET {"RESEARCH", "NEWS"}]
  /\ matrix \in [version: Nat, lane: BOOLEAN]
  /\ credential.status \in {"NONE", "UNTESTED", "ACTIVE", "INVALID", "DELETED"}
  /\ \A c \in Connection :
       connection[c] \in [state: {"NONE", "ACTIVE", "DISABLED", "DELETED"}, active: BOOLEAN,
                          linked: BOOLEAN, health: {"UNTESTED", "HEALTHY", "FAILED"}, version: Nat]
  /\ \A b \in Binding : binding[b].state \in {"NONE", "ACTIVE", "DELETED"}
  /\ \A s \in Suggestion : suggestion[s].state \in {"NONE", "RECOMMENDED", "APPLIED"}
  /\ applying \in [Applier -> Suggestion \cup {NotApplying}]
  /\ edits \in 0..MaxEdits

(* However often suggestions are made, applied at the same time or applied *)
(* again after a lost answer, they bind a connection to a slot once.       *)
SuggestionsBindOnce ==
  \A c \in Connection : Cardinality({b \in Existing(c) : binding[b].by = "SUGGESTION"}) <= 1
=============================================================================
