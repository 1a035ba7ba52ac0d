---------------------------- MODULE AdapterProofs ----------------------------
(***************************************************************************)
(* What the components that speak to the outside guarantee, for any number *)
(* of messages, browsers, suggestions, searches and calls: the broker feed, *)
(* the owner's account, the connections, knowledge ingestion and the agent *)
(* runtime.                                                                *)
(***************************************************************************)
EXTENDS BrokerFeed, Accounts, Connections, Knowledge, AgentCalls, FiniteSetTheorems, TLAPS

----------------------------------------------------------------------------
(***************************************************************************)
(* The broker feed: messages carry their run's numbers in the order of its *)
(* seconds, so that what Accepts takes for newer is newer.                 *)
(***************************************************************************)

Shown == {latest[s] : s \in Stream} \ {NoMessage}
Sent == wire \cup Shown

(* A message carries a number its run has used up and a second that has    *)
(* passed, and the bridge shows it under its stream.                       *)
Numbered ==
  /\ \A m \in Sent :
       /\ m.run <= eaRun /\ m.observed_at <= clock
       /\ m.run = eaRun => m.sequence <= sequence[m.stream]
  /\ \A s \in Stream : latest[s] # NoMessage => latest[s].stream = s

(* Within a run the numbers of a stream and the seconds agree.             *)
Ordered ==
  \A m, n \in Sent :
    m.stream = n.stream /\ m.run = n.run /\ m.sequence <= n.sequence =>
      m.observed_at <= n.observed_at

FeedInv == FeedTypeOK /\ Numbered /\ Ordered

----------------------------------------------------------------------------
(* What has been sent and not lost is made of messages.                    *)
LEMMA MessagesTyped ==
  ASSUME FeedTypeOK, NEW m \in Sent
  PROVE  /\ m \in FeedMessage /\ m.stream \in Stream /\ m.run \in Nat \ {0}
         /\ m.sequence \in Nat \ {0} /\ m.observed_at \in Nat
<1>1. m \in FeedMessage
  BY DEF FeedTypeOK, Sent, Shown
<1> QED BY <1>1 DEF FeedMessage

(* A step that sends nothing, and shows nothing but what was sent, keeps   *)
(* numbers and order.                                                      *)
LEMMA NothingSent ==
  ASSUME FeedInv, Sent' \subseteq Sent, UNCHANGED <<eaRun, clock, sequence>>,
         \A s \in Stream : latest'[s] # NoMessage => latest'[s].stream = s
  PROVE  Numbered' /\ Ordered'
<1>1. \A m \in Sent' : /\ m.run <= eaRun /\ m.observed_at <= clock
                       /\ m.run = eaRun => m.sequence <= sequence[m.stream]
  BY DEF FeedInv, Numbered
<1>2. Ordered'
  BY DEF FeedInv, Ordered
<1> QED BY <1>1, <1>2 DEF Numbered

(* The EA publishes under the next number of its run.                      *)
LEMMA PublishKeeps ==
  ASSUME FeedInv, NEW s \in Stream, Publish(s)
  PROVE  FeedInv'
<1>0. FeedTypeOK /\ Numbered /\ Ordered
  BY DEF FeedInv
<1>1. PICK second \in {clock, clock + 1} :
        LET message == [stream |-> s, run |-> eaRun, sequence |-> sequence[s] + 1,
                        observed_at |-> second] IN
        clock' = second /\ awaited' = message /\ wire' = wire \cup {message}
  BY DEF Publish
<1> DEFINE new == [stream |-> s, run |-> eaRun, sequence |-> sequence[s] + 1,
                   observed_at |-> second]
<1>2. /\ clock' = second /\ awaited' = new /\ wire' = wire \cup {new}
      /\ sequence' = [sequence EXCEPT ![s] = @ + 1]
      /\ UNCHANGED <<eaRun, latest, listed, hiccups>>
  BY <1>1 DEF Publish
<1>3. eaRun \in Nat /\ sequence[s] \in Nat /\ clock \in Nat /\ clock' \in Nat /\ clock <= clock'
  BY <1>0, <1>2 DEF FeedTypeOK
<1>4. eaRun # 0
  <2> SUFFICES ASSUME eaRun = 0 PROVE FALSE
    OBVIOUS
  <2>1. sequence[s] < 0 * MaxSequence[s] /\ MaxSequence[s] \in Nat
    BY FeedAssumption DEF Publish
  <2> QED BY <1>3, <2>1
<1>5. /\ new \in FeedMessage
      /\ new.stream = s /\ new.run = eaRun /\ new.sequence = sequence[s] + 1
      /\ new.observed_at = clock'
  BY <1>2, <1>3, <1>4 DEF FeedMessage
<1> HIDE DEF new
<1>6. FeedTypeOK'
  <2>1. sequence' \in [Stream -> Nat]
    BY <1>0, <1>2, <1>3 DEF FeedTypeOK
  <2> QED BY <1>0, <1>2, <1>3, <1>5, <2>1 DEF FeedTypeOK
<1>7. Sent' = Sent \cup {new}
  BY <1>2 DEF Sent, Shown
<1>8. /\ sequence'[s] = sequence[s] + 1
      /\ \A z \in Stream : sequence[z] \in Nat /\ sequence[z] <= sequence'[z]
  BY <1>0, <1>2 DEF FeedTypeOK
<1>9. Numbered'
  <2>1. ASSUME NEW m \in Sent
        PROVE  /\ m.run <= eaRun' /\ m.observed_at <= clock'
               /\ m.run = eaRun' => m.sequence <= sequence'[m.stream]
    <3>1. /\ m.run <= eaRun /\ m.observed_at <= clock
          /\ m.run = eaRun => m.sequence <= sequence[m.stream]
      BY <1>0 DEF Numbered
    <3>2. sequence[m.stream] \in Nat /\ sequence'[m.stream] \in Nat
      BY <1>0, <1>6, MessagesTyped DEF FeedTypeOK
    <3> QED BY <1>0, <1>2, <1>3, <1>8, <3>1, <3>2, MessagesTyped
  <2>2. /\ new.run <= eaRun' /\ new.observed_at <= clock'
        /\ new.sequence <= sequence'[new.stream]
    BY <1>2, <1>3, <1>5, <1>8
  <2>3. \A z \in Stream : latest'[z] # NoMessage => latest'[z].stream = z
    BY <1>0, <1>2 DEF Numbered
  <2> QED BY <1>7, <2>1, <2>2, <2>3 DEF Numbered
<1>10. Ordered'
  <2>1. ASSUME NEW m \in Sent, NEW n \in Sent, m.stream = n.stream, m.run = n.run,
               m.sequence <= n.sequence
        PROVE  m.observed_at <= n.observed_at
    BY <1>0, <2>1 DEF Ordered
  <2>2. ASSUME NEW m \in Sent PROVE m.observed_at <= new.observed_at
    <3>1. m.observed_at <= clock /\ m.observed_at \in Nat
      BY <1>0, MessagesTyped DEF Numbered
    <3> QED BY <1>3, <1>5, <3>1
  <2>3. ASSUME NEW m \in Sent, m.stream = new.stream, m.run = new.run
        PROVE  ~(new.sequence <= m.sequence)
    <3>1. m.sequence <= sequence[s] /\ m.sequence \in Nat
      BY <1>0, <1>5, <2>3, MessagesTyped DEF Numbered
    <3> QED BY <1>3, <1>5, <3>1
  <2>4. new.observed_at <= new.observed_at
    BY <1>3, <1>5
  <2> QED BY <1>7, <2>1, <2>2, <2>3, <2>4 DEF Ordered
<1> QED BY <1>6, <1>9, <1>10 DEF FeedInv

(* A new run has sent nothing yet.                                         *)
LEMMA RestartKeeps ==
  ASSUME FeedInv, EaStopsAndStarts
  PROVE  FeedInv'
<1>0. /\ FeedTypeOK /\ Numbered /\ Ordered /\ eaRun \in Nat
      /\ eaRun' = eaRun + 1 /\ sequence' = [s \in Stream |-> 0]
      /\ UNCHANGED <<clock, wire, latest, listed, hiccups>> /\ awaited' = NoMessage
  BY DEF FeedInv, FeedTypeOK, EaStopsAndStarts
<1>1. Sent' = Sent
  BY <1>0 DEF Sent, Shown
<1>2. FeedTypeOK'
  BY <1>0 DEF FeedTypeOK
<1>3. Numbered'
  <2>1. \A m \in Sent : m.run <= eaRun /\ m.run \in Nat /\ m.observed_at <= clock
    BY <1>0, MessagesTyped DEF Numbered
  <2>2. \A m \in Sent : m.run <= eaRun + 1 /\ m.run # eaRun + 1
    BY <1>0, <2>1
  <2> QED BY <1>0, <1>1, <2>1, <2>2 DEF Numbered
<1>4. Ordered'
  BY <1>0, <1>1 DEF Ordered
<1> QED BY <1>2, <1>3, <1>4 DEF FeedInv

(* The other steps of the EA, the network, the bridge and the market.      *)
LEMMA OthersKeep ==
  ASSUME FeedInv,
         \/ EaTimesOut \/ BridgeRestarts \/ QuotesChange
         \/ \E m \in wire : ReceiveMessage(m) \/ Discard(m)
         \/ UNCHANGED feedVars
  PROVE  FeedInv'
<1>0. FeedTypeOK /\ Numbered
  BY DEF FeedInv
<1> USE DEF Hiccup, Answered
<1>1. UNCHANGED <<eaRun, clock, sequence>>
  BY DEF EaTimesOut, BridgeRestarts, QuotesChange, ReceiveMessage, Discard, feedVars
<1>2. /\ wire' \subseteq wire /\ hiccups' \in Nat /\ listed' \in BOOLEAN
      /\ awaited' \in {awaited, NoMessage}
  <2>1. hiccups \in Nat /\ hiccups + 1 \in Nat
    BY <1>0 DEF FeedTypeOK
  <2>2. CASE EaTimesOut \/ BridgeRestarts
    BY <1>0, <2>1, <2>2 DEF EaTimesOut, BridgeRestarts, FeedTypeOK
  <2>3. CASE QuotesChange \/ UNCHANGED feedVars
    BY <1>0, <2>1, <2>3 DEF QuotesChange, feedVars, FeedTypeOK
  <2>4. ASSUME NEW m \in wire, ReceiveMessage(m) \/ Discard(m)
        PROVE  /\ wire' \subseteq wire /\ awaited' \in {awaited, NoMessage}
               /\ UNCHANGED <<hiccups, listed>>
    BY <2>4 DEF ReceiveMessage, Discard
  <2>5. listed \in BOOLEAN
    BY <1>0 DEF FeedTypeOK
  <2> QED BY <2>1, <2>2, <2>3, <2>4, <2>5
<1>3. /\ latest' \in [Stream -> FeedMessage \cup {NoMessage}]
      /\ \A s \in Stream : \/ latest'[s] \in {latest[s], NoMessage}
                           \/ latest'[s] \in wire /\ latest'[s].stream = s
  <2>1. ASSUME NEW m \in wire, ReceiveMessage(m)
        PROVE  /\ latest' \in [Stream -> FeedMessage \cup {NoMessage}]
               /\ \A s \in Stream : \/ latest'[s] \in {latest[s], NoMessage}
                                    \/ latest'[s] \in wire /\ latest'[s].stream = s
    <3>1. m \in FeedMessage /\ m.stream \in Stream
      BY <1>0, <2>1 DEF FeedTypeOK, FeedMessage
    <3>2. latest' = latest \/ latest' = [latest EXCEPT ![m.stream] = m]
      BY <2>1 DEF ReceiveMessage
    <3> QED BY <1>0, <2>1, <3>1, <3>2 DEF FeedTypeOK
  <2>2. CASE BridgeRestarts
    BY <2>2 DEF BridgeRestarts
  <2>3. CASE latest' = latest
    BY <1>0, <2>3 DEF FeedTypeOK
  <2> QED BY <2>1, <2>2, <2>3 DEF EaTimesOut, QuotesChange, Discard, feedVars
<1>4. FeedTypeOK'
  BY <1>0, <1>1, <1>2, <1>3 DEF FeedTypeOK
<1>5. Sent' \subseteq Sent
  BY <1>2, <1>3 DEF Sent, Shown
<1>6. \A s \in Stream : latest'[s] # NoMessage => latest'[s].stream = s
  BY <1>0, <1>3 DEF Numbered
<1> QED BY <1>1, <1>4, <1>5, <1>6, NothingSent DEF FeedInv

(* Every reachable state satisfies the invariant.                          *)
THEOREM FeedInvHolds == FeedSteps => []FeedInv
<1>1. FeedInit => FeedInv
  BY FeedAssumption DEF FeedInit, FeedInv, FeedTypeOK, Numbered, Ordered, Sent, Shown
<1>2. FeedInv /\ [FeedNext]_feedVars => FeedInv'
  BY PublishKeeps, RestartKeeps, OthersKeep DEF FeedNext
<1> QED BY <1>1, <1>2, PTL DEF FeedSteps

(* Type invariant of the EA's counters, of the messages on their way and   *)
(* of what the bridge shows.                                               *)
THEOREM FeedTypeCorrect == FeedSteps => []FeedTypeOK
<1>1. FeedInv => FeedTypeOK
  BY DEF FeedInv
<1> QED BY <1>1, FeedInvHolds, PTL

----------------------------------------------------------------------------
(* A message accepted over one of its own run has the higher number: the   *)
(* exception for a restarted EA asks for a later second, and number 1 has  *)
(* the earliest of the run.                                                *)
LEMMA AcceptedIsNewer ==
  ASSUME FeedInv, NEW m \in wire, Accepts(m),
         latest[m.stream] # NoMessage, latest[m.stream].run = m.run
  PROVE  m.sequence >= latest[m.stream].sequence
<1> DEFINE previous == latest[m.stream]
<1>1. m \in Sent /\ m.stream \in Stream /\ m.sequence \in Nat /\ m.observed_at \in Nat
  BY MessagesTyped DEF FeedInv, Sent
<1>2. previous \in Sent /\ previous.stream = m.stream
  BY <1>1 DEF Sent, Shown, FeedInv, Numbered
<1>3. previous.sequence \in Nat \ {0} /\ previous.observed_at \in Nat
  BY <1>2, MessagesTyped DEF FeedInv
<1>4. CASE m.sequence > previous.sequence
  BY <1>1, <1>3, <1>4
<1>5. CASE Restarted(m, previous)
  <2>1. m.sequence = 1 /\ m.observed_at > previous.observed_at
    BY <1>5 DEF Restarted
  <2>2. m.observed_at <= previous.observed_at
    <3>1. m.sequence <= previous.sequence
      BY <1>3, <2>1
    <3> HIDE DEF previous
    <3>2. m.run = previous.run
      BY DEF previous
    <3> QED BY <1>1, <1>2, <3>1, <3>2 DEF FeedInv, Ordered
  <2> QED BY <1>1, <1>3, <2>1, <2>2
<1> QED BY <1>4, <1>5 DEF Accepts

(* What bridges/mt5/app.py shows of one run of the EA never goes back, for *)
(* any number of late, lost and repeated requests and restarts.            *)
THEOREM ForwardOnly == FeedSteps => ViewMovesForward
<1>1. ASSUME FeedInv, [FeedNext]_feedVars, NEW s \in Stream,
             latest[s] # NoMessage, latest'[s] # NoMessage, latest'[s].run = latest[s].run
      PROVE  latest'[s].sequence >= latest[s].sequence
  <2>0. latest[s].sequence \in Nat /\ latest[s] \in Sent
    BY <1>1, MessagesTyped DEF FeedInv, Sent, Shown
  <2>1. CASE latest'[s] = latest[s]
    BY <2>0, <2>1
  <2>2. ASSUME NEW m \in wire, ReceiveMessage(m), latest'[s] # latest[s]
        PROVE  latest'[s].sequence >= latest[s].sequence
    <3>1. Accepts(m) /\ s = m.stream /\ latest'[s] = m
      BY <2>2 DEF ReceiveMessage, FeedInv, FeedTypeOK
    <3> QED BY <1>1, <3>1, AcceptedIsNewer
  <2>3. CASE BridgeRestarts
    BY <1>1, <2>3 DEF BridgeRestarts
  <2> QED
    BY <1>1, <2>1, <2>2, <2>3
       DEF FeedNext, Publish, EaTimesOut, EaStopsAndStarts, QuotesChange, Discard, feedVars
<1>2. FeedInv /\ [FeedNext]_feedVars =>
        [\A s \in Stream :
           (/\ latest[s] # NoMessage /\ latest'[s] # NoMessage
            /\ latest'[s].run = latest[s].run)
           => latest'[s].sequence >= latest[s].sequence]_feedVars
  BY <1>1
<1> QED BY <1>2, FeedInvHolds, PTL DEF FeedSteps, ViewMovesForward

----------------------------------------------------------------------------
(***************************************************************************)
(* Accounts: what a token is spent on or exchanged for stays within what an *)
(* owner may hold.                                                         *)
(***************************************************************************)

(* Tokens stay within what an owner may hold.                              *)
LEMMA TokensCount ==
  ASSUME NEW h \in [TokenKind -> 0..MaxHeld], NEW k \in TokenKind
  PROVE  /\ Receive(h, k) \in [TokenKind -> 0..MaxHeld]
         /\ h[k] > 0 => Spend(h, k) \in [TokenKind -> 0..MaxHeld]
<1>1. MaxHeld \in Nat /\ h[k] \in 0..MaxHeld
  BY AccountsAssumption
<1>2. h[k] < MaxHeld => h[k] + 1 \in 0..MaxHeld
  BY <1>1
<1>3. h[k] > 0 => h[k] - 1 \in 0..MaxHeld
  BY <1>1
<1> QED BY <1>2, <1>3 DEF Receive, Spend

LEMMA MishapsCount ==
  ASSUME mishaps \in 0..MaxMishaps, Smooth \/ Mishap
  PROVE  mishaps' \in 0..MaxMishaps
BY AccountsAssumption DEF Smooth, Mishap

LEMMA Issued ==
  ASSUME NEW h \in [TokenKind -> 0..MaxHeld], NEW k \in TokenKind,
         mishaps \in 0..MaxMishaps, Issue(h, k)
  PROVE  held' \in [TokenKind -> 0..MaxHeld] /\ mishaps' \in 0..MaxMishaps
BY TokensCount, MishapsCount DEF Issue

LEMMA SessionIssued ==
  ASSUME AccountsTypeOK, NEW b \in Browser, NEW h \in [TokenKind -> 0..MaxHeld], IssueSession(b, h)
  PROVE  /\ held' \in [TokenKind -> 0..MaxHeld] /\ mishaps' \in 0..MaxMishaps
         /\ sessions' \in [Browser -> SessionState] /\ entered' \in BOOLEAN /\ terminal' \in BOOLEAN
<1>1. Smooth \/ Mishap
  BY DEF IssueSession
<1>2. mishaps' \in 0..MaxMishaps
  BY <1>1, MishapsCount DEF AccountsTypeOK
<1> QED BY <1>2 DEF IssueSession, AccountsTypeOK, SessionState

LEMMA AccountsStep == AccountsTypeOK /\ [AccountsNext]_accountVars => AccountsTypeOK'
<1> SUFFICES ASSUME AccountsTypeOK, [AccountsNext]_accountVars PROVE AccountsTypeOK'
  OBVIOUS
<1> USE DEF AccountsTypeOK, TokenKind
<1>1. ASSUME NEW b \in Browser, SignupRead(b) \/ SignupInsert(b) PROVE AccountsTypeOK'
  BY <1>1 DEF SignupRead, SignupInsert
<1>2. ASSUME NEW b \in Browser, SignupFinish(b) PROVE AccountsTypeOK'
  <2>1. held' \in [TokenKind -> 0..MaxHeld] /\ mishaps' \in 0..MaxMishaps /\ gate' \in BOOLEAN
    <3>1. CASE /\ gate' = TRUE
               /\ Issue(held, IF verification THEN "EMAIL_VERIFICATION" ELSE "MFA_BOOTSTRAP")
      BY <3>1, Issued
    <3>2. CASE verification /\ Mishap /\ UNCHANGED <<gate, held>>
      BY <3>2, MishapsCount
    <3> QED BY <1>2, <3>1, <3>2 DEF SignupFinish
  <2>2. signup' \in [Browser -> {"NONE", "READ", "INSERTED"}]
    BY <1>2 DEF SignupFinish
  <2>3. UNCHANGED <<verification, owner, known, sessions, entered, terminal>>
    BY <1>2 DEF SignupFinish
  <2> QED BY <2>1, <2>2, <2>3
<1>3. CASE ResendVerification \/ StartRecovery
  <2>1. held' \in [TokenKind -> 0..MaxHeld] /\ mishaps' \in 0..MaxMishaps
    BY <1>3, Issued DEF ResendVerification, StartRecovery
  <2> QED BY <1>3, <2>1 DEF ResendVerification, StartRecovery
<1>4. CASE VerifyEmail
  <2>1. Spend(held, "EMAIL_VERIFICATION") \in [TokenKind -> 0..MaxHeld]
    BY <1>4, TokensCount DEF VerifyEmail
  <2>2. held' \in [TokenKind -> 0..MaxHeld] /\ mishaps' \in 0..MaxMishaps
    BY <1>4, <2>1, Issued DEF VerifyEmail
  <2> QED BY <1>4, <2>2 DEF VerifyEmail
<1>5. CASE CreateEnrollment
  <2>1. Spend(held, "MFA_BOOTSTRAP") \in [TokenKind -> 0..MaxHeld]
    BY <1>5, TokensCount DEF CreateEnrollment
  <2>2. held' \in [TokenKind -> 0..MaxHeld] /\ mishaps' \in 0..MaxMishaps
    BY <1>5, <2>1, Issued DEF CreateEnrollment
  <2> QED BY <1>5, <2>2 DEF CreateEnrollment
<1>6. ASSUME NEW b \in Browser, ConfirmEnrollment(b) PROVE AccountsTypeOK'
  <2>1. Spend(held, "MFA_ENROLLMENT") \in [TokenKind -> 0..MaxHeld]
    BY <1>6, TokensCount DEF ConfirmEnrollment
  <2>2. IssueSession(b, Spend(held, "MFA_ENROLLMENT"))
    BY <1>6 DEF ConfirmEnrollment
  <2>3. /\ held' \in [TokenKind -> 0..MaxHeld] /\ mishaps' \in 0..MaxMishaps
        /\ sessions' \in [Browser -> SessionState] /\ entered' \in BOOLEAN /\ terminal' \in BOOLEAN
    BY <2>1, <2>2, SessionIssued
  <2> QED BY <1>6, <2>3 DEF ConfirmEnrollment
<1>7. ASSUME NEW b \in Browser, VerifyChallenge(b) PROVE AccountsTypeOK'
  <2>1. Spend(held, "LOGIN_MFA") \in [TokenKind -> 0..MaxHeld]
    BY <1>7, TokensCount DEF VerifyChallenge
  <2>2. IssueSession(b, Spend(held, "LOGIN_MFA"))
    BY <1>7 DEF VerifyChallenge
  <2>3. /\ held' \in [TokenKind -> 0..MaxHeld] /\ mishaps' \in 0..MaxMishaps
        /\ sessions' \in [Browser -> SessionState] /\ entered' \in BOOLEAN /\ terminal' \in BOOLEAN
    BY <2>1, <2>2, SessionIssued
  <2> QED BY <1>7, <2>3 DEF VerifyChallenge
<1>8. ASSUME NEW b \in Browser, StepUp(b) \/ EndStepUp(b) \/ EndSession(b) PROVE AccountsTypeOK'
  BY <1>8 DEF StepUp, EndStepUp, EndSession, SessionState
<1>9. CASE StartFails \/ TerminalExits
  <2>1. mishaps' \in 0..MaxMishaps
    BY <1>9, MishapsCount DEF StartFails, TerminalExits
  <2> QED BY <1>9, <2>1 DEF StartFails, TerminalExits
<1>10. CASE BeginSession
  <2>1. held' \in [TokenKind -> 0..MaxHeld] /\ mishaps' \in 0..MaxMishaps
    BY <1>10, Issued DEF BeginSession
  <2> QED BY <1>10, <2>1 DEF BeginSession
<1>11. CASE CompleteRecovery
  <2>1. Spend(held, "PASSWORD_RECOVERY") \in [TokenKind -> 0..MaxHeld]
    BY <1>11, TokensCount DEF CompleteRecovery
  <2> QED BY <1>11, <2>1 DEF CompleteRecovery, SessionState
<1>12. ASSUME NEW k \in TokenKind, TokenExpires(k) PROVE AccountsTypeOK'
  <2>1. Spend(held, k) \in [TokenKind -> 0..MaxHeld]
    BY <1>12, TokensCount DEF TokenExpires
  <2>2. mishaps' \in 0..MaxMishaps
    BY <1>12, MishapsCount DEF TokenExpires
  <2> QED BY <1>12, <2>1, <2>2 DEF TokenExpires
<1>13. CASE UNCHANGED accountVars
  BY <1>13 DEF accountVars
<1> QED BY <1>1, <1>2, <1>3, <1>4, <1>5, <1>6, <1>7, <1>8, <1>9, <1>10, <1>11, <1>12, <1>13
        DEF AccountsNext

(* Type invariant of the owner's record, tokens and sessions, for any      *)
(* number of browsers, tokens and mishaps (routes/auth.py).                *)
THEOREM AccountsTypeCorrect == AccountsSpec => []AccountsTypeOK
<1>1. AccountsInit => AccountsTypeOK
  <2> SUFFICES ASSUME AccountsInit PROVE AccountsTypeOK
    OBVIOUS
  <2>1. 0 \in 0..MaxHeld /\ 0 \in 0..MaxMishaps
    BY AccountsAssumption
  <2>2. held \in [TokenKind -> 0..MaxHeld] /\ mishaps \in 0..MaxMishaps
    BY <2>1 DEF AccountsInit
  <2>3. /\ signup \in [Browser -> {"NONE", "READ", "INSERTED"}]
        /\ sessions \in [Browser -> SessionState]
    BY DEF AccountsInit, SessionState
  <2>4. owner \in [verified: BOOLEAN, mfa: BOOLEAN]
    BY DEF AccountsInit
  <2> QED BY <2>2, <2>3, <2>4 DEF AccountsInit, AccountsTypeOK
<1> QED BY <1>1, AccountsStep, PTL DEF AccountsSpec

----------------------------------------------------------------------------
(***************************************************************************)
(* Connections: a suggestion of a new binding was made when its connection *)
(* had none, which its fingerprint records; appliers take turns.           *)
(***************************************************************************)

BindingRow == [state: {"NONE", "ACTIVE", "DELETED"}, of: Connection \cup {"NONE"},
               by: {"NONE", "OWNER", "SUGGESTION"}, verified: BOOLEAN, version: Nat]

(* The rows of bindings and suggestions, as far as they matter here: which *)
(* connection a binding is of does not change once it exists.              *)
RowsKept ==
  /\ binding \in [Binding -> BindingRow]
  /\ DOMAIN suggestion = Suggestion
  /\ \A s \in Suggestion : suggestion[s].state # "NONE" =>
       /\ suggestion[s].of \in Connection /\ suggestion[s].existing \in Binding \cup {"NONE"}
       /\ suggestion[s].ready \in BOOLEAN
  /\ applying \in [Applier -> Suggestion \cup {NotApplying}]

(* A suggestion that asks for a new binding was made when the connection   *)
(* had none: none of those its fingerprint lists is of this connection.    *)
PrintTells ==
  \A s \in Suggestion : suggestion[s].state = "RECOMMENDED" /\ suggestion[s].existing = "NONE" =>
    \A b \in Binding, v \in Nat :
      <<b, v>> \in suggestion[s].print.bindings =>
        binding[b].state # "NONE" /\ binding[b].of # suggestion[s].of

BySuggestion(c) == {b \in Existing(c) : binding[b].by = "SUGGESTION"}

(* One application at a time holds the account, and what it is about to    *)
(* bind has no binding by suggestion yet.                                  *)
ApplierAlone ==
  /\ \A a, b \in Applier : applying[a] # NotApplying /\ applying[b] # NotApplying => a = b
  /\ \A a \in Applier : applying[a] # NotApplying =>
       /\ suggestion[applying[a]].state = "RECOMMENDED"
       /\ suggestion[applying[a]].existing = "NONE" =>
            BySuggestion(suggestion[applying[a]].of) = {}

AtMostOne == \A c \in Connection : \A x, y \in BySuggestion(c) : x = y

BindingsInv == RowsKept /\ PrintTells /\ ApplierAlone /\ AtMostOne

----------------------------------------------------------------------------
LEMMA BindingsInit == ConnectionsInit => BindingsInv
<1> SUFFICES ASSUME ConnectionsInit PROVE BindingsInv
  OBVIOUS
<1>1. RowsKept
  BY DEF ConnectionsInit, RowsKept, NoBinding, NoSuggestion, BindingRow
<1>2. PrintTells
  BY DEF ConnectionsInit, PrintTells, NoSuggestion
<1>3. ApplierAlone
  BY DEF ConnectionsInit, ApplierAlone
<1>4. AtMostOne
  BY DEF ConnectionsInit, AtMostOne, BySuggestion, Existing, Live, NoBinding
<1> QED BY <1>1, <1>2, <1>3, <1>4 DEF BindingsInv

(* Most requests touch neither a suggestion nor which bindings there are.  *)
LEMMA BindingsUntouched ==
  ASSUME BindingsInv, UNCHANGED <<binding, suggestion, applying>>
  PROVE  BindingsInv'
<1>1. \A c : BySuggestion(c)' = BySuggestion(c)
  BY DEF BySuggestion, Existing, Live
<1>2. RowsKept' /\ PrintTells'
  BY DEF BindingsInv, RowsKept, PrintTells
<1>3. ApplierAlone' /\ AtMostOne'
  BY <1>1 DEF BindingsInv, ApplierAlone, AtMostOne
<1> QED BY <1>2, <1>3 DEF BindingsInv

(* A change of the bindings that makes none by suggestion, and moves none  *)
(* to another connection.                                                  *)
LEMMA NoNewSuggested ==
  ASSUME BindingsInv, UNCHANGED <<suggestion, applying>>,
         binding' \in [Binding -> BindingRow],
         \A b \in Binding : binding[b].state # "NONE" =>
           binding'[b].state # "NONE" /\ binding'[b].of = binding[b].of,
         \A c : BySuggestion(c)' \subseteq BySuggestion(c)
  PROVE  BindingsInv'
<1>1. RowsKept'
  BY DEF BindingsInv, RowsKept
<1>2. PrintTells'
  BY DEF BindingsInv, PrintTells
<1>3. AtMostOne'
  BY DEF BindingsInv, AtMostOne
<1>4. ApplierAlone'
  BY DEF BindingsInv, ApplierAlone
<1> QED BY <1>1, <1>2, <1>3, <1>4 DEF BindingsInv

(* Verifying or deleting a binding leaves the rest of its row as it was.   *)
LEMMA Verified ==
  ASSUME NEW row \in BindingRow
  PROVE  LET new == [row EXCEPT !.verified = TRUE, !.version = @ + 1]
         IN new \in BindingRow /\ new.state = row.state /\ new.by = row.by /\ new.of = row.of
<1> DEFINE one == [row EXCEPT !.verified = TRUE]
           new == [one EXCEPT !.version = @ + 1]
<1>1. one \in BindingRow /\ one.state = row.state /\ one.by = row.by /\ one.of = row.of
  BY DEF BindingRow
<1> HIDE DEF one
<1>2. new \in BindingRow /\ new.state = one.state /\ new.by = one.by /\ new.of = one.of
  BY <1>1 DEF BindingRow
<1> QED BY <1>1, <1>2 DEF one

LEMMA Withdrawn ==
  ASSUME NEW row \in BindingRow
  PROVE  LET new == [row EXCEPT !.state = "DELETED", !.version = @ + 1]
         IN new \in BindingRow /\ new.state = "DELETED" /\ new.by = row.by /\ new.of = row.of
<1> DEFINE one == [row EXCEPT !.state = "DELETED"]
           new == [one EXCEPT !.version = @ + 1]
<1>1. one \in BindingRow /\ one.state = "DELETED" /\ one.by = row.by /\ one.of = row.of
  BY DEF BindingRow
<1> HIDE DEF one
<1>2. new \in BindingRow /\ new.state = one.state /\ new.by = one.by /\ new.of = one.of
  BY <1>1 DEF BindingRow
<1> QED BY <1>1, <1>2 DEF one

(* The owner's requests about one binding.                                 *)
LEMMA OwnersBindings ==
  ASSUME BindingsInv, NEW b \in Binding,
         (\E c \in Connection : CreateBinding(b, c)) \/ VerifyBinding(b) \/ DeleteBinding(b)
  PROVE  BindingsInv'
<1>1. PICK row \in BindingRow :
        /\ binding' = [binding EXCEPT ![b] = row]
        /\ row.state # "NONE"
        /\ \/ row.by = "OWNER" /\ binding[b].state = "NONE"
           \/ /\ row.by = binding[b].by /\ row.of = binding[b].of
              /\ binding[b].state = "ACTIVE"
  <2>0. binding[b] \in BindingRow /\ binding \in [Binding -> BindingRow]
    BY DEF BindingsInv, RowsKept
  <2>1. CASE \E c \in Connection : CreateBinding(b, c)
    <3>1. PICK c \in Connection : CreateBinding(b, c)
      BY <2>1
    <3> DEFINE row == NewBinding(c, "OWNER", FALSE)
    <3>2. row \in BindingRow /\ row.state # "NONE" /\ row.by = "OWNER"
      BY DEF NewBinding, BindingRow
    <3> HIDE DEF row
    <3> QED BY <3>1, <3>2 DEF CreateBinding, row
  <2>2. CASE VerifyBinding(b)
    <3> DEFINE row == [binding[b] EXCEPT !.verified = TRUE, !.version = @ + 1]
    <3>1. row \in BindingRow /\ row.state = binding[b].state /\ row.by = binding[b].by
          /\ row.of = binding[b].of
      BY <2>0, Verified
    <3>2. binding' = [binding EXCEPT ![b] = row] /\ binding[b].state = "ACTIVE"
      BY <2>0, <2>2 DEF VerifyBinding, Live
    <3> HIDE DEF row
    <3> QED BY <3>1, <3>2
  <2>3. CASE DeleteBinding(b)
    <3> DEFINE row == [binding[b] EXCEPT !.state = "DELETED", !.version = @ + 1]
    <3>1. row \in BindingRow /\ row.state = "DELETED" /\ row.by = binding[b].by
          /\ row.of = binding[b].of
      BY <2>0, Withdrawn
    <3>2. binding' = [binding EXCEPT ![b] = row] /\ binding[b].state = "ACTIVE"
      BY <2>0, <2>3 DEF DeleteBinding, Live
    <3> HIDE DEF row
    <3> QED BY <3>1, <3>2
  <2> QED BY <2>1, <2>2, <2>3
<1>2. binding \in [Binding -> BindingRow]
  BY DEF BindingsInv, RowsKept
<1>3. UNCHANGED <<suggestion, applying>>
  BY DEF CreateBinding, VerifyBinding, DeleteBinding
<1>4. \A c : BySuggestion(c)' \subseteq BySuggestion(c)
  BY <1>1, <1>2 DEF BySuggestion, Existing, Live
<1>5. \A d \in Binding : binding[d].state # "NONE" =>
        binding'[d].state # "NONE" /\ binding'[d].of = binding[d].of
  BY <1>1, <1>2
<1>6. binding' \in [Binding -> BindingRow]
  BY <1>1, <1>2
<1> QED BY <1>3, <1>4, <1>5, <1>6, NoNewSuggested

(* A new suggestion: without a binding of this connection now, none of     *)
(* those it lists is of it.                                                *)
LEMMA Suggesting ==
  ASSUME BindingsInv, NEW s \in Suggestion, Suggest(s)
  PROVE  BindingsInv'
<1>1. PICK c \in Preferred : \E bound \in IF Existing(c) = {} THEN {"NONE"} ELSE Existing(c) :
        suggestion' = [suggestion EXCEPT ![s] =
          [state |-> "RECOMMENDED", of |-> c, existing |-> bound,
           ready |-> Tested(c) /\ ~Bound(c), print |-> ConfigPrint]]
  BY DEF Suggest
<1>2. PICK bound \in IF Existing(c) = {} THEN {"NONE"} ELSE Existing(c), ready \in BOOLEAN :
        suggestion' = [suggestion EXCEPT ![s] =
          [state |-> "RECOMMENDED", of |-> c, existing |-> bound,
           ready |-> ready, print |-> ConfigPrint]]
  BY <1>1
<1>3. c \in Connection
  BY DEF Preferred, Options
<1>4. bound \in Binding \cup {"NONE"} /\ (bound = "NONE" => Existing(c) = {})
  BY <1>2, ConnectionsAssumption DEF Existing
<1> DEFINE row == [state |-> "RECOMMENDED", of |-> c, existing |-> bound,
                   ready |-> ready, print |-> ConfigPrint]
<1>5. /\ row.state = "RECOMMENDED" /\ row.of = c /\ row.existing = bound /\ row.ready \in BOOLEAN
      /\ row.print.bindings = {<<b, binding[b].version>> : b \in {d \in Binding : Live(d)}}
  BY DEF ConfigPrint
<1>6. suggestion' = [suggestion EXCEPT ![s] = row]
  BY <1>2
<1> HIDE DEF row
<1>7. suggestion[s].state = "NONE" /\ UNCHANGED <<binding, applying>>
  BY DEF Suggest, NoSuggestion
<1>8. \A t \in Suggestion : suggestion'[t] = IF t = s THEN row ELSE suggestion[t]
  BY <1>6 DEF BindingsInv, RowsKept
<1>9. RowsKept'
  BY <1>3, <1>4, <1>5, <1>6, <1>7, <1>8 DEF BindingsInv, RowsKept
<1>10. PrintTells'
  <2>1. \A b \in Binding, v \in Nat : bound = "NONE" /\ <<b, v>> \in row.print.bindings =>
          binding[b].state # "NONE" /\ binding[b].of # c
    BY <1>4, <1>5 DEF Existing, Live
  <2> QED BY <1>5, <1>7, <1>8, <2>1 DEF BindingsInv, PrintTells
<1>11. \A d : BySuggestion(d)' = BySuggestion(d)
  BY <1>7 DEF BySuggestion, Existing, Live
<1>12. ApplierAlone' /\ AtMostOne'
  BY <1>7, <1>8, <1>11 DEF BindingsInv, RowsKept, ApplierAlone, AtMostOne
<1> QED BY <1>9, <1>10, <1>12 DEF BindingsInv

(* The fingerprint is what it was when the suggestion was made, so the     *)
(* connection is still without a binding.                                  *)
LEMMA Checking ==
  ASSUME BindingsInv, NEW s \in Suggestion, NEW a \in Applier, StartApply(a, s)
  PROVE  BindingsInv'
<1>1. /\ suggestion[s].state = "RECOMMENDED" /\ suggestion[s].print = ConfigPrint
      /\ applying' = [applying EXCEPT ![a] = s] /\ UNCHANGED <<binding, suggestion>>
      /\ \A e \in Applier : applying[e] = NotApplying
  BY DEF StartApply, Applicable, Unlocked
<1>2. suggestion[s].print.bindings = {<<b, binding[b].version>> : b \in {d \in Binding : Live(d)}}
  BY <1>1 DEF ConfigPrint
<1>3. suggestion[s].existing = "NONE" => BySuggestion(suggestion[s].of) = {}
  <2> SUFFICES ASSUME suggestion[s].existing = "NONE", NEW b \in BySuggestion(suggestion[s].of)
               PROVE  FALSE
    OBVIOUS
  <2>1. b \in Binding /\ Live(b) /\ binding[b].of = suggestion[s].of
    BY DEF BySuggestion, Existing
  <2>2. binding[b].version \in Nat
    BY <2>1 DEF BindingsInv, RowsKept, BindingRow
  <2>3. <<b, binding[b].version>> \in suggestion[s].print.bindings
    BY <1>2, <2>1
  <2> QED BY <1>1, <2>1, <2>2, <2>3 DEF BindingsInv, PrintTells
<1>4. \A d : BySuggestion(d)' = BySuggestion(d)
  BY <1>1 DEF BySuggestion, Existing, Live
<1>5. RowsKept' /\ PrintTells'
  BY <1>1 DEF BindingsInv, RowsKept, PrintTells
<1>6. \A e \in Applier : applying'[e] = IF e = a THEN s ELSE NotApplying
  BY <1>1 DEF BindingsInv, RowsKept
<1>7. ApplierAlone' /\ AtMostOne'
  BY <1>1, <1>3, <1>4, <1>6 DEF BindingsInv, ApplierAlone, AtMostOne
<1> QED BY <1>5, <1>7 DEF BindingsInv

(* An application binds what had no binding by suggestion, or only         *)
(* verifies the one there is.                                              *)
LEMMA Applying ==
  ASSUME BindingsInv, NEW a \in Applier, FinishApply(a)
  PROVE  BindingsInv'
<1> DEFINE s == applying[a]
           c == suggestion[s].of
<1>1. /\ s \in Suggestion /\ s # NotApplying
      /\ suggestion[s].state = "RECOMMENDED" /\ c \in Connection
      /\ suggestion[s].existing \in Binding \cup {"NONE"} /\ suggestion[s].ready \in BOOLEAN
      /\ suggestion[s].existing = "NONE" => BySuggestion(c) = {}
  <2>1. applying[a] # NotApplying
    BY DEF FinishApply
  <2>2. /\ s \in Suggestion /\ suggestion[s].state = "RECOMMENDED"
        /\ suggestion[s].existing = "NONE" => BySuggestion(c) = {}
    BY <2>1 DEF BindingsInv, RowsKept, ApplierAlone
  <2> HIDE DEF s, c
  <2>3. suggestion[s].state # "NONE"
    BY <2>2
  <2>4. /\ suggestion[s].of \in Connection /\ suggestion[s].ready \in BOOLEAN
        /\ suggestion[s].existing \in Binding \cup {"NONE"}
    BY <2>2, <2>3 DEF BindingsInv, RowsKept
  <2> QED BY <2>1, <2>2, <2>4 DEF s, c
<1>2. /\ applying' = [applying EXCEPT ![a] = NotApplying]
      /\ suggestion' = [suggestion EXCEPT ![s].state = "APPLIED"]
  BY DEF FinishApply
<1>3. \A e \in Applier : applying'[e] = NotApplying
  BY <1>1, <1>2 DEF BindingsInv, RowsKept, ApplierAlone
<1>4. PICK b \in Binding, row \in BindingRow :
        /\ binding' = [binding EXCEPT ![b] = row]
        /\ row.state # "NONE"
        /\ \/ /\ suggestion[s].existing = "NONE" /\ binding[b].state = "NONE" /\ row.of = c
           \/ /\ row.by = binding[b].by /\ row.of = binding[b].of
              /\ row.state = binding[b].state
  <2>0. binding \in [Binding -> BindingRow]
    BY DEF BindingsInv, RowsKept
  <2>1. CASE suggestion[s].existing = "NONE"
    <3>1. PICK b \in Binding : /\ binding[b].state = "NONE"
                               /\ binding' = [binding EXCEPT ![b] =
                                    NewBinding(c, "SUGGESTION", suggestion[s].ready)]
      BY <2>1 DEF FinishApply
    <3> DEFINE row == NewBinding(c, "SUGGESTION", suggestion[s].ready)
    <3>2. row \in BindingRow /\ row.state # "NONE" /\ row.of = c
      BY <1>1 DEF NewBinding, BindingRow
    <3> HIDE DEF row, s, c
    <3> QED BY <2>1, <3>1, <3>2 DEF row
  <2>2. CASE suggestion[s].existing # "NONE"
    <3> DEFINE b == suggestion[s].existing
               row == [binding[b] EXCEPT !.verified = TRUE, !.version = @ + 1]
    <3>1. b \in Binding /\ binding[b].state = "ACTIVE" /\ binding[b] \in BindingRow
      BY <1>1, <2>0, <2>2 DEF FinishApply, Live
    <3>2. row \in BindingRow /\ row.state = binding[b].state /\ row.by = binding[b].by
          /\ row.of = binding[b].of
      BY <3>1, Verified
    <3>3. \/ binding' = [binding EXCEPT ![b] = row]
          \/ binding' = [binding EXCEPT ![b] = binding[b]]
      BY <2>0, <2>2, <3>1 DEF FinishApply
    <3> HIDE DEF row, b, s, c
    <3> QED BY <3>1, <3>2, <3>3
  <2> QED BY <2>1, <2>2
<1> HIDE DEF s, c
<1>5. /\ binding \in [Binding -> BindingRow] /\ binding' \in [Binding -> BindingRow]
      /\ \A d \in Binding : binding'[d] = IF d = b THEN row ELSE binding[d]
  BY <1>4 DEF BindingsInv, RowsKept
<1>6. /\ DOMAIN suggestion' = Suggestion
      /\ \A t \in Suggestion : /\ suggestion'[t].of = suggestion[t].of
                               /\ suggestion'[t].existing = suggestion[t].existing
                               /\ suggestion'[t].print = suggestion[t].print
                               /\ t # s => suggestion'[t].state = suggestion[t].state
      /\ suggestion'[s].state = "APPLIED"
  BY <1>1, <1>2 DEF BindingsInv, RowsKept
<1>7. RowsKept'
  BY <1>1, <1>2, <1>5, <1>6 DEF BindingsInv, RowsKept
<1>8. \A d \in Binding : binding[d].state # "NONE" =>
        binding'[d].state # "NONE" /\ binding'[d].of = binding[d].of
  BY <1>4, <1>5
<1>9. PrintTells'
  BY <1>6, <1>8 DEF BindingsInv, PrintTells
<1>10. ApplierAlone'
  BY <1>3 DEF ApplierAlone
<1>11. \A x \in Connection : \A d \in BySuggestion(x)' :
         d \in BySuggestion(x) \/ (d = b /\ x = c /\ BySuggestion(c) = {})
  BY <1>1, <1>4, <1>5 DEF BySuggestion, Existing, Live
<1>12. AtMostOne'
  BY <1>11 DEF BindingsInv, AtMostOne
<1> QED BY <1>7, <1>9, <1>10, <1>12 DEF BindingsInv

LEMMA BindingsStep == BindingsInv /\ [ConnectionsNext]_configVars => BindingsInv'
<1> SUFFICES ASSUME BindingsInv, [ConnectionsNext]_configVars PROVE BindingsInv'
  OBVIOUS
<1>1. CASE UNCHANGED <<binding, suggestion, applying>>
  BY <1>1, BindingsUntouched
<1>2. ASSUME NEW a \in Applier, AbandonApply(a) PROVE BindingsInv'
  <2>1. UNCHANGED <<binding, suggestion>> /\ applying' = [applying EXCEPT ![a] = NotApplying]
    BY <1>2 DEF AbandonApply
  <2>2. \A e \in Applier : applying'[e] = IF e = a THEN NotApplying ELSE applying[e]
    BY <2>1 DEF BindingsInv, RowsKept
  <2>3. \A d : BySuggestion(d)' = BySuggestion(d)
    BY <2>1 DEF BySuggestion, Existing, Live
  <2>4. RowsKept' /\ PrintTells'
    BY <2>1 DEF BindingsInv, RowsKept, PrintTells
  <2>5. ApplierAlone' /\ AtMostOne'
    BY <2>1, <2>2, <2>3 DEF BindingsInv, ApplierAlone, AtMostOne
  <2> QED BY <2>4, <2>5 DEF BindingsInv
<1>3. CASE UNCHANGED configVars
  BY <1>1, <1>3 DEF configVars
<1>4. ASSUME UpdateAccount \/ UpdateAutomation \/ DeleteAccount \/ ReplaceMatrix
             \/ SaveResearchSchedule \/ RemoveResearchSchedule \/ SaveNewsSchedule
             \/ RemoveNewsSchedule
      PROVE  BindingsInv'
  BY <1>1, <1>4 DEF UpdateAccount, UpdateAutomation, DeleteAccount, ReplaceMatrix, SetSchedule,
     SaveResearchSchedule, RemoveResearchSchedule, SaveNewsSchedule, RemoveNewsSchedule
<1>5. ASSUME CreateCredential \/ ReplaceCredential \/ DeleteCredential \/ TestCredential
      PROVE  BindingsInv'
  BY <1>1, <1>5 DEF CreateCredential, ReplaceCredential, DeleteCredential, TestCredential
<1>6. ASSUME NEW c \in Connection,
             \/ CreateConnection(c) \/ UpdateConnection(c) \/ DeleteConnection(c)
             \/ \E t \in Tester : StartTest(t, c)
      PROVE  BindingsInv'
  BY <1>1, <1>6 DEF CreateConnection, UpdateConnection, DeleteConnection, StartTest
<1>7. ASSUME NEW t \in Tester, FinishTest(t) PROVE BindingsInv'
  BY <1>1, <1>7 DEF FinishTest
<1> QED BY <1>2, <1>3, <1>4, <1>5, <1>6, <1>7, OwnersBindings, Suggesting, Checking, Applying
        DEF ConnectionsNext

(* A set whose members are all the same has at most one.                   *)
LEMMA AtMostOneMember ==
  ASSUME NEW S, \A x, y \in S : x = y
  PROVE  Cardinality(S) <= 1
<1>1. CASE S = {}
  BY <1>1, FS_EmptySet
<1>2. CASE S # {}
  <2>1. PICK x : S = {x}
    BY <1>2
  <2> QED BY <2>1, FS_Singleton
<1> QED BY <1>1, <1>2

(* routes/provider_binding_assistance.py: suggestions bind a connection to *)
(* a slot once, however many requests apply them and whatever owners       *)
(* create, test and delete meanwhile: while it holds the row of the        *)
(* account, an application checks that the configuration is the one the    *)
(* suggestions were made for.                                              *)
THEOREM SuggestionsBindOnceEach == ConnectionsSpec => []SuggestionsBindOnce
<1>1. ConnectionsSpec => []BindingsInv
  BY BindingsInit, BindingsStep, PTL DEF ConnectionsSpec
<1>2. BindingsInv => SuggestionsBindOnce
  BY AtMostOneMember DEF BindingsInv, AtMostOne, SuggestionsBindOnce, BySuggestion
<1> QED BY <1>1, <1>2, PTL

----------------------------------------------------------------------------
ConnectionRow ==
  [state: {"NONE", "ACTIVE", "DISABLED", "DELETED"}, active: BOOLEAN, linked: BOOLEAN,
   health: {"UNTESTED", "HEALTHY", "FAILED"}, version: Nat]

(* What ConnectionsTypeOK leaves out of the rows, and the copy a test      *)
(* writes back.                                                            *)
ConfigTyped ==
  /\ profile \in [version: Nat, deleted: BOOLEAN, scheduled: SUBSET {"RESEARCH", "NEWS"}]
  /\ matrix \in [version: Nat, lane: BOOLEAN]
  /\ credential \in [state: {"NONE", "ACTIVE", "DELETED"}, envelope: BOOLEAN,
                     status: {"NONE", "UNTESTED", "ACTIVE", "INVALID", "DELETED"}]
  /\ connection \in [Connection -> ConnectionRow]
  /\ testing \in [Tester -> [id: Connection, read: ConnectionRow] \cup {NotTesting}]
  /\ \A s \in Suggestion : suggestion[s].state \in {"NONE", "RECOMMENDED", "APPLIED"}
  /\ edits \in 0..MaxEdits

LEMMA EditCounts == edits \in 0..MaxEdits /\ Edit => edits' \in 0..MaxEdits
BY ConnectionsAssumption DEF Edit

AccountRow == [version: Nat, deleted: BOOLEAN, scheduled: SUBSET {"RESEARCH", "NEWS"}]

LEMMA AccountRewritten ==
  ASSUME NEW row \in AccountRow, NEW on \in SUBSET {"RESEARCH", "NEWS"}
  PROVE  /\ [row EXCEPT !.version = @ + 1] \in AccountRow
         /\ [row EXCEPT !.version = @ + 1, !.scheduled = on] \in AccountRow
         /\ [row EXCEPT !.version = @ + 1, !.deleted = TRUE] \in AccountRow
<1> DEFINE one == [row EXCEPT !.version = @ + 1]
<1>1. one \in AccountRow
  BY DEF AccountRow
<1> HIDE DEF one
<1>2. [one EXCEPT !.scheduled = on] \in AccountRow /\ [one EXCEPT !.deleted = TRUE] \in AccountRow
  BY <1>1 DEF AccountRow
<1> QED BY <1>1, <1>2 DEF one

LEMMA AccountTypes ==
  ASSUME ConfigTyped,
         \/ UpdateAccount \/ UpdateAutomation \/ DeleteAccount \/ ReplaceMatrix
         \/ SaveResearchSchedule \/ RemoveResearchSchedule \/ SaveNewsSchedule
         \/ RemoveNewsSchedule
  PROVE  ConfigTyped'
<1>1. Edit /\ UNCHANGED <<credential, connection, testing, suggestion>>
  BY DEF UpdateAccount, UpdateAutomation, DeleteAccount, ReplaceMatrix, SetSchedule,
     SaveResearchSchedule, RemoveResearchSchedule, SaveNewsSchedule, RemoveNewsSchedule
<1>2. ASSUME NEW on \in SUBSET {"RESEARCH", "NEWS"}, SetSchedule(on) PROVE ConfigTyped'
  <2>1. profile' = [profile EXCEPT !.version = @ + 1, !.scheduled = on]
    BY <1>2 DEF SetSchedule
  <2>2. profile' \in AccountRow
    BY <2>1, AccountRewritten DEF ConfigTyped, AccountRow
  <2> QED BY <1>1, <1>2, <2>2, EditCounts DEF ConfigTyped, SetSchedule, AccountRow
<1>3. CASE SaveResearchSchedule \/ RemoveResearchSchedule \/ SaveNewsSchedule \/ RemoveNewsSchedule
  <2>1. profile.scheduled \subseteq {"RESEARCH", "NEWS"}
    BY DEF ConfigTyped
  <2>2. \E on \in SUBSET {"RESEARCH", "NEWS"} : SetSchedule(on)
    BY <1>3, <2>1 DEF SaveResearchSchedule, RemoveResearchSchedule, SaveNewsSchedule,
       RemoveNewsSchedule
  <2> QED BY <1>2, <2>2
<1>4. CASE UpdateAccount \/ UpdateAutomation
  BY <1>1, <1>4, EditCounts DEF ConfigTyped, UpdateAccount, UpdateAutomation
<1>5. CASE DeleteAccount
  <2>1. profile' = [profile EXCEPT !.version = @ + 1, !.deleted = TRUE]
    BY <1>5 DEF DeleteAccount
  <2>2. profile' \in AccountRow
    BY <2>1, AccountRewritten DEF ConfigTyped, AccountRow
  <2> QED BY <1>1, <1>5, <2>2, EditCounts DEF ConfigTyped, DeleteAccount, AccountRow
<1>6. CASE ReplaceMatrix
  BY <1>1, <1>6, EditCounts DEF ConfigTyped, ReplaceMatrix
<1> QED BY <1>3, <1>4, <1>5, <1>6

(* A connection row with some of its fields rewritten.                     *)
LEMMA RowsRewritten ==
  ASSUME NEW row \in ConnectionRow
  PROVE  /\ [row EXCEPT !.health = "UNTESTED", !.version = @ + 1] \in ConnectionRow
         /\ \A state \in {"NONE", "ACTIVE", "DISABLED", "DELETED"}, health \in {"HEALTHY", "FAILED"} :
              [row EXCEPT !.state = state, !.health = health, !.version = @ + 1] \in ConnectionRow
         /\ [row EXCEPT !.state = "DELETED", !.active = FALSE, !.version = @ + 1] \in ConnectionRow
<1>1. ASSUME NEW r \in ConnectionRow
      PROVE  /\ [r EXCEPT !.version = @ + 1] \in ConnectionRow
             /\ [r EXCEPT !.active = FALSE] \in ConnectionRow
  <2>1. [r EXCEPT !.version = @ + 1] \in ConnectionRow
    BY DEF ConnectionRow
  <2>2. [r EXCEPT !.active = FALSE] \in ConnectionRow
    BY DEF ConnectionRow
  <2> QED BY <2>1, <2>2
<1>2. ASSUME NEW r \in ConnectionRow, NEW health \in {"UNTESTED", "HEALTHY", "FAILED"}
      PROVE  [r EXCEPT !.health = health] \in ConnectionRow
  BY DEF ConnectionRow
<1>3. ASSUME NEW r \in ConnectionRow, NEW state \in {"NONE", "ACTIVE", "DISABLED", "DELETED"}
      PROVE  [r EXCEPT !.state = state] \in ConnectionRow
  BY DEF ConnectionRow
<1>4. [row EXCEPT !.health = "UNTESTED", !.version = @ + 1] \in ConnectionRow
  <2> DEFINE one == [row EXCEPT !.health = "UNTESTED"]
  <2>1. one \in ConnectionRow
    BY <1>2
  <2> HIDE DEF one
  <2>2. [one EXCEPT !.version = @ + 1] \in ConnectionRow
    BY <1>1, <2>1
  <2> QED BY <2>2 DEF one
<1>5. ASSUME NEW state \in {"NONE", "ACTIVE", "DISABLED", "DELETED"}, NEW health \in {"HEALTHY", "FAILED"}
      PROVE  [row EXCEPT !.state = state, !.health = health, !.version = @ + 1] \in ConnectionRow
  <2> DEFINE one == [row EXCEPT !.state = state]
             two == [one EXCEPT !.health = health]
  <2>1. one \in ConnectionRow
    BY <1>3
  <2> HIDE DEF one
  <2>2. two \in ConnectionRow
    BY <1>2, <2>1
  <2> HIDE DEF two
  <2>3. [two EXCEPT !.version = @ + 1] \in ConnectionRow
    BY <1>1, <2>2
  <2> QED BY <2>3 DEF one, two
<1>6. [row EXCEPT !.state = "DELETED", !.active = FALSE, !.version = @ + 1] \in ConnectionRow
  <2> DEFINE one == [row EXCEPT !.state = "DELETED"]
             two == [one EXCEPT !.active = FALSE]
  <2>1. one \in ConnectionRow
    BY <1>3
  <2> HIDE DEF one
  <2>2. two \in ConnectionRow
    BY <1>1, <2>1
  <2> HIDE DEF two
  <2>3. [two EXCEPT !.version = @ + 1] \in ConnectionRow
    BY <1>1, <2>2
  <2> QED BY <2>3 DEF one, two
<1> QED BY <1>4, <1>5, <1>6

LEMMA CredentialTypes ==
  ASSUME ConfigTyped, CreateCredential \/ ReplaceCredential \/ DeleteCredential \/ TestCredential
  PROVE  ConfigTyped'
<1>1. Edit /\ UNCHANGED <<profile, matrix, testing, suggestion>>
  BY DEF CreateCredential, ReplaceCredential, DeleteCredential, TestCredential
<1>2. credential' \in [state: {"NONE", "ACTIVE", "DELETED"}, envelope: BOOLEAN,
                       status: {"NONE", "UNTESTED", "ACTIVE", "INVALID", "DELETED"}]
  <2>1. CASE CreateCredential \/ DeleteCredential
    <3>1. PICK state \in {"ACTIVE", "DELETED"}, status \in {"UNTESTED", "DELETED"},
               envelope \in BOOLEAN :
            credential' = [state |-> state, status |-> status, envelope |-> envelope]
      BY <2>1 DEF CreateCredential, DeleteCredential
    <3> QED BY <3>1
  <2>2. CASE ReplaceCredential
    <3> DEFINE one == [credential EXCEPT !.status = "UNTESTED"]
    <3>1. one \in [state: {"NONE", "ACTIVE", "DELETED"}, envelope: BOOLEAN,
                   status: {"NONE", "UNTESTED", "ACTIVE", "INVALID", "DELETED"}]
      BY DEF ConfigTyped
    <3>2. credential' = [one EXCEPT !.envelope = TRUE]
      BY <2>2 DEF ReplaceCredential
    <3> HIDE DEF one
    <3> QED BY <3>1, <3>2
  <2>3. CASE TestCredential
    BY <2>3 DEF ConfigTyped, TestCredential
  <2> QED BY <2>1, <2>2, <2>3
<1>3. connection' \in [Connection -> ConnectionRow]
  <2>0. connection \in [Connection -> ConnectionRow]
    BY DEF ConfigTyped
  <2>1. CASE CreateCredential \/ TestCredential
    BY <2>0, <2>1 DEF CreateCredential, TestCredential
  <2>2. CASE ReplaceCredential
    <3>1. \A c \in Connection :
            [connection[c] EXCEPT !.health = "UNTESTED", !.version = @ + 1] \in ConnectionRow
      BY <2>0, RowsRewritten
    <3> QED BY <2>0, <2>2, <3>1 DEF ReplaceCredential
  <2>3. CASE DeleteCredential
    <3>1. \A c \in Connection : connection[c].version + 1 \in Nat
      BY <2>0 DEF ConnectionRow
    <3>2. \A c \in Connection :
            [state |-> "DISABLED", active |-> FALSE, linked |-> FALSE,
             health |-> "UNTESTED", version |-> connection[c].version + 1] \in ConnectionRow
      BY <3>1 DEF ConnectionRow
    <3> QED BY <2>0, <2>3, <3>2 DEF DeleteCredential
  <2> QED BY <2>1, <2>2, <2>3
<1> QED BY <1>1, <1>2, <1>3, EditCounts DEF ConfigTyped

LEMMA ConnectionTypes ==
  ASSUME ConfigTyped, NEW c \in Connection,
         CreateConnection(c) \/ UpdateConnection(c) \/ DeleteConnection(c)
  PROVE  ConfigTyped'
<1>0. connection \in [Connection -> ConnectionRow]
  BY DEF ConfigTyped
<1>1. Edit /\ UNCHANGED <<profile, matrix, credential, testing, suggestion>>
  BY DEF CreateConnection, UpdateConnection, DeleteConnection
<1>2. PICK row \in ConnectionRow : connection' = [connection EXCEPT ![c] = row]
  <2>1. CASE DeleteConnection(c)
    <3> DEFINE row == [connection[c] EXCEPT !.state = "DELETED", !.active = FALSE,
                                            !.version = @ + 1]
    <3>1. row \in ConnectionRow
      BY <1>0, RowsRewritten
    <3>2. connection' = [connection EXCEPT ![c] = row]
      BY <1>0, <2>1 DEF DeleteConnection
    <3> HIDE DEF row
    <3> QED BY <3>1, <3>2
  <2>2. CASE CreateConnection(c) \/ UpdateConnection(c)
    <3>1. PICK active \in BOOLEAN, linked \in BOOLEAN, version \in {1, connection[c].version + 1} :
            connection' = [connection EXCEPT ![c] =
              [state |-> IF active THEN "ACTIVE" ELSE "DISABLED", active |-> active,
               linked |-> linked, health |-> "UNTESTED", version |-> version]]
      BY <1>0, <2>2 DEF CreateConnection, UpdateConnection
    <3>2. version \in Nat
      BY <1>0, <3>1 DEF ConnectionRow
    <3> DEFINE row == [state |-> IF active THEN "ACTIVE" ELSE "DISABLED", active |-> active,
                       linked |-> linked, health |-> "UNTESTED", version |-> version]
    <3>3. row \in ConnectionRow
      BY <3>2 DEF ConnectionRow
    <3>4. connection' = [connection EXCEPT ![c] = row]
      BY <3>1
    <3> HIDE DEF row
    <3> QED BY <3>3, <3>4
  <2> QED BY <2>1, <2>2
<1>3. connection' \in [Connection -> ConnectionRow]
  BY <1>0, <1>2
<1> QED BY <1>1, <1>3, EditCounts DEF ConfigTyped

(* A test keeps the row it read, and writes it back.                       *)
LEMMA TestTypes ==
  ASSUME ConfigTyped, NEW t \in Tester, (\E c \in Connection : StartTest(t, c)) \/ FinishTest(t)
  PROVE  ConfigTyped'
<1>0. /\ connection \in [Connection -> ConnectionRow]
      /\ testing \in [Tester -> [id: Connection, read: ConnectionRow] \cup {NotTesting}]
      /\ credential \in [state: {"NONE", "ACTIVE", "DELETED"}, envelope: BOOLEAN,
                         status: {"NONE", "UNTESTED", "ACTIVE", "INVALID", "DELETED"}]
  BY DEF ConfigTyped
<1>1. CASE \E c \in Connection : StartTest(t, c)
  <2>1. PICK c \in Connection : StartTest(t, c)
    BY <1>1
  <2>2. testing' \in [Tester -> [id: Connection, read: ConnectionRow] \cup {NotTesting}]
    BY <1>0, <2>1 DEF StartTest
  <2> QED BY <2>1, <2>2 DEF StartTest, ConfigTyped
<1>2. CASE FinishTest(t)
  <2> DEFINE c == testing[t].id
             read == testing[t].read
  <2>1. c \in Connection /\ read \in ConnectionRow
    BY <1>0, <1>2 DEF FinishTest
  <2>2. PICK health \in {"HEALTHY", "FAILED"} :
          /\ connection' = [connection EXCEPT ![c] =
               [read EXCEPT !.state = connection[c].state, !.health = health,
                            !.version = @ + 1]]
          /\ credential' = IF read.linked
               THEN [credential EXCEPT !.status = IF health = "HEALTHY" THEN "ACTIVE" ELSE "INVALID"]
               ELSE credential
    BY <1>2 DEF FinishTest
  <2> HIDE DEF c, read
  <2>3. connection' \in [Connection -> ConnectionRow]
    <3>1. connection[c].state \in {"NONE", "ACTIVE", "DISABLED", "DELETED"}
      BY <1>0, <2>1 DEF ConnectionRow
    <3>2. [read EXCEPT !.state = connection[c].state, !.health = health,
                       !.version = @ + 1] \in ConnectionRow
      BY <2>1, <3>1, RowsRewritten
    <3> QED BY <1>0, <2>2, <3>2
  <2>4. credential' \in [state: {"NONE", "ACTIVE", "DELETED"}, envelope: BOOLEAN,
                         status: {"NONE", "UNTESTED", "ACTIVE", "INVALID", "DELETED"}]
    BY <1>0, <2>2
  <2>5. testing' \in [Tester -> [id: Connection, read: ConnectionRow] \cup {NotTesting}]
    BY <1>0, <1>2 DEF FinishTest
  <2> QED BY <1>2, <2>3, <2>4, <2>5, EditCounts DEF FinishTest, ConfigTyped
<1> QED BY <1>1, <1>2

(* What is asked about bindings and suggestions.                           *)
LEMMA SuggestionTypes ==
  ASSUME BindingsInv, ConfigTyped,
         \/ \E b \in Binding : \/ VerifyBinding(b) \/ DeleteBinding(b)
                               \/ \E c \in Connection : CreateBinding(b, c)
         \/ \E s \in Suggestion : Suggest(s) \/ \E a \in Applier : StartApply(a, s)
         \/ \E a \in Applier : FinishApply(a) \/ AbandonApply(a)
  PROVE  ConfigTyped'
<1>1. UNCHANGED <<profile, matrix, credential, connection, testing>>
  BY DEF CreateBinding, VerifyBinding, DeleteBinding, Suggest, StartApply, FinishApply, AbandonApply
<1>2. edits' \in 0..MaxEdits
  BY EditCounts DEF ConfigTyped, CreateBinding, VerifyBinding, DeleteBinding, Suggest, StartApply,
     FinishApply, AbandonApply
<1>3. \A r \in Suggestion : suggestion'[r].state \in {"NONE", "RECOMMENDED", "APPLIED"}
  <2>0. DOMAIN suggestion = Suggestion
        /\ \A r \in Suggestion : suggestion[r].state \in {"NONE", "RECOMMENDED", "APPLIED"}
    BY DEF BindingsInv, RowsKept, ConfigTyped
  <2>1. CASE UNCHANGED suggestion
    BY <2>0, <2>1
  <2>2. ASSUME NEW s \in Suggestion, Suggest(s)
        PROVE  \A r \in Suggestion : suggestion'[r].state \in {"NONE", "RECOMMENDED", "APPLIED"}
    <3>1. PICK c, bound :
            suggestion' = [suggestion EXCEPT ![s] =
              [state |-> "RECOMMENDED", of |-> c, existing |-> bound,
               ready |-> Tested(c) /\ ~Bound(c), print |-> ConfigPrint]]
      BY <2>2 DEF Suggest
    <3>2. PICK ready \in BOOLEAN :
            suggestion' = [suggestion EXCEPT ![s] =
              [state |-> "RECOMMENDED", of |-> c, existing |-> bound,
               ready |-> ready, print |-> ConfigPrint]]
      BY <3>1
    <3> QED BY <2>0, <3>2
  <2>3. ASSUME NEW a \in Applier, FinishApply(a)
        PROVE  \A r \in Suggestion : suggestion'[r].state \in {"NONE", "RECOMMENDED", "APPLIED"}
    <3> DEFINE r == applying[a]
    <3>1. suggestion' = [suggestion EXCEPT ![r].state = "APPLIED"]
      BY <2>3 DEF FinishApply
    <3> QED BY <2>0, <3>1
  <2> QED BY <2>1, <2>2, <2>3 DEF CreateBinding, VerifyBinding, DeleteBinding, StartApply,
             AbandonApply
<1> QED BY <1>1, <1>2, <1>3 DEF ConfigTyped

LEMMA ConfigStep == BindingsInv /\ ConfigTyped /\ [ConnectionsNext]_configVars => ConfigTyped'
<1> SUFFICES ASSUME BindingsInv, ConfigTyped, [ConnectionsNext]_configVars PROVE ConfigTyped'
  OBVIOUS
<1>1. CASE UNCHANGED configVars
  BY <1>1 DEF configVars, ConfigTyped
<1>2. CASE \/ \E b \in Binding : \/ VerifyBinding(b) \/ DeleteBinding(b)
                                 \/ \E c \in Connection : CreateBinding(b, c)
           \/ \E s \in Suggestion : Suggest(s) \/ \E a \in Applier : StartApply(a, s)
           \/ \E a \in Applier : FinishApply(a) \/ AbandonApply(a)
  BY <1>2, SuggestionTypes
<1>3. CASE \E t \in Tester : FinishTest(t) \/ \E c \in Connection : StartTest(t, c)
  BY <1>3, TestTypes
<1> QED BY <1>1, <1>2, <1>3, AccountTypes, CredentialTypes, ConnectionTypes DEF ConnectionsNext

(* Type invariant of the configuration rows.                               *)
THEOREM ConnectionsTypeCorrect == ConnectionsSpec => []ConnectionsTypeOK
<1>1. ConnectionsInit => ConfigTyped
  BY ConnectionsAssumption
     DEF ConnectionsInit, ConfigTyped, NoConnection, ConnectionRow, NoSuggestion
<1>2. ConnectionsSpec => [](BindingsInv /\ ConfigTyped)
  BY <1>1, BindingsInit, BindingsStep, ConfigStep, PTL DEF ConnectionsSpec
<1>3. BindingsInv /\ ConfigTyped => ConnectionsTypeOK
  BY DEF BindingsInv, RowsKept, BindingRow, ConfigTyped, ConnectionRow, ConnectionsTypeOK
<1> QED BY <1>2, <1>3, PTL

----------------------------------------------------------------------------
(***************************************************************************)
(* Knowledge: every key asked for pays for one source of a video, counted  *)
(* with the fetches and scrapes that may still make one.                   *)
(***************************************************************************)

SearchRow == [state: {"NONE", "SEARCHED", "PARTIAL", "FAILED", "SUCCEEDED"},
              videos: SUBSET Video, failed: SUBSET Video]

KnowledgeTyped ==
  /\ KnowledgeTypeOK
  /\ DOMAIN finding = Finder
  /\ \A f \in Finder : finding[f] # NotFinding =>
       /\ finding[f].key \in offered /\ finding[f].found \subseteq Video
       /\ finding[f].stage = "FETCHING" => finding[f].wanted \subseteq finding[f].found
  /\ DOMAIN fetching = Fetcher
  /\ \A w \in Fetcher : fetching[w] # NotFetching =>
       fetching[w].id \in Search /\ fetching[w].wanted \subseteq search[fetching[w].id].videos
  /\ saving # Idle => saving.text \in Nat /\ saving.model \in Nat
  /\ indexing # Idle => indexing.copy \in Nat /\ indexing.model \in Nat
  /\ IsFiniteSet(offered)

(* Whoever has videos in hand holds them alone: a discovery its connection *)
(* and a transcript request its run.  What a run has seen is reserved.     *)
HeldAlone ==
  /\ \A f, g \in Finder :
       finding[f] # NotFinding /\ finding[g] # NotFinding /\ finding[f].key = finding[g].key
         => f = g
  /\ \A w, x \in Fetcher :
       fetching[w] # NotFetching /\ fetching[x] # NotFetching /\ fetching[w].id = fetching[x].id
         => w = x
  /\ \A q \in Search : search[q].failed \subseteq search[q].videos
                       /\ search[q].videos \subseteq reserved

(* The discoveries that found a video, the runs that list it, and those    *)
(* that are about to make a source of it.                                  *)
Finders(v) == {f \in Finder : finding[f] # NotFinding /\ v \in finding[f].found}
RunsOf(v) == {q \in Search : v \in search[q].videos}
Scraping(v) ==
  {f \in Finder : /\ finding[f] # NotFinding /\ finding[f].stage = "FETCHING"
                  /\ v \in finding[f].wanted}
Fetching(v) == {w \in Fetcher : fetching[w] # NotFetching /\ v \in fetching[w].wanted}

(* No more discoveries find a video than there ever were connections, and  *)
(* none finds it once its run is stored ...                                *)
FoundOnce ==
  \A v \in Video : /\ IsFiniteSet(Finders(v)) /\ IsFiniteSet(RunsOf(v))
                   /\ Cardinality(Finders(v)) + Cardinality(RunsOf(v)) <= Cardinality(offered)

(* ... so that no more sources of it are made.                             *)
MadeOnce ==
  \A v \in Video :
    /\ IsFiniteSet(Scraping(v)) /\ IsFiniteSet(Fetching(v))
    /\ live[v] + Cardinality(Scraping(v)) + Cardinality(Fetching(v)) <= Cardinality(offered)

KnowledgeInv == KnowledgeTyped /\ HeldAlone /\ FoundOnce /\ MadeOnce

----------------------------------------------------------------------------
LEMMA KnowledgeStart == KnowledgeInit => KnowledgeInv
<1> SUFFICES ASSUME KnowledgeInit PROVE KnowledgeInv
  OBVIOUS
<1>1. KnowledgeTyped
  BY FS_EmptySet, KnowledgeAssumption DEF KnowledgeInit, KnowledgeTyped, KnowledgeTypeOK, NoSearch
<1>2. HeldAlone
  BY DEF KnowledgeInit, HeldAlone, NoSearch
<1>3. \A v \in Video : Finders(v) = {} /\ RunsOf(v) = {} /\ Scraping(v) = {} /\ Fetching(v) = {}
  BY DEF KnowledgeInit, Finders, RunsOf, Scraping, Fetching, NoSearch
<1>4. FoundOnce /\ MadeOnce
  BY <1>3, FS_EmptySet DEF KnowledgeInit, FoundOnce, MadeOnce
<1> QED BY <1>1, <1>2, <1>4 DEF KnowledgeInv

(* As many hold something as there are things to hold, if each holds one   *)
(* alone.                                                                  *)
LEMMA OneHolderEach ==
  ASSUME NEW S, NEW T, NEW h \in [S -> T], IsFiniteSet(T),
         \A x, y \in S : h[x] = h[y] => x = y
  PROVE  IsFiniteSet(S) /\ Cardinality(S) <= Cardinality(T)
<1>1. h \in Injection(S, T)
  BY DEF Injection, IsInjective
<1> QED BY <1>1, FS_Injection

(* Requests hold different runs that list what they want.                  *)
LEMMA RequestsAreOfRuns ==
  ASSUME KnowledgeInv, NEW v \in Video
  PROVE  Cardinality(Fetching(v)) <= Cardinality(RunsOf(v))
<1> DEFINE h == [w \in Fetching(v) |-> fetching[w].id]
<1>1. h \in [Fetching(v) -> RunsOf(v)]
  BY DEF KnowledgeInv, KnowledgeTyped, Fetching, RunsOf
<1>2. \A w, x \in Fetching(v) : h[w] = h[x] => w = x
  BY DEF KnowledgeInv, HeldAlone, Fetching
<1>3. IsFiniteSet(RunsOf(v))
  BY DEF KnowledgeInv, FoundOnce
<1> QED BY <1>1, <1>2, <1>3, OneHolderEach

LEMMA DiscoveriesAreOfKeys ==
  ASSUME KnowledgeTyped, HeldAlone, NEW v \in Video
  PROVE  IsFiniteSet(Finders(v)) /\ Cardinality(Finders(v)) <= Cardinality(offered)
<1> DEFINE h == [f \in Finders(v) |-> finding[f].key]
<1>1. h \in [Finders(v) -> offered]
  BY DEF KnowledgeTyped, Finders
<1>2. \A f, g \in Finders(v) : h[f] = h[g] => f = g
  BY DEF HeldAlone, Finders
<1>3. IsFiniteSet(offered)
  BY DEF KnowledgeTyped
<1> QED BY <1>1, <1>2, <1>3, OneHolderEach

(* Nothing about a video changes but the connections there ever were.      *)
LEMMA VideosStay ==
  ASSUME KnowledgeInv, UNCHANGED <<finding, search, fetching, reserved>>,
         KnowledgeTypeOK', IsFiniteSet(offered'), offered \subseteq offered',
         \A v \in Video : live'[v] <= live[v],
         saving' # Idle => saving'.text \in Nat /\ saving'.model \in Nat,
         indexing' # Idle => indexing'.copy \in Nat /\ indexing'.model \in Nat
  PROVE  KnowledgeInv'
<1>1. KnowledgeTyped'
  BY DEF KnowledgeInv, KnowledgeTyped
<1>2. HeldAlone'
  BY DEF KnowledgeInv, HeldAlone
<1>3. Cardinality(offered) <= Cardinality(offered') /\ Cardinality(offered) \in Nat
      /\ Cardinality(offered') \in Nat
  BY FS_Subset, FS_CardinalityType DEF KnowledgeInv, KnowledgeTyped
<1>4. ASSUME NEW v \in Video
      PROVE  /\ Finders(v)' = Finders(v) /\ RunsOf(v)' = RunsOf(v)
             /\ Scraping(v)' = Scraping(v) /\ Fetching(v)' = Fetching(v)
  BY DEF Finders, RunsOf, Scraping, Fetching
<1>5. FoundOnce'
  <2> SUFFICES ASSUME NEW v \in Video
               PROVE  /\ IsFiniteSet(Finders(v)') /\ IsFiniteSet(RunsOf(v)')
                      /\ Cardinality(Finders(v)') + Cardinality(RunsOf(v)') <= Cardinality(offered')
    BY DEF FoundOnce
  <2>1. /\ IsFiniteSet(Finders(v)) /\ IsFiniteSet(RunsOf(v))
        /\ Cardinality(Finders(v)) + Cardinality(RunsOf(v)) <= Cardinality(offered)
    BY DEF KnowledgeInv, FoundOnce
  <2>2. Cardinality(Finders(v)) \in Nat /\ Cardinality(RunsOf(v)) \in Nat
    BY <2>1, FS_CardinalityType
  <2> QED BY <1>3, <1>4, <2>1, <2>2
<1>6. MadeOnce'
  <2> SUFFICES ASSUME NEW v \in Video
               PROVE  /\ IsFiniteSet(Scraping(v)') /\ IsFiniteSet(Fetching(v)')
                      /\ live'[v] + Cardinality(Scraping(v)') + Cardinality(Fetching(v)')
                           <= Cardinality(offered')
    BY DEF MadeOnce
  <2>1. /\ IsFiniteSet(Scraping(v)) /\ IsFiniteSet(Fetching(v))
        /\ live[v] + Cardinality(Scraping(v)) + Cardinality(Fetching(v)) <= Cardinality(offered)
    BY DEF KnowledgeInv, MadeOnce
  <2>2. Cardinality(Scraping(v)) \in Nat /\ Cardinality(Fetching(v)) \in Nat
    BY <2>1, FS_CardinalityType
  <2>3. live[v] \in Nat /\ live'[v] \in Nat /\ live'[v] <= live[v]
    BY DEF KnowledgeInv, KnowledgeTyped, KnowledgeTypeOK
  <2> QED BY <1>3, <1>4, <2>1, <2>2, <2>3
<1> QED BY <1>1, <1>2, <1>5, <1>6 DEF KnowledgeInv

(* A discovery finds what no run has seen, under a connection nobody uses. *)
LEMMA Discovering ==
  ASSUME KnowledgeInv, NEW f \in Finder, NEW k \in Key, Discover(f, k)
  PROVE  KnowledgeInv'
<1>1. PICK found \in SUBSET (Video \ Seen) :
        finding' = [finding EXCEPT ![f] = [stage |-> "FOUND", key |-> k, found |-> found]]
  BY DEF Discover, BeginDiscovery
<1> DEFINE row == [stage |-> "FOUND", key |-> k, found |-> found]
<1>2. row.stage = "FOUND" /\ row.key = k /\ row.found = found /\ row # NotFinding
  BY DEF NotFinding
<1>3. \A g \in Finder : finding'[g] = IF g = f THEN row ELSE finding[g]
  BY <1>1 DEF KnowledgeInv, KnowledgeTyped
<1>4. DOMAIN finding' = Finder
  BY <1>1 DEF KnowledgeInv, KnowledgeTyped
<1> HIDE DEF row
<1>5. /\ UNCHANGED <<usable, offered, reserved, search, fetching, live, documentVars, changes>>
      /\ finding[f] = NotFinding /\ k \in usable
      /\ \A g \in Finder : finding[g] # NotFinding => finding[g].key # k
  BY DEF Discover, BeginDiscovery, InUse
<1>6. KnowledgeTypeOK' /\ k \in offered
  BY <1>5 DEF KnowledgeInv, KnowledgeTyped, KnowledgeTypeOK, documentVars
<1>7. KnowledgeTyped'
  <2>1. found \subseteq Video
    OBVIOUS
  <2> QED BY <1>2, <1>3, <1>4, <1>5, <1>6, <2>1 DEF KnowledgeInv, KnowledgeTyped, documentVars
<1>8. HeldAlone'
  BY <1>2, <1>3, <1>5 DEF KnowledgeInv, HeldAlone
<1>9. FoundOnce'
  <2> SUFFICES ASSUME NEW v \in Video
               PROVE  /\ IsFiniteSet(Finders(v)') /\ IsFiniteSet(RunsOf(v)')
                      /\ Cardinality(Finders(v)') + Cardinality(RunsOf(v)') <= Cardinality(offered')
    BY DEF FoundOnce
  <2>1. RunsOf(v)' = RunsOf(v)
    BY <1>5 DEF RunsOf
  <2>2. CASE v \notin found
    <3>1. Finders(v)' = Finders(v)
      BY <1>2, <1>3, <1>5, <2>2 DEF Finders
    <3> QED BY <1>5, <2>1, <3>1 DEF KnowledgeInv, FoundOnce
  <2>3. CASE v \in found
    <3>1. RunsOf(v) = {}
      BY <2>3 DEF RunsOf, Seen, KnowledgeInv, HeldAlone
    <3> DEFINE h == [g \in Finders(v)' |-> finding'[g].key]
    <3>2. h \in [Finders(v)' -> offered']
      BY <1>7 DEF KnowledgeTyped, Finders
    <3>3. \A g, e \in Finders(v)' : h[g] = h[e] => g = e
      BY <1>8 DEF HeldAlone, Finders
    <3>4. IsFiniteSet(offered')
      BY <1>7 DEF KnowledgeTyped
    <3> HIDE DEF h
    <3>5. IsFiniteSet(Finders(v)') /\ Cardinality(Finders(v)') <= Cardinality(offered')
      BY <3>2, <3>3, <3>4, OneHolderEach
    <3>6. Cardinality(Finders(v)') \in Nat /\ Cardinality(offered') \in Nat
      BY <3>4, <3>5, FS_CardinalityType
    <3> QED BY <2>1, <3>1, <3>5, <3>6, FS_EmptySet
  <2> QED BY <2>2, <2>3
<1>10. MadeOnce'
  <2> SUFFICES ASSUME NEW v \in Video
               PROVE  Scraping(v)' = Scraping(v) /\ Fetching(v)' = Fetching(v)
    BY <1>5 DEF KnowledgeInv, MadeOnce
  <2> QED BY <1>2, <1>3, <1>5 DEF Scraping, Fetching
<1> QED BY <1>7, <1>8, <1>9, <1>10 DEF KnowledgeInv

(* A discovery fetches what has no source yet: all who fetch the video     *)
(* then have found it, or hold a run that lists it.                        *)
LEMMA Scrape ==
  ASSUME KnowledgeInv, NEW f \in Finder, FetchFound(f)
  PROVE  KnowledgeInv'
<1> DEFINE row == [stage |-> "FETCHING", key |-> finding[f].key, found |-> finding[f].found,
                   wanted |-> finding[f].found \ Ingested]
<1>1. /\ row.stage = "FETCHING" /\ row.key = finding[f].key /\ row.found = finding[f].found
      /\ row.wanted = finding[f].found \ Ingested /\ row # NotFinding
  BY DEF NotFinding
<1>2. finding' = [finding EXCEPT ![f] = row]
  BY DEF FetchFound, KnowledgeInv, KnowledgeTyped
<1> HIDE DEF row
<1>3. DOMAIN finding' = Finder /\ \A g \in Finder : finding'[g] = IF g = f THEN row ELSE finding[g]
  BY <1>2 DEF KnowledgeInv, KnowledgeTyped
<1>4. /\ UNCHANGED <<usable, offered, reserved, search, fetching, live, documentVars, changes>>
      /\ finding[f] # NotFinding /\ finding[f].stage = "FOUND"
  BY DEF FetchFound, NotFinding
<1>5. KnowledgeTyped'
  <2>1. KnowledgeTypeOK'
    BY <1>4 DEF KnowledgeInv, KnowledgeTyped, KnowledgeTypeOK, documentVars
  <2> QED BY <1>1, <1>3, <1>4, <2>1 DEF KnowledgeInv, KnowledgeTyped, documentVars
<1>6. HeldAlone'
  BY <1>1, <1>3, <1>4 DEF KnowledgeInv, HeldAlone
<1>7. ASSUME NEW v \in Video PROVE Finders(v)' = Finders(v) /\ RunsOf(v)' = RunsOf(v)
  BY <1>1, <1>3, <1>4 DEF Finders, RunsOf
<1>8. FoundOnce'
  BY <1>4, <1>7 DEF KnowledgeInv, FoundOnce
<1>9. MadeOnce'
  <2> SUFFICES ASSUME NEW v \in Video
               PROVE  /\ IsFiniteSet(Scraping(v)') /\ IsFiniteSet(Fetching(v)')
                      /\ live'[v] + Cardinality(Scraping(v)') + Cardinality(Fetching(v)')
                           <= Cardinality(offered')
    BY DEF MadeOnce
  <2>1. Fetching(v)' = Fetching(v)
    BY <1>4 DEF Fetching
  <2>2. CASE v \notin row.wanted
    <3>1. Scraping(v)' = Scraping(v)
      BY <1>1, <1>3, <1>4, <2>2 DEF Scraping
    <3> QED BY <1>4, <2>1, <3>1 DEF KnowledgeInv, MadeOnce
  <2>3. CASE v \in row.wanted
    <3>1. live[v] = 0
      BY <1>1, <2>3 DEF Ingested, KnowledgeInv, KnowledgeTyped, KnowledgeTypeOK
    <3>2. Scraping(v)' \subseteq Finders(v)
      BY <1>1, <1>3, <1>4, <1>5, <1>7 DEF Scraping, Finders, KnowledgeTyped
    <3>3. IsFiniteSet(Finders(v)) /\ IsFiniteSet(Fetching(v)) /\ IsFiniteSet(RunsOf(v))
          /\ Cardinality(Finders(v)) + Cardinality(RunsOf(v)) <= Cardinality(offered)
          /\ IsFiniteSet(offered)
      BY DEF KnowledgeInv, FoundOnce, MadeOnce, KnowledgeTyped
    <3>4. IsFiniteSet(Scraping(v)') /\ Cardinality(Scraping(v)') <= Cardinality(Finders(v))
      BY <3>2, <3>3, FS_Subset
    <3>5. Cardinality(Fetching(v)) <= Cardinality(RunsOf(v))
      BY RequestsAreOfRuns
    <3>6. /\ Cardinality(Finders(v)) \in Nat /\ Cardinality(Fetching(v)) \in Nat
          /\ Cardinality(RunsOf(v)) \in Nat /\ Cardinality(offered) \in Nat
          /\ Cardinality(Scraping(v)') \in Nat
      BY <3>3, <3>4, FS_CardinalityType
    <3> QED BY <1>4, <2>1, <3>1, <3>3, <3>4, <3>5, <3>6
  <2> QED BY <2>2, <2>3
<1> QED BY <1>5, <1>6, <1>8, <1>9 DEF KnowledgeInv

(* A stored run lists what its discovery found, and the sources made are   *)
(* of what the discovery was about to make.                                *)
LEMMA Storing ==
  ASSUME KnowledgeInv, NEW f \in Finder, NEW q \in Search, NEW failed, NEW got,
         NEW state \in {"SEARCHED", "PARTIAL", "FAILED", "SUCCEEDED"},
         finding[f] # NotFinding, StoreRun(f, q, state, failed, got),
         failed \subseteq finding[f].found,
         got # {} => finding[f].stage = "FETCHING" /\ got \subseteq finding[f].wanted
  PROVE  KnowledgeInv'
<1> DEFINE row == [state |-> state, videos |-> finding[f].found, failed |-> failed]
<1>1. /\ finding[f].found \subseteq Video /\ finding[f].key \in offered
      /\ finding[f].stage = "FETCHING" => finding[f].wanted \subseteq finding[f].found
  BY DEF KnowledgeInv, KnowledgeTyped
<1>2. row \in SearchRow /\ row.videos = finding[f].found /\ row.failed = failed
  BY <1>1 DEF SearchRow
<1>3. /\ search[q] = NoSearch /\ search' = [search EXCEPT ![q] = row]
      /\ reserved' = reserved \cup finding[f].found
      /\ live' = [v \in Video |-> live[v] + (IF v \in got THEN 1 ELSE 0)]
      /\ finding' = [finding EXCEPT ![f] = NotFinding]
      /\ UNCHANGED <<usable, offered, fetching, documentVars, changes>>
  BY DEF StoreRun
<1> HIDE DEF row
<1>4. /\ search \in [Search -> SearchRow] /\ live \in [Video -> Nat]
      /\ usable \subseteq offered /\ offered \subseteq Key /\ reserved \subseteq Video
  BY DEF KnowledgeInv, KnowledgeTyped, KnowledgeTypeOK, SearchRow
<1>5. search' \in [Search -> SearchRow]
      /\ \A r \in Search : search'[r] = IF r = q THEN row ELSE search[r]
  BY <1>2, <1>3, <1>4
<1>6. live' \in [Video -> Nat] /\ \A v \in Video : live'[v] = live[v] + (IF v \in got THEN 1 ELSE 0)
  BY <1>3, <1>4
<1>7. DOMAIN finding' = Finder
      /\ \A g \in Finder : finding'[g] = IF g = f THEN NotFinding ELSE finding[g]
  BY <1>3 DEF KnowledgeInv, KnowledgeTyped
<1>8. search[q].videos = {}
  BY <1>3 DEF NoSearch
<1>9. KnowledgeTypeOK'
  BY <1>1, <1>3, <1>4, <1>5, <1>6
     DEF KnowledgeInv, KnowledgeTyped, KnowledgeTypeOK, SearchRow, documentVars
<1>10. KnowledgeTyped'
  BY <1>3, <1>5, <1>7, <1>8, <1>9 DEF KnowledgeInv, KnowledgeTyped, documentVars
<1>11. HeldAlone'
  <2>1. \A g, e \in Finder :
          finding'[g] # NotFinding /\ finding'[e] # NotFinding /\ finding'[g].key = finding'[e].key
            => g = e
    BY <1>7 DEF KnowledgeInv, HeldAlone
  <2>2. \A r \in Search : search'[r].failed \subseteq search'[r].videos
                          /\ search'[r].videos \subseteq reserved'
    BY <1>2, <1>3, <1>5 DEF KnowledgeInv, HeldAlone
  <2> QED BY <1>3, <2>1, <2>2 DEF KnowledgeInv, HeldAlone
<1>12. ASSUME NEW v \in Video
       PROVE  /\ Finders(v)' = Finders(v) \ {f}
              /\ RunsOf(v)' = IF v \in finding[f].found THEN RunsOf(v) \cup {q} ELSE RunsOf(v)
              /\ Scraping(v)' = Scraping(v) \ {f} /\ Fetching(v)' = Fetching(v)
              /\ q \notin RunsOf(v)
              /\ v \in finding[f].found <=> f \in Finders(v)
              /\ v \in got => f \in Scraping(v)
  BY <1>2, <1>3, <1>5, <1>7, <1>8 DEF Finders, RunsOf, Scraping, Fetching
<1>13. FoundOnce'
  <2> SUFFICES ASSUME NEW v \in Video
               PROVE  /\ IsFiniteSet(Finders(v)') /\ IsFiniteSet(RunsOf(v)')
                      /\ Cardinality(Finders(v)') + Cardinality(RunsOf(v)') <= Cardinality(offered')
    BY DEF FoundOnce
  <2>1. /\ IsFiniteSet(Finders(v)) /\ IsFiniteSet(RunsOf(v)) /\ IsFiniteSet(offered)
        /\ Cardinality(Finders(v)) + Cardinality(RunsOf(v)) <= Cardinality(offered)
    BY DEF KnowledgeInv, KnowledgeTyped, FoundOnce
  <2>2. /\ Cardinality(Finders(v)) \in Nat /\ Cardinality(RunsOf(v)) \in Nat
        /\ Cardinality(offered) \in Nat
    BY <2>1, FS_CardinalityType
  <2>3. /\ IsFiniteSet(Finders(v) \ {f}) /\ IsFiniteSet(RunsOf(v) \cup {q})
        /\ f \in Finders(v) => Cardinality(Finders(v) \ {f}) = Cardinality(Finders(v)) - 1
        /\ f \notin Finders(v) => Cardinality(Finders(v) \ {f}) = Cardinality(Finders(v))
        /\ q \notin RunsOf(v) => Cardinality(RunsOf(v) \cup {q}) = Cardinality(RunsOf(v)) + 1
    BY <2>1, <2>2, FS_AddElement, FS_RemoveElement
  <2>4. offered' = offered
    BY <1>3
  <2>5. CASE v \in finding[f].found
    <3>1. /\ Finders(v)' = Finders(v) \ {f} /\ RunsOf(v)' = RunsOf(v) \cup {q}
          /\ f \in Finders(v) /\ q \notin RunsOf(v)
      BY <1>12, <2>5
    <3>2. /\ Cardinality(Finders(v)') = Cardinality(Finders(v)) - 1
          /\ Cardinality(RunsOf(v)') = Cardinality(RunsOf(v)) + 1
      BY <2>3, <3>1
    <3> QED BY <2>1, <2>2, <2>3, <2>4, <3>1, <3>2
  <2>6. CASE v \notin finding[f].found
    BY <1>12, <2>1, <2>2, <2>3, <2>4, <2>6
  <2> QED BY <2>5, <2>6
<1>14. MadeOnce'
  <2> SUFFICES ASSUME NEW v \in Video
               PROVE  /\ IsFiniteSet(Scraping(v)') /\ IsFiniteSet(Fetching(v)')
                      /\ live'[v] + Cardinality(Scraping(v)') + Cardinality(Fetching(v)')
                           <= Cardinality(offered')
    BY DEF MadeOnce
  <2>1. /\ IsFiniteSet(Scraping(v)) /\ IsFiniteSet(Fetching(v)) /\ IsFiniteSet(offered)
        /\ live[v] + Cardinality(Scraping(v)) + Cardinality(Fetching(v)) <= Cardinality(offered)
    BY DEF KnowledgeInv, KnowledgeTyped, MadeOnce
  <2>2. /\ Cardinality(Scraping(v)) \in Nat /\ Cardinality(Fetching(v)) \in Nat
        /\ Cardinality(offered) \in Nat /\ live[v] \in Nat
    BY <1>4, <2>1, FS_CardinalityType
  <2>3. /\ IsFiniteSet(Scraping(v) \ {f})
        /\ f \in Scraping(v) => Cardinality(Scraping(v) \ {f}) = Cardinality(Scraping(v)) - 1
        /\ f \notin Scraping(v) => Cardinality(Scraping(v) \ {f}) = Cardinality(Scraping(v))
    BY <2>1, <2>2, FS_RemoveElement
  <2>4. live'[v] = live[v] \/ (live'[v] = live[v] + 1 /\ f \in Scraping(v))
    BY <1>6, <1>12, <2>2
  <2>5. Scraping(v)' = Scraping(v) \ {f} /\ Fetching(v)' = Fetching(v) /\ offered' = offered
    BY <1>3, <1>12
  <2> QED BY <2>1, <2>2, <2>3, <2>4, <2>5
<1> QED BY <1>10, <1>11, <1>13, <1>14 DEF KnowledgeInv

(* Who gives up holds less than before.                                    *)
LEMMA LessInHand ==
  ASSUME KnowledgeInv, KnowledgeTyped', HeldAlone',
         UNCHANGED <<offered, search, live>>,
         \A v \in Video : /\ Finders(v)' \subseteq Finders(v)
                          /\ Scraping(v)' \subseteq Scraping(v)
                          /\ Fetching(v)' \subseteq Fetching(v)
  PROVE  KnowledgeInv'
<1> SUFFICES ASSUME NEW v \in Video
             PROVE  /\ IsFiniteSet(Finders(v)') /\ IsFiniteSet(RunsOf(v)')
                    /\ Cardinality(Finders(v)') + Cardinality(RunsOf(v)') <= Cardinality(offered')
                    /\ IsFiniteSet(Scraping(v)') /\ IsFiniteSet(Fetching(v)')
                    /\ live'[v] + Cardinality(Scraping(v)') + Cardinality(Fetching(v)')
                         <= Cardinality(offered')
  BY DEF KnowledgeInv, FoundOnce, MadeOnce
<1>1. /\ IsFiniteSet(Finders(v)) /\ IsFiniteSet(RunsOf(v)) /\ IsFiniteSet(offered)
      /\ Cardinality(Finders(v)) + Cardinality(RunsOf(v)) <= Cardinality(offered)
      /\ IsFiniteSet(Scraping(v)) /\ IsFiniteSet(Fetching(v))
      /\ live[v] + Cardinality(Scraping(v)) + Cardinality(Fetching(v)) <= Cardinality(offered)
  BY DEF KnowledgeInv, KnowledgeTyped, FoundOnce, MadeOnce
<1>2. /\ IsFiniteSet(Finders(v)') /\ Cardinality(Finders(v)') <= Cardinality(Finders(v))
      /\ IsFiniteSet(Scraping(v)') /\ Cardinality(Scraping(v)') <= Cardinality(Scraping(v))
      /\ IsFiniteSet(Fetching(v)') /\ Cardinality(Fetching(v)') <= Cardinality(Fetching(v))
  BY <1>1, FS_Subset
<1>3. RunsOf(v)' = RunsOf(v) /\ live[v] \in Nat
  BY DEF RunsOf, KnowledgeInv, KnowledgeTyped, KnowledgeTypeOK
<1>4. /\ Cardinality(Finders(v)) \in Nat /\ Cardinality(RunsOf(v)) \in Nat
      /\ Cardinality(offered) \in Nat
      /\ Cardinality(Scraping(v)) \in Nat /\ Cardinality(Fetching(v)) \in Nat
      /\ Cardinality(Finders(v)') \in Nat /\ Cardinality(Scraping(v)') \in Nat
      /\ Cardinality(Fetching(v)') \in Nat
  BY <1>1, <1>2, FS_CardinalityType
<1> QED BY <1>1, <1>2, <1>3, <1>4

LEMMA Abandoning ==
  ASSUME KnowledgeInv, NEW f \in Finder, AbandonDiscovery(f)
  PROVE  KnowledgeInv'
<1>1. /\ finding' = [finding EXCEPT ![f] = NotFinding]
      /\ UNCHANGED <<usable, offered, reserved, search, fetching, live, documentVars, changes>>
  BY DEF AbandonDiscovery
<1>2. DOMAIN finding' = Finder
      /\ \A g \in Finder : finding'[g] = IF g = f THEN NotFinding ELSE finding[g]
  BY <1>1 DEF KnowledgeInv, KnowledgeTyped
<1>3. KnowledgeTyped'
  <2>1. KnowledgeTypeOK'
    BY <1>1 DEF KnowledgeInv, KnowledgeTyped, KnowledgeTypeOK, documentVars
  <2> QED BY <1>1, <1>2, <2>1 DEF KnowledgeInv, KnowledgeTyped, documentVars
<1>4. HeldAlone'
  BY <1>1, <1>2 DEF KnowledgeInv, HeldAlone
<1>5. \A v \in Video : /\ Finders(v)' \subseteq Finders(v)
                       /\ Scraping(v)' \subseteq Scraping(v)
                       /\ Fetching(v)' \subseteq Fetching(v)
  BY <1>1, <1>2 DEF Finders, Scraping, Fetching
<1> QED BY <1>1, <1>3, <1>4, <1>5, LessInHand

LEMMA Refused ==
  ASSUME KnowledgeInv, NEW w \in Fetcher, FailTranscripts(w)
  PROVE  KnowledgeInv'
<1>1. /\ fetching' = [fetching EXCEPT ![w] = NotFetching]
      /\ UNCHANGED <<usable, offered, finding, reserved, search, live, documentVars, changes>>
  BY DEF FailTranscripts
<1>2. DOMAIN fetching' = Fetcher
      /\ \A x \in Fetcher : fetching'[x] = IF x = w THEN NotFetching ELSE fetching[x]
  BY <1>1 DEF KnowledgeInv, KnowledgeTyped
<1>3. KnowledgeTyped'
  <2>1. KnowledgeTypeOK'
    BY <1>1 DEF KnowledgeInv, KnowledgeTyped, KnowledgeTypeOK, documentVars
  <2> QED BY <1>1, <1>2, <2>1 DEF KnowledgeInv, KnowledgeTyped, documentVars
<1>4. HeldAlone'
  BY <1>1, <1>2 DEF KnowledgeInv, HeldAlone
<1>5. \A v \in Video : /\ Finders(v)' \subseteq Finders(v)
                       /\ Scraping(v)' \subseteq Scraping(v)
                       /\ Fetching(v)' \subseteq Fetching(v)
  BY <1>1, <1>2 DEF Finders, Scraping, Fetching
<1> QED BY <1>1, <1>3, <1>4, <1>5, LessInHand

(* A request fetches what has no source yet, of a run nobody else holds.   *)
LEMMA Requesting ==
  ASSUME KnowledgeInv, NEW w \in Fetcher, NEW q \in Search, StartTranscripts(w, q)
  PROVE  KnowledgeInv'
<1> DEFINE row == [id |-> q, wanted |-> Retryable(q) \ Ingested]
<1>1. /\ row.id = q /\ row.wanted = Retryable(q) \ Ingested
      /\ fetching' = [fetching EXCEPT ![w] = row]
      /\ fetching[w] = NotFetching /\ \A x \in Fetcher : fetching[x].id # q
      /\ UNCHANGED <<usable, offered, finding, reserved, search, live, documentVars, changes>>
  BY DEF StartTranscripts
<1> HIDE DEF row
<1>2. DOMAIN fetching' = Fetcher
      /\ \A x \in Fetcher : fetching'[x] = IF x = w THEN row ELSE fetching[x]
  BY <1>1 DEF KnowledgeInv, KnowledgeTyped
<1>3. Retryable(q) \subseteq search[q].videos
  BY DEF Retryable, KnowledgeInv, HeldAlone
<1>4. KnowledgeTyped'
  <2>1. KnowledgeTypeOK'
    BY <1>1 DEF KnowledgeInv, KnowledgeTyped, KnowledgeTypeOK, documentVars
  <2> QED BY <1>1, <1>2, <1>3, <2>1 DEF KnowledgeInv, KnowledgeTyped, documentVars
<1>5. HeldAlone'
  BY <1>1, <1>2 DEF KnowledgeInv, HeldAlone
<1>6. ASSUME NEW v \in Video
      PROVE  Finders(v)' = Finders(v) /\ RunsOf(v)' = RunsOf(v) /\ Scraping(v)' = Scraping(v)
  BY <1>1 DEF Finders, RunsOf, Scraping
<1>7. FoundOnce'
  BY <1>1, <1>6 DEF KnowledgeInv, FoundOnce
<1>8. MadeOnce'
  <2> SUFFICES ASSUME NEW v \in Video
               PROVE  /\ IsFiniteSet(Scraping(v)') /\ IsFiniteSet(Fetching(v)')
                      /\ live'[v] + Cardinality(Scraping(v)') + Cardinality(Fetching(v)')
                           <= Cardinality(offered')
    BY DEF MadeOnce
  <2>1. CASE v \notin row.wanted
    <3>1. Fetching(v)' = Fetching(v)
      BY <1>1, <1>2, <2>1 DEF Fetching
    <3> QED BY <1>1, <1>6, <3>1 DEF KnowledgeInv, MadeOnce
  <2>2. CASE v \in row.wanted
    <3>1. live[v] = 0
      BY <1>1, <2>2 DEF Ingested, KnowledgeInv, KnowledgeTyped, KnowledgeTypeOK
    <3>2. Scraping(v) \subseteq Finders(v)
      BY DEF Scraping, Finders, KnowledgeInv, KnowledgeTyped
    <3>3. IsFiniteSet(Finders(v)) /\ IsFiniteSet(RunsOf(v)) /\ IsFiniteSet(offered)
          /\ Cardinality(Finders(v)) + Cardinality(RunsOf(v)) <= Cardinality(offered)
      BY DEF KnowledgeInv, FoundOnce, KnowledgeTyped
    <3>4. IsFiniteSet(Scraping(v)) /\ Cardinality(Scraping(v)) <= Cardinality(Finders(v))
      BY <3>2, <3>3, FS_Subset
    <3> DEFINE h == [x \in Fetching(v)' |-> fetching'[x].id]
    <3>5. h \in [Fetching(v)' -> RunsOf(v)]
      BY <1>1, <1>4 DEF KnowledgeTyped, Fetching, RunsOf
    <3>6. \A x, y \in Fetching(v)' : h[x] = h[y] => x = y
      BY <1>5 DEF HeldAlone, Fetching
    <3> HIDE DEF h
    <3>7. IsFiniteSet(Fetching(v)') /\ Cardinality(Fetching(v)') <= Cardinality(RunsOf(v))
      BY <3>3, <3>5, <3>6, OneHolderEach
    <3>8. /\ Cardinality(Finders(v)) \in Nat /\ Cardinality(Fetching(v)') \in Nat
          /\ Cardinality(RunsOf(v)) \in Nat /\ Cardinality(offered) \in Nat
          /\ Cardinality(Scraping(v)) \in Nat
      BY <3>3, <3>4, <3>7, FS_CardinalityType
    <3> QED BY <1>1, <1>6, <3>1, <3>3, <3>4, <3>7, <3>8
  <2> QED BY <2>1, <2>2
<1> QED BY <1>4, <1>5, <1>7, <1>8 DEF KnowledgeInv

(* A request leaves its run, and makes sources of what it wanted.          *)
LEMMA Fetched ==
  ASSUME KnowledgeInv, NEW w \in Fetcher, FinishTranscripts(w)
  PROVE  KnowledgeInv'
<1> DEFINE q == fetching[w].id
<1>1. q \in Search /\ fetching[w] # NotFetching
      /\ fetching[w].wanted \subseteq search[q].videos
  BY DEF FinishTranscripts, KnowledgeInv, KnowledgeTyped
<1>2. /\ search \in [Search -> SearchRow] /\ live \in [Video -> Nat]
      /\ usable \subseteq offered /\ offered \subseteq Key /\ reserved \subseteq Video
  BY DEF KnowledgeInv, KnowledgeTyped, KnowledgeTypeOK, SearchRow
<1>3. PICK got \in SUBSET fetching[w].wanted :
        /\ search' = [search EXCEPT ![q].failed = fetching[w].wanted \ got,
             ![q].state = IF fetching[w].wanted \ got = {} THEN "SUCCEEDED" ELSE "PARTIAL"]
        /\ live' = [v \in Video |-> live[v] + (IF v \in got THEN 1 ELSE 0)]
  BY DEF FinishTranscripts
<1>4. /\ fetching' = [fetching EXCEPT ![w] = NotFetching]
      /\ UNCHANGED <<usable, offered, finding, reserved, documentVars, changes>>
  BY DEF FinishTranscripts
<1> DEFINE failed == fetching[w].wanted \ got
           state == IF failed = {} THEN "SUCCEEDED" ELSE "PARTIAL"
           one == [search EXCEPT ![q].failed = failed]
           two == [one EXCEPT ![q].state = state]
<1>5. search' = two
  BY <1>3
<1>6. failed \subseteq search[q].videos /\ failed \subseteq Video
      /\ state \in {"SUCCEEDED", "PARTIAL"}
  BY <1>1, <1>2 DEF SearchRow
<1> HIDE DEF q, failed, state
<1>7. /\ one \in [Search -> SearchRow]
      /\ \A r \in Search : /\ one[r].videos = search[r].videos
                           /\ one[r].failed = IF r = q THEN failed ELSE search[r].failed
  BY <1>1, <1>2, <1>6 DEF SearchRow
<1> HIDE DEF one
<1>8. /\ two \in [Search -> SearchRow]
      /\ \A r \in Search : two[r].videos = one[r].videos /\ two[r].failed = one[r].failed
  BY <1>1, <1>6, <1>7 DEF SearchRow
<1> HIDE DEF two
<1>9. live' \in [Video -> Nat]
      /\ \A v \in Video : live'[v] = live[v] + (IF v \in got THEN 1 ELSE 0)
  BY <1>2, <1>3
<1>10. DOMAIN fetching' = Fetcher
       /\ \A x \in Fetcher : fetching'[x] = IF x = w THEN NotFetching ELSE fetching[x]
  BY <1>4 DEF KnowledgeInv, KnowledgeTyped
<1>11. KnowledgeTyped'
  <2>1. KnowledgeTypeOK'
    BY <1>2, <1>4, <1>5, <1>8, <1>9
       DEF KnowledgeInv, KnowledgeTyped, KnowledgeTypeOK, SearchRow, documentVars
  <2> QED BY <1>4, <1>5, <1>7, <1>8, <1>10, <2>1 DEF KnowledgeInv, KnowledgeTyped, documentVars
<1>12. HeldAlone'
  BY <1>4, <1>5, <1>6, <1>7, <1>8, <1>10 DEF KnowledgeInv, HeldAlone
<1>13. ASSUME NEW v \in Video
       PROVE  /\ Finders(v)' = Finders(v) /\ RunsOf(v)' = RunsOf(v) /\ Scraping(v)' = Scraping(v)
              /\ Fetching(v)' = Fetching(v) \ {w}
              /\ v \in got => w \in Fetching(v)
  BY <1>1, <1>4, <1>5, <1>7, <1>8, <1>10 DEF Finders, RunsOf, Scraping, Fetching
<1>14. FoundOnce'
  BY <1>4, <1>13 DEF KnowledgeInv, FoundOnce
<1>15. MadeOnce'
  <2> SUFFICES ASSUME NEW v \in Video
               PROVE  /\ IsFiniteSet(Scraping(v)') /\ IsFiniteSet(Fetching(v)')
                      /\ live'[v] + Cardinality(Scraping(v)') + Cardinality(Fetching(v)')
                           <= Cardinality(offered')
    BY DEF MadeOnce
  <2>1. /\ IsFiniteSet(Scraping(v)) /\ IsFiniteSet(Fetching(v)) /\ IsFiniteSet(offered)
        /\ live[v] + Cardinality(Scraping(v)) + Cardinality(Fetching(v)) <= Cardinality(offered)
    BY DEF KnowledgeInv, KnowledgeTyped, MadeOnce
  <2>2. /\ Cardinality(Scraping(v)) \in Nat /\ Cardinality(Fetching(v)) \in Nat
        /\ Cardinality(offered) \in Nat /\ live[v] \in Nat
    BY <1>2, <2>1, FS_CardinalityType
  <2>3. /\ IsFiniteSet(Fetching(v) \ {w})
        /\ w \in Fetching(v) => Cardinality(Fetching(v) \ {w}) = Cardinality(Fetching(v)) - 1
        /\ w \notin Fetching(v) => Cardinality(Fetching(v) \ {w}) = Cardinality(Fetching(v))
    BY <2>1, <2>2, FS_RemoveElement
  <2>4. live'[v] = live[v] \/ (live'[v] = live[v] + 1 /\ w \in Fetching(v))
    BY <1>9, <1>13, <2>2
  <2>5. Scraping(v)' = Scraping(v) /\ Fetching(v)' = Fetching(v) \ {w} /\ offered' = offered
    BY <1>4, <1>13
  <2> QED BY <2>1, <2>2, <2>3, <2>4, <2>5
<1> QED BY <1>11, <1>12, <1>14, <1>15 DEF KnowledgeInv

(* Withdrawing connections or sources, and whatever is done to documents.  *)
LEMMA OthersLeaveVideos ==
  ASSUME KnowledgeInv,
         \/ UNCHANGED knowledgeVars
         \/ \E k \in Key : SwitchConnection(k)
         \/ \E v \in Video : DeleteSource(v)
         \/ StartSave \/ FinishSave \/ DisableDocument \/ DeleteDocument
         \/ StartReindex \/ FinishReindex \/ FailReindex
  PROVE  KnowledgeInv'
<1> USE KnowledgeAssumption
<1>0. /\ KnowledgeTypeOK /\ IsFiniteSet(offered)
      /\ saving # Idle => saving.text \in Nat /\ saving.model \in Nat
      /\ indexing # Idle => indexing.copy \in Nat /\ indexing.model \in Nat
      /\ \A v \in Video : live[v] \in Nat
  BY DEF KnowledgeInv, KnowledgeTyped, KnowledgeTypeOK
<1>1. CASE UNCHANGED knowledgeVars
  <2>1. KnowledgeTypeOK' /\ \A v \in Video : live'[v] <= live[v]
    BY <1>0, <1>1 DEF knowledgeVars, KnowledgeTypeOK
  <2> QED BY <1>0, <1>1, <2>1, VideosStay DEF knowledgeVars
<1>2. ASSUME NEW k \in Key, SwitchConnection(k) PROVE KnowledgeInv'
  <2>1. /\ offered' = offered \cup {k}
        /\ UNCHANGED <<finding, reserved, search, fetching, live, documentVars>>
    BY <1>2 DEF SwitchConnection
  <2>2. KnowledgeTypeOK' /\ \A v \in Video : live'[v] <= live[v]
    BY <1>0, <1>2 DEF SwitchConnection, Change, KnowledgeTypeOK, documentVars
  <2>3. IsFiniteSet(offered')
    BY <1>0, <2>1, FS_AddElement
  <2> QED BY <1>0, <2>1, <2>2, <2>3, VideosStay DEF documentVars
<1>3. ASSUME NEW v \in Video, DeleteSource(v) PROVE KnowledgeInv'
  <2>1. /\ live[v] > 0 /\ live' = [live EXCEPT ![v] = @ - 1]
        /\ UNCHANGED <<usable, offered, finding, reserved, search, fetching, documentVars>>
        /\ changes < MaxChanges /\ changes' = changes + 1
    BY <1>3 DEF DeleteSource, Change
  <2>2. live' \in [Video -> Nat] /\ \A x \in Video : live'[x] <= live[x]
    BY <1>0, <2>1 DEF KnowledgeTypeOK
  <2>3. KnowledgeTypeOK'
    BY <1>0, <2>1, <2>2 DEF KnowledgeTypeOK, documentVars
  <2> QED BY <1>0, <2>1, <2>2, <2>3, VideosStay DEF documentVars
<1>4. ASSUME \/ StartSave \/ FinishSave \/ DisableDocument \/ DeleteDocument
             \/ StartReindex \/ FinishReindex \/ FailReindex
      PROVE  KnowledgeInv'
  <2>1. UNCHANGED videoVars
    BY <1>4 DEF StartSave, FinishSave, DisableDocument, DeleteDocument, StartReindex,
       FinishReindex, FailReindex
  <2>2. changes' = changes \/ (changes < MaxChanges /\ changes' = changes + 1)
    BY <1>4 DEF StartSave, FinishSave, DisableDocument, DeleteDocument, StartReindex,
       FinishReindex, FailReindex, Change
  <2>3. changes' \in 0..MaxChanges
    BY <1>0, <2>2 DEF KnowledgeTypeOK
  <2> DEFINE Doc == [state: {"NONE", "ACTIVE", "DISABLED", "DELETED"}, text: Nat, model: Nat]
  <2>4. document \in Doc /\ embedding \in Nat
    BY <1>0 DEF KnowledgeTypeOK
  <2>5. document' \in Doc
    <3>1. document.state \in {"NONE", "ACTIVE", "DISABLED", "DELETED"}
          /\ [document EXCEPT !.state = "DISABLED"] \in Doc
      BY <2>4
    <3> QED BY <1>0, <1>4, <2>4, <3>1 DEF StartSave, FinishSave, DisableDocument,
               DeleteDocument, StartReindex, FinishReindex, FailReindex
  <2>6. embedding' \in Nat
    BY <1>0, <1>4, <2>4 DEF StartSave, FinishSave, DisableDocument, DeleteDocument, StartReindex,
       FinishReindex, FailReindex
  <2>7. /\ saving' # Idle => saving'.text \in Nat /\ saving'.model \in Nat
        /\ indexing' # Idle => indexing'.copy \in Nat /\ indexing'.model \in Nat
    <3>1. document.text \in Nat /\ document.text + 1 \in Nat /\ embedding + 1 \in Nat
          /\ (IF document.state = "DELETED" THEN 0 ELSE document.text) \in Nat
      BY <2>4
    <3> HIDE DEF Doc
    <3> QED BY <1>0, <1>4, <2>4, <3>1 DEF StartSave, FinishSave, DisableDocument, DeleteDocument,
               StartReindex, FinishReindex, FailReindex
  <2>8. KnowledgeTypeOK'
    BY <1>0, <2>1, <2>3, <2>5, <2>6 DEF KnowledgeTypeOK, videoVars
  <2>9. \A v \in Video : live'[v] <= live[v]
    BY <1>0, <2>1 DEF videoVars
  <2> HIDE DEF Doc
  <2> QED BY <1>0, <2>1, <2>7, <2>8, <2>9, VideosStay DEF videoVars
<1> QED BY <1>1, <1>2, <1>3, <1>4

LEMMA KnowledgeStep == KnowledgeInv /\ [KnowledgeNext]_knowledgeVars => KnowledgeInv'
<1> SUFFICES ASSUME KnowledgeInv, [KnowledgeNext]_knowledgeVars PROVE KnowledgeInv'
  OBVIOUS
<1>1. ASSUME NEW f \in Finder, NEW q \in Search,
             FinishSearch(f, q) \/ FinishScrape(f, q) \/ FinishScheduled(f, q)
      PROVE  KnowledgeInv'
  <2>1. finding[f] # NotFinding
    BY <1>1 DEF FinishSearch, FinishScrape, FinishScheduled, NotFinding
  <2>2. finding[f].stage = "FETCHING" => finding[f].wanted \subseteq finding[f].found
    BY <2>1 DEF KnowledgeInv, KnowledgeTyped
  <2>3. CASE FinishSearch(f, q)
    BY <2>1, <2>3, Storing DEF FinishSearch
  <2>4. CASE FinishScrape(f, q)
    BY <2>1, <2>2, <2>4, Storing DEF FinishScrape
  <2>5. CASE FinishScheduled(f, q)
    <3>1. PICK got \in SUBSET finding[f].wanted,
               state \in {"SUCCEEDED", "PARTIAL", "FAILED"},
               failed \in SUBSET finding[f].wanted : StoreRun(f, q, state, failed, got)
      BY <2>5 DEF FinishScheduled
    <3> QED BY <2>1, <2>2, <2>5, <3>1, Storing DEF FinishScheduled
  <2> QED BY <1>1, <2>3, <2>4, <2>5
<1> QED BY <1>1, Discovering, Scrape, Abandoning, Refused, Requesting, Fetched, OthersLeaveVideos
        DEF KnowledgeNext

(* Type invariant of discoveries, fetches, sources and copies.             *)
THEOREM KnowledgeTypeCorrect == KnowledgeSpec => []KnowledgeTypeOK
<1>1. KnowledgeSpec => []KnowledgeInv
  BY KnowledgeStart, KnowledgeStep, PTL DEF KnowledgeSpec
<1>2. KnowledgeInv => KnowledgeTypeOK
  BY DEF KnowledgeInv, KnowledgeTyped
<1> QED BY <1>1, <1>2, PTL

(* routes/knowledge.py, tasks/knowledge.py: a video has one live source at *)
(* a time, and one more for each further connection the searches could     *)
(* use, however many discoveries, fetches, retries and lost workers meet.  *)
THEOREM SourcesAreBounded == KnowledgeSpec => []OneSourcePerVideo
<1>1. KnowledgeSpec => []KnowledgeInv
  BY KnowledgeStart, KnowledgeStep, PTL DEF KnowledgeSpec
<1>2. KnowledgeInv => OneSourcePerVideo
  <2> SUFFICES ASSUME KnowledgeInv, NEW v \in Video PROVE live[v] <= Cardinality(offered)
    BY DEF OneSourcePerVideo
  <2>1. /\ IsFiniteSet(Scraping(v)) /\ IsFiniteSet(Fetching(v)) /\ IsFiniteSet(offered)
        /\ live[v] + Cardinality(Scraping(v)) + Cardinality(Fetching(v)) <= Cardinality(offered)
        /\ live[v] \in Nat
    BY DEF KnowledgeInv, KnowledgeTyped, MadeOnce, KnowledgeTypeOK
  <2>2. /\ Cardinality(Scraping(v)) \in Nat /\ Cardinality(Fetching(v)) \in Nat
        /\ Cardinality(offered) \in Nat
    BY <2>1, FS_CardinalityType
  <2> QED BY <2>1, <2>2
<1> QED BY <1>1, <1>2, PTL

----------------------------------------------------------------------------
(***************************************************************************)
(* Agent calls: the slot listens to a turn of the call it serves, and a    *)
(* reply tells what such a turn produced.                                  *)
(***************************************************************************)

SlotStep == {"THREAD", "TURN", "LISTEN", "DELETE", "STORE", "REPLY"}
SlotRow == [step: SlotStep, call: Call, turn: Nat, answer: Nat, ok: BOOLEAN]
RequestId == 1..MaxRequests

AgentTyped ==
  /\ caller \in [Call -> {"NEW", "WAITING", "ANSWERED", "FAILED"}]
  /\ queued \subseteq Call
  /\ DOMAIN reply = Call
  /\ recorded \in [Call -> SUBSET {"API", "WORKER"}]
  /\ slot = FreeSlot \/ slot \in SlotRow
  /\ rid \in 0..MaxRequests
  /\ turnsOf \in [Call -> SUBSET RequestId]
  /\ running \subseteq RequestId /\ \A r \in unanswered : r.id \in RequestId
  /\ alive \in BOOLEAN
  /\ faults \in 0..MaxFaults

(* The slot listens to a turn it asked for, for a call nobody has replied  *)
(* to, and replies when it has stored.                                     *)
SlotServes ==
  slot # FreeSlot =>
    /\ slot.call \notin queued /\ reply[slot.call] = NoReply /\ caller[slot.call] # "NEW"
    /\ slot.step = "TURN" => rid \in turnsOf[slot.call]
    /\ slot.step = "LISTEN" => slot.turn \in turnsOf[slot.call]
    /\ slot.answer \in turnsOf[slot.call] \cup {NoTurn}
    /\ slot.step = "REPLY" => "WORKER" \in recorded[slot.call]

(* A reply with an execution comes after its execution was stored, and the *)
(* caller stores one only when it gives up.                                *)
RepliesTell ==
  \A c \in Call :
    /\ c \in queued => reply[c] = NoReply /\ caller[c] # "NEW"
    /\ caller[c] = "NEW" => reply[c] = NoReply
    /\ caller[c] = "ANSWERED" => reply[c].kind = "EXECUTION"
    /\ reply[c].kind = "EXECUTION" =>
         reply[c].answer \in turnsOf[c] \cup {NoTurn} /\ "WORKER" \in recorded[c]
    /\ "API" \in recorded[c] => caller[c] = "FAILED"

AgentInv == AgentTyped /\ SlotServes /\ RepliesTell

----------------------------------------------------------------------------
LEMMA AgentStart == AgentCallsInit => AgentInv
<1> SUFFICES ASSUME AgentCallsInit PROVE AgentInv
  OBVIOUS
<1>1. AgentTyped
  <2>1. 0 \in 0..MaxRequests /\ 0 \in 0..MaxFaults
    BY AgentCallsAssumption
  <2>2. turnsOf \in [Call -> SUBSET RequestId] /\ recorded \in [Call -> SUBSET {"API", "WORKER"}]
        /\ caller \in [Call -> {"NEW", "WAITING", "ANSWERED", "FAILED"}] /\ DOMAIN reply = Call
    BY DEF AgentCallsInit
  <2> QED BY <2>1, <2>2 DEF AgentCallsInit, AgentTyped
<1>2. SlotServes /\ RepliesTell
  BY DEF AgentCallsInit, SlotServes, RepliesTell, NoReply
<1> QED BY <1>1, <1>2 DEF AgentInv

(* Every step, as far as the types go.                                     *)
LEMMA SlotMoves ==
  ASSUME NEW s \in SlotRow, NEW step \in SlotStep
  PROVE  LET new == [s EXCEPT !.step = step]
         IN /\ new \in SlotRow /\ new # FreeSlot /\ new.step = step /\ new.call = s.call
            /\ new.turn = s.turn /\ new.answer = s.answer
<1> DEFINE new == [s EXCEPT !.step = step]
<1>1. /\ new \in SlotRow /\ new.step = step /\ new.call = s.call
      /\ new.turn = s.turn /\ new.answer = s.answer
  BY DEF SlotRow
<1>2. "IDLE" \notin SlotStep
  BY DEF SlotStep
<1> HIDE DEF new
<1>3. new # FreeSlot
  BY <1>1, <1>2 DEF FreeSlot
<1> QED BY <1>1, <1>3 DEF new

LEMMA SlotHears ==
  ASSUME NEW s \in SlotRow, NEW turn \in Nat
  PROVE  LET new == [s EXCEPT !.step = "LISTEN", !.turn = turn]
         IN /\ new \in SlotRow /\ new # FreeSlot /\ new.step = "LISTEN" /\ new.call = s.call
            /\ new.turn = turn /\ new.answer = s.answer
<1> DEFINE one == [s EXCEPT !.step = "LISTEN"]
           new == [one EXCEPT !.turn = turn]
<1>1. one \in SlotRow /\ one.step = "LISTEN" /\ one.call = s.call /\ one.answer = s.answer
  BY SlotMoves DEF SlotStep
<1> HIDE DEF one
<1>2. /\ new \in SlotRow /\ new.step = one.step /\ new.call = one.call
      /\ new.turn = turn /\ new.answer = one.answer
  BY <1>1 DEF SlotRow
<1> HIDE DEF new
<1>3. new # FreeSlot
  BY <1>1, <1>2 DEF FreeSlot
<1> QED BY <1>1, <1>2, <1>3 DEF new, one

LEMMA SlotEnds ==
  ASSUME NEW s \in SlotRow, NEW ok \in BOOLEAN
  PROVE  LET new == [s EXCEPT !.step = "DELETE", !.ok = ok]
         IN /\ new \in SlotRow /\ new # FreeSlot /\ new.step = "DELETE" /\ new.call = s.call
            /\ new.answer = s.answer
<1> DEFINE one == [s EXCEPT !.step = "DELETE"]
           new == [one EXCEPT !.ok = ok]
<1>1. one \in SlotRow /\ one.step = "DELETE" /\ one.call = s.call /\ one.answer = s.answer
  BY SlotMoves DEF SlotStep
<1> HIDE DEF one
<1>2. /\ new \in SlotRow /\ new.step = one.step /\ new.call = one.call
      /\ new.answer = one.answer
  BY <1>1 DEF SlotRow
<1> HIDE DEF new
<1>3. new # FreeSlot
  BY <1>1, <1>2 DEF FreeSlot
<1> QED BY <1>1, <1>2, <1>3 DEF new, one

LEMMA SlotNotes ==
  ASSUME NEW s \in SlotRow, NEW turn \in Nat
  PROVE  LET new == [s EXCEPT !.answer = turn]
         IN /\ new \in SlotRow /\ new # FreeSlot /\ new.step = s.step /\ new.call = s.call
            /\ new.turn = s.turn /\ new.answer = turn
<1> DEFINE new == [s EXCEPT !.answer = turn]
<1>1. /\ new \in SlotRow /\ new.step = s.step /\ new.call = s.call
      /\ new.turn = s.turn /\ new.answer = turn
  BY DEF SlotRow
<1>2. "IDLE" \notin SlotStep /\ s.step \in SlotStep
  BY DEF SlotStep, SlotRow
<1> HIDE DEF new
<1>3. new # FreeSlot
  BY <1>1, <1>2 DEF FreeSlot
<1> QED BY <1>1, <1>3 DEF new

(* The conversation about a call: it changes what the slot waits for, and  *)
(* the turns of its own call at most.                                      *)
LEMMA SlotGoesOn ==
  ASSUME AgentInv, slot \in SlotRow, slot # FreeSlot, slot' \in SlotRow, slot' # FreeSlot,
         slot'.call = slot.call, UNCHANGED callerVars,
         rid' \in 0..MaxRequests, turnsOf' \in [Call -> SUBSET RequestId],
         \A c \in Call : turnsOf[c] \subseteq turnsOf'[c],
         running' \subseteq RequestId, \A r \in unanswered' : r.id \in RequestId,
         alive' \in BOOLEAN, faults' \in 0..MaxFaults,
         slot'.step = "TURN" => rid' \in turnsOf'[slot.call],
         slot'.step = "LISTEN" => slot'.turn \in turnsOf'[slot.call],
         slot'.answer \in turnsOf[slot.call] \cup {NoTurn},
         slot'.step # "REPLY"
  PROVE  AgentInv'
<1>1. slot.call \in Call
  BY DEF SlotRow
<1>2. AgentTyped'
  BY DEF AgentInv, AgentTyped, callerVars
<1>3. SlotServes'
  BY <1>1 DEF AgentInv, SlotServes, callerVars
<1>4. RepliesTell'
  BY DEF AgentInv, RepliesTell, callerVars
<1> QED BY <1>2, <1>3, <1>4 DEF AgentInv

LEMMA Asking ==
  ASSUME AgentInv, NEW kind, Ask(kind)
  PROVE  /\ rid' = rid + 1 /\ rid' \in RequestId /\ rid' \in 0..MaxRequests
         /\ \A r \in unanswered' : r.id \in RequestId
<1>1. rid \in 0..MaxRequests /\ rid < MaxRequests /\ rid' = rid + 1 /\ MaxRequests \in Nat
  BY AgentCallsAssumption DEF AgentInv, AgentTyped, Ask
<1>2. rid + 1 \in RequestId /\ rid' \in 0..MaxRequests
  BY <1>1 DEF RequestId
<1>3. unanswered' = unanswered \cup {[id |-> rid + 1, kind |-> kind]}
  BY DEF Ask
<1>4. \A r \in unanswered : r.id \in RequestId
  BY DEF AgentInv, AgentTyped
<1> QED BY <1>1, <1>2, <1>3, <1>4

LEMMA FaultsTyped ==
  ASSUME AgentInv, Fault \/ UNCHANGED faults
  PROVE  faults' \in 0..MaxFaults
BY AgentCallsAssumption DEF AgentInv, AgentTyped, Fault

LEMMA Talking ==
  ASSUME AgentInv,
         ThreadStarted \/ TurnStarted \/ Listen \/ FailStart \/ FailTurn \/ Deleted
  PROVE  AgentInv'
<1>1. slot # FreeSlot /\ slot \in SlotRow
  BY DEF ThreadStarted, TurnStarted, Listen, FailStart, FailTurn, Deleted, FreeSlot, AgentInv,
     AgentTyped
<1>2. /\ slot.call \in Call /\ slot.turn \in Nat /\ slot.answer \in Nat
      /\ slot.answer \in turnsOf[slot.call] \cup {NoTurn}
      /\ slot.step = "LISTEN" => slot.turn \in turnsOf[slot.call]
      /\ slot.step = "TURN" => rid \in turnsOf[slot.call]
  BY <1>1 DEF SlotRow, AgentInv, SlotServes
<1>3. /\ rid \in 0..MaxRequests /\ turnsOf \in [Call -> SUBSET RequestId]
      /\ running \subseteq RequestId /\ \A r \in unanswered : r.id \in RequestId
      /\ alive \in BOOLEAN
  BY DEF AgentInv, AgentTyped
<1>4. rid \in Nat
  BY <1>3
<1>5. CASE ThreadStarted
  <2>1. /\ slot' = [slot EXCEPT !.step = "TURN"]
        /\ turnsOf' = [turnsOf EXCEPT ![slot.call] = @ \cup {rid + 1}]
        /\ UNCHANGED <<callerVars, alive, running, faults>> /\ Ask("TURN")
    BY <1>5 DEF ThreadStarted
  <2>2. slot' \in SlotRow /\ slot' # FreeSlot /\ slot'.step = "TURN" /\ slot'.call = slot.call
        /\ slot'.answer = slot.answer
    BY <1>1, <2>1, SlotMoves DEF SlotStep
  <2>3. rid' = rid + 1 /\ rid' \in RequestId /\ rid' \in 0..MaxRequests
        /\ \A r \in unanswered' : r.id \in RequestId
    BY <2>1, Asking
  <2>4. turnsOf' \in [Call -> SUBSET RequestId] /\ rid' \in turnsOf'[slot.call]
        /\ \A c \in Call : turnsOf[c] \subseteq turnsOf'[c]
    BY <1>2, <1>3, <2>1, <2>3
  <2>5. faults' \in 0..MaxFaults
    BY <2>1, FaultsTyped
  <2> QED BY <1>1, <1>2, <1>3, <2>1, <2>2, <2>3, <2>4, <2>5, SlotGoesOn
<1>6. CASE TurnStarted
  <2>1. /\ slot' = [slot EXCEPT !.step = "LISTEN", !.turn = Head(stdout).id]
        /\ Head(stdout).id = rid /\ slot.step = "TURN"
        /\ UNCHANGED <<callerVars, rid, turnsOf, serverVars, faults>>
    BY <1>6 DEF TurnStarted, IsReply
  <2>2. /\ slot' \in SlotRow /\ slot' # FreeSlot /\ slot'.step = "LISTEN" /\ slot'.call = slot.call
        /\ slot'.answer = slot.answer /\ slot'.turn = rid
    BY <1>1, <1>4, <2>1, SlotHears
  <2>3. faults' \in 0..MaxFaults
    BY <2>1, FaultsTyped
  <2> QED BY <1>1, <1>2, <1>3, <2>1, <2>2, <2>3, SlotGoesOn DEF serverVars
<1>7. CASE Listen
  <2>1. UNCHANGED <<callerVars, turnsOf, alive, running, faults>> /\ slot.step = "LISTEN"
    BY <1>7 DEF Listen
  <2>2. faults' \in 0..MaxFaults
    BY <2>1, FaultsTyped
  <2>3. CASE UNCHANGED <<slot, rid, unanswered>>
    BY <1>1, <1>2, <1>3, <2>1, <2>2, <2>3, SlotGoesOn
  <2>4. CASE slot' = [slot EXCEPT !.answer = slot.turn] /\ UNCHANGED <<rid, unanswered>>
    <3>1. /\ slot' \in SlotRow /\ slot' # FreeSlot /\ slot'.step = "LISTEN"
          /\ slot'.call = slot.call /\ slot'.turn = slot.turn /\ slot'.answer = slot.turn
      BY <1>1, <1>2, <2>1, <2>4, SlotNotes
    <3> QED BY <1>1, <1>2, <1>3, <2>1, <2>2, <2>4, <3>1, SlotGoesOn
  <2>5. CASE /\ \E ok \in BOOLEAN : slot' = [slot EXCEPT !.step = "DELETE", !.ok = ok]
             /\ Ask("DELETE")
    <3>1. /\ slot' \in SlotRow /\ slot' # FreeSlot /\ slot'.step = "DELETE"
          /\ slot'.call = slot.call /\ slot'.answer = slot.answer
      <4>1. PICK ok \in BOOLEAN : slot' = [slot EXCEPT !.step = "DELETE", !.ok = ok]
        BY <2>5
      <4> DEFINE new == [slot EXCEPT !.step = "DELETE", !.ok = ok]
      <4>2. /\ new \in SlotRow /\ new # FreeSlot /\ new.step = "DELETE" /\ new.call = slot.call
            /\ new.answer = slot.answer
        BY <1>1, SlotEnds
      <4> HIDE DEF new
      <4> QED BY <4>1, <4>2 DEF new
    <3>2. rid' \in 0..MaxRequests /\ \A r \in unanswered' : r.id \in RequestId
      BY <2>5, Asking
    <3> QED BY <1>1, <1>2, <1>3, <2>1, <2>2, <3>1, <3>2, SlotGoesOn
  <2> DEFINE m == Message
             own == m.kind # "REPLY" /\ m.turn = slot.turn
             ok == m.kind = "COMPLETED" /\ m.ok /\ slot.answer # NoTurn
  <2>6. \/ own /\ slot' = [slot EXCEPT !.answer = m.turn] /\ UNCHANGED <<rid, unanswered>>
        \/ slot' = [slot EXCEPT !.step = "DELETE", !.ok = ok] /\ Ask("DELETE")
        \/ UNCHANGED <<slot, rid, unanswered>>
    BY <1>7 DEF Listen
  <2>7. ok \in BOOLEAN
    OBVIOUS
  <2> QED BY <2>3, <2>4, <2>5, <2>6, <2>7
<1>8. CASE FailStart \/ Deleted
  <2>1. /\ slot' = [slot EXCEPT !.step = "STORE"]
        /\ UNCHANGED <<callerVars, rid, turnsOf, serverVars>>
        /\ Fault \/ UNCHANGED faults
    BY <1>8 DEF FailStart, Deleted
  <2>2. slot' \in SlotRow /\ slot' # FreeSlot /\ slot'.step = "STORE" /\ slot'.call = slot.call
        /\ slot'.answer = slot.answer
    BY <1>1, <2>1, SlotMoves DEF SlotStep
  <2>3. faults' \in 0..MaxFaults
    BY <2>1, FaultsTyped
  <2> QED BY <1>1, <1>2, <1>3, <2>1, <2>2, <2>3, SlotGoesOn DEF serverVars
<1>9. CASE FailTurn
  <2>1. /\ slot' = [slot EXCEPT !.step = "DELETE"] /\ Ask("DELETE") /\ Fault
        /\ UNCHANGED <<callerVars, turnsOf, alive, running>>
    BY <1>9 DEF FailTurn
  <2>2. slot' \in SlotRow /\ slot' # FreeSlot /\ slot'.step = "DELETE" /\ slot'.call = slot.call
        /\ slot'.answer = slot.answer
    BY <1>1, <2>1, SlotMoves DEF SlotStep
  <2>3. rid' \in 0..MaxRequests /\ \A r \in unanswered' : r.id \in RequestId
    BY <2>1, Asking
  <2>4. faults' \in 0..MaxFaults
    BY <2>1, FaultsTyped
  <2> QED BY <1>1, <1>2, <1>3, <2>1, <2>2, <2>3, <2>4, SlotGoesOn
<1> QED BY <1>5, <1>6, <1>7, <1>8, <1>9

(* What is said between client and server changes nothing but the streams, *)
(* and a server that dies ends the conversation.                           *)
LEMMA ServerActs ==
  ASSUME AgentInv,
         \/ SkipMessage \/ ServerDies \/ UNCHANGED agentVars
         \/ \E r \in unanswered : ServerReplies(r)
         \/ \E t \in running : ServerEndsTurn(t)
  PROVE  AgentInv'
<1>1. /\ rid \in 0..MaxRequests /\ turnsOf \in [Call -> SUBSET RequestId]
      /\ running \subseteq RequestId /\ \A r \in unanswered : r.id \in RequestId
      /\ alive \in BOOLEAN
  BY DEF AgentInv, AgentTyped
<1>2. /\ UNCHANGED <<callerVars, rid, turnsOf>>
      /\ Fault \/ UNCHANGED faults
      /\ running' \subseteq RequestId /\ \A r \in unanswered' : r.id \in RequestId
      /\ alive' \in BOOLEAN
  <2>1. CASE SkipMessage
    BY <1>1, <2>1 DEF SkipMessage, serverVars
  <2>2. CASE ServerDies
    BY <1>1, <2>2 DEF ServerDies
  <2>3. CASE UNCHANGED agentVars
    BY <1>1, <2>3 DEF agentVars, callerVars
  <2>4. ASSUME NEW r \in unanswered, ServerReplies(r)
        PROVE  /\ UNCHANGED <<callerVars, rid, turnsOf, faults>>
               /\ running' \subseteq RequestId /\ \A q \in unanswered' : q.id \in RequestId
               /\ alive' \in BOOLEAN
    BY <1>1, <2>4 DEF ServerReplies
  <2>5. ASSUME NEW t \in running, ServerEndsTurn(t)
        PROVE  /\ UNCHANGED <<callerVars, rid, turnsOf, faults>>
               /\ running' \subseteq RequestId /\ \A q \in unanswered' : q.id \in RequestId
               /\ alive' \in BOOLEAN
    BY <1>1, <2>5 DEF ServerEndsTurn
  <2> QED BY <2>1, <2>2, <2>3, <2>4, <2>5
<1>3. \/ UNCHANGED slot
      \/ /\ slot' = [slot EXCEPT !.step = "STORE"]
         /\ AwaitsReply \/ slot.step = "LISTEN"
  BY DEF SkipMessage, ServerDies, ServerReplies, ServerEndsTurn, agentVars
<1>4. faults' \in 0..MaxFaults
  BY <1>2, FaultsTyped
<1>5. CASE UNCHANGED slot
  <2>1. AgentTyped'
    BY <1>2, <1>4, <1>5 DEF AgentInv, AgentTyped, callerVars
  <2>2. SlotServes' /\ RepliesTell'
    BY <1>2, <1>5 DEF AgentInv, SlotServes, RepliesTell, callerVars
  <2> QED BY <2>1, <2>2 DEF AgentInv
<1>6. CASE slot' = [slot EXCEPT !.step = "STORE"] /\ (AwaitsReply \/ slot.step = "LISTEN")
  <2>1. slot # FreeSlot /\ slot \in SlotRow
    BY <1>6 DEF AgentInv, AgentTyped, AwaitsReply, FreeSlot
  <2>2. slot' \in SlotRow /\ slot' # FreeSlot /\ slot'.step = "STORE" /\ slot'.call = slot.call
        /\ slot'.answer = slot.answer
    BY <1>6, <2>1, SlotMoves DEF SlotStep
  <2>3. slot.answer \in turnsOf[slot.call] \cup {NoTurn}
    BY <2>1 DEF AgentInv, SlotServes
  <2> QED BY <1>1, <1>2, <1>4, <2>1, <2>2, <2>3, SlotGoesOn
<1> QED BY <1>3, <1>5, <1>6

LEMMA CallerActs ==
  ASSUME AgentInv, NEW c \in Call, Invoke(c) \/ TakeReply(c) \/ GiveUp(c)
  PROVE  AgentInv'
<1>1. /\ UNCHANGED <<reply, slot, rid, turnsOf, serverVars>>
      /\ Fault \/ UNCHANGED faults
  BY DEF Invoke, TakeReply, GiveUp
<1>2. PICK state \in {"WAITING", "ANSWERED", "FAILED"} : caller' = [caller EXCEPT ![c] = state]
  BY DEF Invoke, TakeReply, GiveUp
<1>3. /\ state = "WAITING" => caller[c] = "NEW" /\ queued' = queued \cup {c} /\ recorded' = recorded
      /\ state = "ANSWERED" => /\ caller[c] = "WAITING" /\ queued' = queued
                               /\ recorded' = recorded /\ reply[c].kind = "EXECUTION"
      /\ state = "FAILED" => /\ caller[c] = "WAITING" /\ queued' = queued
                             /\ recorded' = [recorded EXCEPT ![c] = @ \cup {"API"}]
  <2>1. caller[c] \in {"NEW", "WAITING"} /\ caller'[c] = state
    BY <1>2 DEF Invoke, TakeReply, GiveUp, AgentInv, AgentTyped
  <2>2. CASE Invoke(c)
    <3>1. state = "WAITING"
      BY <2>1, <2>2 DEF Invoke, AgentInv, AgentTyped
    <3> QED BY <2>2, <3>1 DEF Invoke
  <2>3. CASE TakeReply(c)
    <3>1. state = IF reply[c].kind = "EXECUTION" THEN "ANSWERED" ELSE "FAILED"
      BY <2>1, <2>3 DEF TakeReply, AgentInv, AgentTyped
    <3> QED BY <2>3, <3>1 DEF TakeReply
  <2>4. CASE GiveUp(c)
    <3>1. state = "FAILED"
      BY <2>1, <2>4 DEF GiveUp, AgentInv, AgentTyped
    <3> QED BY <2>4, <3>1 DEF GiveUp
  <2> QED BY <2>2, <2>3, <2>4
<1>4. /\ caller' \in [Call -> {"NEW", "WAITING", "ANSWERED", "FAILED"}]
      /\ \A d \in Call : caller'[d] = IF d = c THEN state ELSE caller[d]
  BY <1>2 DEF AgentInv, AgentTyped
<1>5. /\ recorded' \in [Call -> SUBSET {"API", "WORKER"}]
      /\ \A d \in Call : /\ recorded[d] \subseteq recorded'[d]
                         /\ (d # c \/ state # "FAILED") => recorded'[d] = recorded[d]
  <2>1. recorded \in [Call -> SUBSET {"API", "WORKER"}]
    BY DEF AgentInv, AgentTyped
  <2> QED BY <1>3, <2>1
<1>6. queued' \subseteq Call /\ queued' \subseteq queued \cup {c} /\ (c \in queued' => c \in queued \/ caller[c] = "NEW")
      /\ \A d \in Call : d \in queued' => d \in queued \/ (d = c /\ caller[c] = "NEW")
  BY <1>3 DEF AgentInv, AgentTyped
<1>7. faults' \in 0..MaxFaults
  BY <1>1, FaultsTyped
<1>8. AgentTyped'
  BY <1>1, <1>4, <1>5, <1>6, <1>7 DEF AgentInv, AgentTyped, serverVars
<1>9. SlotServes'
  <2> SUFFICES ASSUME slot # FreeSlot PROVE SlotServes'
    BY <1>1 DEF SlotServes
  <2>1. slot.call \in Call
    BY DEF AgentInv, AgentTyped, SlotRow
  <2>2. slot.call \notin queued' /\ caller'[slot.call] # "NEW"
    BY <1>4, <1>6, <2>1 DEF AgentInv, SlotServes
  <2> QED BY <1>1, <1>5, <2>1, <2>2 DEF AgentInv, SlotServes
<1>10. RepliesTell'
  <2> SUFFICES ASSUME NEW d \in Call
      PROVE  /\ d \in queued' => reply[d] = NoReply /\ caller'[d] # "NEW"
             /\ caller'[d] = "NEW" => reply[d] = NoReply
             /\ caller'[d] = "ANSWERED" => reply[d].kind = "EXECUTION"
             /\ reply[d].kind = "EXECUTION" =>
                  reply[d].answer \in turnsOf[d] \cup {NoTurn} /\ "WORKER" \in recorded'[d]
             /\ "API" \in recorded'[d] => caller'[d] = "FAILED"
    BY <1>1 DEF RepliesTell
  <2>1. /\ d \in queued => reply[d] = NoReply /\ caller[d] # "NEW"
        /\ caller[d] = "NEW" => reply[d] = NoReply
        /\ caller[d] = "ANSWERED" => reply[d].kind = "EXECUTION"
        /\ reply[d].kind = "EXECUTION" =>
             reply[d].answer \in turnsOf[d] \cup {NoTurn} /\ "WORKER" \in recorded[d]
        /\ "API" \in recorded[d] => caller[d] = "FAILED"
    BY DEF AgentInv, RepliesTell
  <2>2. CASE d # c
    BY <1>4, <1>5, <1>6, <2>1, <2>2
  <2>3. CASE d = c
    BY <1>3, <1>4, <1>5, <1>6, <2>1, <2>3
  <2> QED BY <2>2, <2>3
<1> QED BY <1>8, <1>9, <1>10 DEF AgentInv

LEMMA RequestTaken ==
  ASSUME AgentInv, NEW c \in Call, TakeRequest(c)
  PROVE  AgentInv'
<1>1. /\ queued' = queued \ {c} /\ c \in queued
      /\ slot' = [step |-> "THREAD", call |-> c, turn |-> NoTurn, answer |-> NoTurn, ok |-> FALSE]
      /\ rid < MaxRequests /\ rid' = rid + 1
      /\ UNCHANGED <<caller, reply, recorded, turnsOf, faults>>
      /\ running' \subseteq running /\ alive' = TRUE
      /\ unanswered' \subseteq unanswered \cup {[id |-> rid + 1, kind |-> "THREAD"]}
  BY DEF TakeRequest
<1>2. rid' \in 0..MaxRequests /\ rid + 1 \in RequestId
  BY <1>1, AgentCallsAssumption DEF AgentInv, AgentTyped, RequestId
<1>3. slot' \in SlotRow /\ slot'.call = c /\ slot'.answer = NoTurn /\ slot'.step = "THREAD"
  BY <1>1 DEF SlotRow, SlotStep, NoTurn
<1>4. AgentTyped'
  BY <1>1, <1>2, <1>3 DEF AgentInv, AgentTyped
<1>5. SlotServes'
  BY <1>1, <1>3 DEF AgentInv, SlotServes, RepliesTell
<1>6. RepliesTell'
  BY <1>1 DEF AgentInv, RepliesTell
<1> QED BY <1>4, <1>5, <1>6 DEF AgentInv

(* The execution is stored, then answered; or nothing is.                  *)
LEMMA Answering ==
  ASSUME AgentInv, Store \/ StoreFails \/ Reply \/ WorkerDies
  PROVE  AgentInv'
<1>1. slot # FreeSlot /\ slot \in SlotRow
  BY DEF Store, StoreFails, Reply, WorkerDies, FreeSlot, AgentInv, AgentTyped
<1> DEFINE c == slot.call
<1>2. /\ c \in Call /\ slot.answer \in turnsOf[c] \cup {NoTurn}
      /\ c \notin queued /\ reply[c] = NoReply /\ caller[c] # "NEW"
      /\ slot.step = "REPLY" => "WORKER" \in recorded[c]
  BY <1>1 DEF SlotRow, AgentInv, SlotServes
<1>3. UNCHANGED <<caller, queued, rid, turnsOf>> /\ (Fault \/ UNCHANGED faults)
  BY DEF Store, StoreFails, Reply, WorkerDies, callerVars
<1>4. faults' \in 0..MaxFaults
  BY <1>3, FaultsTyped
<1>5. /\ running' \subseteq RequestId /\ \A r \in unanswered' : r.id \in RequestId
      /\ alive' \in BOOLEAN
  BY DEF Store, StoreFails, Reply, WorkerDies, serverVars, AgentInv, AgentTyped
<1>6. CASE Store
  <2>1. /\ slot' = [slot EXCEPT !.step = "REPLY"] /\ reply' = reply
        /\ recorded' = [recorded EXCEPT ![c] = @ \cup {"WORKER"}]
    BY <1>6 DEF Store
  <2>2. /\ slot' \in SlotRow /\ slot' # FreeSlot /\ slot'.step = "REPLY" /\ slot'.call = c
        /\ slot'.answer = slot.answer
    BY <1>1, <2>1, SlotMoves DEF SlotStep
  <2> HIDE DEF c
  <2>3. /\ recorded' \in [Call -> SUBSET {"API", "WORKER"}]
        /\ \A d \in Call : recorded'[d] = IF d = c THEN recorded[d] \cup {"WORKER"} ELSE recorded[d]
    BY <2>1 DEF AgentInv, AgentTyped
  <2>4. AgentTyped'
    BY <1>3, <1>4, <1>5, <2>1, <2>2, <2>3 DEF AgentInv, AgentTyped
  <2>5. SlotServes'
    BY <1>2, <1>3, <2>1, <2>2, <2>3 DEF SlotServes
  <2>6. RepliesTell'
    BY <1>3, <2>1, <2>3 DEF AgentInv, RepliesTell
  <2> QED BY <2>4, <2>5, <2>6 DEF AgentInv
<1>7. CASE WorkerDies
  <2>1. slot' = FreeSlot /\ UNCHANGED <<reply, recorded>>
    BY <1>7 DEF WorkerDies, callerVars
  <2>2. AgentTyped'
    BY <1>3, <1>4, <1>5, <2>1 DEF AgentInv, AgentTyped
  <2>3. SlotServes' /\ RepliesTell'
    BY <1>3, <2>1 DEF AgentInv, SlotServes, RepliesTell
  <2> QED BY <2>2, <2>3 DEF AgentInv
<1>8. CASE StoreFails \/ Reply
  <2>1. PICK row : /\ reply' = [reply EXCEPT ![c] = row]
                   /\ \/ row.kind = "ERROR"
                      \/ /\ row.answer \in turnsOf[c] \cup {NoTurn}
                         /\ "WORKER" \in recorded[c]
    <3>1. CASE StoreFails
      <4> DEFINE row == [kind |-> "ERROR"]
      <4>1. reply' = [reply EXCEPT ![c] = row] /\ row.kind = "ERROR"
        BY <3>1 DEF StoreFails
      <4> HIDE DEF row, c
      <4> QED BY <4>1
    <3>2. CASE Reply
      <4> DEFINE row == [kind |-> "EXECUTION", answer |-> IF slot.ok THEN slot.answer ELSE NoTurn]
      <4>1. reply' = [reply EXCEPT ![c] = row] /\ "WORKER" \in recorded[c]
            /\ row.answer \in turnsOf[c] \cup {NoTurn}
        BY <1>2, <3>2 DEF Reply
      <4> HIDE DEF row, c
      <4> QED BY <4>1
    <3> QED BY <1>8, <3>1, <3>2
  <2>2. slot' = FreeSlot /\ recorded' = recorded
    BY <1>8 DEF StoreFails, Reply
  <2> HIDE DEF c
  <2>3. DOMAIN reply' = Call /\ \A d \in Call : reply'[d] = IF d = c THEN row ELSE reply[d]
    BY <2>1 DEF AgentInv, AgentTyped
  <2>4. AgentTyped'
    BY <1>3, <1>4, <1>5, <2>2, <2>3 DEF AgentInv, AgentTyped
  <2>5. SlotServes'
    BY <2>2 DEF SlotServes
  <2>6. caller[c] # "ANSWERED"
    BY <1>2 DEF AgentInv, RepliesTell, NoReply
  <2>7. RepliesTell'
    BY <1>2, <1>3, <2>1, <2>2, <2>3, <2>6 DEF AgentInv, RepliesTell
  <2> QED BY <2>4, <2>5, <2>7 DEF AgentInv
<1> QED BY <1>6, <1>7, <1>8

LEMMA AgentStep == AgentInv /\ [AgentCallsNext]_agentVars => AgentInv'
BY Talking, ServerActs, CallerActs, RequestTaken, Answering DEF AgentCallsNext

(* Type invariant of the calls, the slot of the runtime and its turns.     *)
THEOREM AgentCallsTypeCorrect == AgentCallsSpec => []AgentCallsTypeOK
<1>1. AgentCallsSpec => []AgentInv
  BY AgentStart, AgentStep, PTL DEF AgentCallsSpec
<1>2. AgentInv => AgentCallsTypeOK
  BY DEF AgentInv, AgentTyped, AgentCallsTypeOK, SlotRow, SlotStep, FreeSlot, RequestId
<1> QED BY <1>1, <1>2, PTL

(* An answered call carries what a turn of its own produced, whatever      *)
(* replies of abandoned calls are still in the stream of the runtime.      *)
THEOREM AnswersAreOwn == AgentCallsSpec => []AnswerIsOwn
<1>1. AgentCallsSpec => []AgentInv
  BY AgentStart, AgentStep, PTL DEF AgentCallsSpec
<1>2. AgentInv => AnswerIsOwn
  <2> SUFFICES ASSUME AgentInv, NEW c \in Call, caller[c] = "ANSWERED"
               PROVE  /\ reply[c].answer \in turnsOf[c] \cup {NoTurn}
                      /\ recorded[c] = {"WORKER"}
    BY DEF AnswerIsOwn
  <2>1. /\ reply[c].answer \in turnsOf[c] \cup {NoTurn} /\ "WORKER" \in recorded[c]
        /\ "API" \notin recorded[c]
    BY DEF AgentInv, RepliesTell
  <2>2. recorded[c] \subseteq {"API", "WORKER"}
    BY DEF AgentInv, AgentTyped
  <2> QED BY <2>1, <2>2
<1> QED BY <1>1, <1>2, PTL

=============================================================================
