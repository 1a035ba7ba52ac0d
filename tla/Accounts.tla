------------------------------ MODULE Accounts ------------------------------
(***************************************************************************)
(* The way in: sign-up, e-mail verification, MFA enrolment, login and      *)
(* password recovery (apps/api/app/routes/auth.py), and the desktop        *)
(* terminal every session waits for (modules/mt5/desktop_runtime.py).      *)
(*                                                                         *)
(* An installation has one owner.  A request is one transaction; what it   *)
(* answers may be lost on the way after the commit, and with it a token or *)
(* the authenticator's secret.                                             *)
(***************************************************************************)
EXTENDS Integers

CONSTANTS
  Browser,
  MaxHeld,    \* bound: unused tokens of one kind the owner holds
  MaxMishaps  \* bound: lost answers, lost mails, expired tokens, failed starts

ASSUME AccountsAssumption == MaxHeld \in Nat \ {0} /\ MaxMishaps \in Nat

VARIABLES
  verification,  \* this deployment verifies e-mail addresses
  signup,        \* the sign-up transaction of each browser
  gate,          \* the one sign-up slot is taken
  owner,         \* verified, and MFA confirmed
  held,          \* usable tokens in the owner's hands, by kind
  known,         \* the authenticator holds the secret that is stored
  sessions,      \* the session of each browser
  entered,       \* some session has reached the owner
  terminal,      \* the desktop terminal runs
  mishaps

accountVars == <<verification, signup, gate, owner, held, known, sessions,
                 entered, terminal, mishaps>>

TokenKind == {"EMAIL_VERIFICATION", "MFA_BOOTSTRAP", "MFA_ENROLLMENT",
              "LOGIN_MFA", "PASSWORD_RECOVERY"}
SessionState == {"NONE", "LIVE", "STEPPED_UP"}

AccountsInit ==
  /\ verification \in BOOLEAN
  /\ signup = [b \in Browser |-> "NONE"]
  /\ gate = FALSE
  /\ owner = [verified |-> FALSE, mfa |-> FALSE]
  /\ held = [k \in TokenKind |-> 0]
  /\ known = FALSE
  /\ sessions = [b \in Browser |-> "NONE"]
  /\ entered = FALSE
  /\ terminal = FALSE
  /\ mishaps = 0

(* Spending a token and receiving another: a saturated count stands for    *)
(* the latest ones.                                                        *)
Spend(h, k) == [h EXCEPT ![k] = @ - 1]
Receive(h, k) == IF h[k] < MaxHeld THEN [h EXCEPT ![k] = @ + 1] ELSE h

Smooth == mishaps' = mishaps
Mishap == mishaps < MaxMishaps /\ mishaps' = mishaps + 1

(* What a request issues reaches the owner, by mail or in the answer, or   *)
(* is lost.                                                                *)
Issue(h, k) ==
  \/ Smooth /\ held' = Receive(h, k)
  \/ Mishap /\ held' = h

(***************************************************************************)
(* Sign-up: the slot is read, and taken by an insert that only the unique  *)
(* key decides.                                                            *)
(***************************************************************************)
SignupRead(b) ==
  /\ signup[b] = "NONE" /\ ~gate
  /\ signup' = [signup EXCEPT ![b] = "READ"]
  /\ UNCHANGED <<verification, gate, owner, held, known, sessions, entered, terminal, mishaps>>

(* The insert waits for another one that is open; behind a committed one   *)
(* it fails, and the answer is 409.                                        *)
SignupInsert(b) ==
  /\ signup[b] = "READ"
  /\ \A c \in Browser : signup[c] # "INSERTED"
  /\ signup' = [signup EXCEPT ![b] = IF gate THEN "NONE" ELSE "INSERTED"]
  /\ UNCHANGED <<verification, gate, owner, held, known, sessions, entered, terminal, mishaps>>

(* Mail that cannot be sent rolls the owner back with the slot.            *)
SignupFinish(b) ==
  /\ signup[b] = "INSERTED"
  /\ signup' = [signup EXCEPT ![b] = "NONE"]
  /\ \/ /\ gate' = TRUE
        /\ Issue(held, IF verification THEN "EMAIL_VERIFICATION" ELSE "MFA_BOOTSTRAP")
     \/ verification /\ Mishap /\ UNCHANGED <<gate, held>>
  /\ UNCHANGED <<verification, owner, known, sessions, entered, terminal>>

(***************************************************************************)
(* Verification and enrolment                                              *)
(***************************************************************************)
MutResend ==
  /\ verification /\ gate /\ ~owner.verified
  /\ Issue(held, "EMAIL_VERIFICATION")
  /\ UNCHANGED <<verification, signup, gate, owner, known, sessions, entered, terminal>>
ResendVerification ==
  /\ verification /\ gate /\ ~owner.mfa
  /\ Issue(held, "EMAIL_VERIFICATION")
  /\ UNCHANGED <<verification, signup, gate, owner, known, sessions, entered, terminal>>

VerifyEmail ==
  /\ held["EMAIL_VERIFICATION"] > 0
  /\ owner' = [owner EXCEPT !.verified = TRUE]
  /\ Issue(Spend(held, "EMAIL_VERIFICATION"), "MFA_BOOTSTRAP")
  /\ UNCHANGED <<verification, signup, gate, known, sessions, entered, terminal>>

(* A new secret replaces the stored one, whether or not the owner receives *)
(* it, and whether or not MFA is already confirmed.                        *)
CreateEnrollment ==
  /\ held["MFA_BOOTSTRAP"] > 0
  /\ Issue(Spend(held, "MFA_BOOTSTRAP"), "MFA_ENROLLMENT")
  /\ known' = (mishaps' = mishaps)
  /\ UNCHANGED <<verification, signup, gate, owner, sessions, entered, terminal>>

(* A session is written only once the terminal is alive; a start that      *)
(* fails rolls the whole request back.                                     *)
IssueSession(b, h) ==
  \/ /\ Smooth /\ terminal' = TRUE /\ held' = h
     /\ sessions' = [sessions EXCEPT ![b] = "LIVE"]
     /\ entered' = TRUE
  \/ /\ Mishap /\ terminal' = TRUE /\ held' = h
     /\ UNCHANGED <<sessions, entered>>

ConfirmEnrollment(b) ==
  /\ held["MFA_ENROLLMENT"] > 0 /\ known
  /\ owner' = [owner EXCEPT !.mfa = TRUE]
  /\ IssueSession(b, Spend(held, "MFA_ENROLLMENT"))
  /\ UNCHANGED <<verification, signup, gate, known>>

StartFails ==
  /\ ~terminal /\ known
  /\ held["MFA_ENROLLMENT"] + held["LOGIN_MFA"] > 0
  /\ Mishap
  /\ UNCHANGED <<verification, signup, gate, owner, held, known, sessions, entered, terminal>>

TerminalExits ==
  /\ terminal /\ terminal' = FALSE
  /\ UNCHANGED <<verification, signup, gate, owner, held, known, sessions, entered, mishaps>>

(***************************************************************************)
(* Login                                                                   *)
(***************************************************************************)
(* The password is right: 403 before verification; without MFA an          *)
(* enrolment token, where no address is verified; a challenge otherwise.   *)
BeginSession ==
  /\ gate /\ (verification => owner.verified)
  /\ \/ owner.mfa /\ Issue(held, "LOGIN_MFA")
     \/ ~owner.mfa /\ ~verification /\ Issue(held, "MFA_BOOTSTRAP")
  /\ UNCHANGED <<verification, signup, gate, owner, known, sessions, entered, terminal>>

VerifyChallenge(b) ==
  /\ held["LOGIN_MFA"] > 0 /\ known
  /\ IssueSession(b, Spend(held, "LOGIN_MFA"))
  /\ UNCHANGED <<verification, signup, gate, owner, known>>

StepUp(b) ==
  /\ sessions[b] = "LIVE" /\ known
  /\ sessions' = [sessions EXCEPT ![b] = "STEPPED_UP"]
  /\ UNCHANGED <<verification, signup, gate, owner, held, known, entered, terminal, mishaps>>

(* Ten minutes pass, eight hours pass, or the owner logs out.              *)
EndStepUp(b) ==
  /\ sessions[b] = "STEPPED_UP"
  /\ sessions' = [sessions EXCEPT ![b] = "LIVE"]
  /\ UNCHANGED <<verification, signup, gate, owner, held, known, entered, terminal, mishaps>>

EndSession(b) ==
  /\ sessions[b] # "NONE"
  /\ sessions' = [sessions EXCEPT ![b] = "NONE"]
  /\ UNCHANGED <<verification, signup, gate, owner, held, known, entered, terminal, mishaps>>

TokenExpires(k) ==
  /\ held[k] > 0 /\ Mishap
  /\ held' = Spend(held, k)
  /\ UNCHANGED <<verification, signup, gate, owner, known, sessions, entered, terminal>>

(***************************************************************************)
(* Password recovery                                                       *)
(***************************************************************************)
StartRecovery ==
  /\ verification /\ gate
  /\ Issue(held, "PASSWORD_RECOVERY")
  /\ UNCHANGED <<verification, signup, gate, owner, known, sessions, entered, terminal>>

CompleteRecovery ==
  /\ held["PASSWORD_RECOVERY"] > 0
  /\ held' = Spend(held, "PASSWORD_RECOVERY")
  /\ sessions' = [b \in Browser |-> "NONE"]
  /\ UNCHANGED <<verification, signup, gate, owner, known, entered, terminal, mishaps>>

AccountsNext ==
  \/ \E b \in Browser :
       \/ SignupRead(b) \/ SignupInsert(b) \/ SignupFinish(b)
       \/ ConfirmEnrollment(b) \/ VerifyChallenge(b)
       \/ StepUp(b) \/ EndStepUp(b) \/ EndSession(b)
  \/ ResendVerification \/ VerifyEmail \/ CreateEnrollment
  \/ StartFails \/ TerminalExits \/ BeginSession
  \/ StartRecovery \/ CompleteRecovery
  \/ \E k \in TokenKind : TokenExpires(k)

(* An owner who is not yet in goes on: uses what has arrived, and asks for *)
(* another mail, or logs in, when nothing is left to use.                  *)
CanEnrol == held["MFA_BOOTSTRAP"] > 0 \/ (held["MFA_ENROLLMENT"] > 0 /\ known)
AccountsFairness ==
  /\ WF_accountVars(~CanEnrol /\ held["EMAIL_VERIFICATION"] = 0 /\ ResendVerification)
  /\ WF_accountVars(~owner.mfa /\ VerifyEmail)
  /\ WF_accountVars(~owner.mfa /\ CreateEnrollment)
  /\ WF_accountVars(~owner.mfa /\ ~CanEnrol /\ BeginSession)
  /\ WF_accountVars(owner.mfa /\ ~entered /\ held["LOGIN_MFA"] = 0 /\ BeginSession)
  /\ WF_accountVars(~entered /\ \E b \in Browser : ConfirmEnrollment(b))
  /\ WF_accountVars(~entered /\ \E b \in Browser : VerifyChallenge(b))

AccountsSpec == AccountsInit /\ [][AccountsNext]_accountVars /\ AccountsFairness

(***************************************************************************)
(* Properties                                                              *)
(***************************************************************************)
(* Type invariant of the installation's owner, tokens and sessions.        *)
AccountsTypeOK ==
  /\ verification \in BOOLEAN /\ gate \in BOOLEAN /\ known \in BOOLEAN
  /\ entered \in BOOLEAN /\ terminal \in BOOLEAN
  /\ signup \in [Browser -> {"NONE", "READ", "INSERTED"}]
  /\ owner \in [verified: BOOLEAN, mfa: BOOLEAN]
  /\ held \in [TokenKind -> 0..MaxHeld]
  /\ sessions \in [Browser -> SessionState]
  /\ mishaps \in 0..MaxMishaps

(* Once the single slot is taken, its owner gets in, whatever answer, mail *)
(* or token is lost on the way and however often the terminal fails to     *)
(* start: no step of the enrolment is without a way back.  The one way out *)
(* of reach: MFA is confirmed, a left-over enrolment token then replaces   *)
(* the secret, and the answer that carries the new one is lost.            *)
OwnerGetsIn == gate ~> entered \/ (owner.mfa /\ ~known)
=============================================================================
