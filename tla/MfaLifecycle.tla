---------------------------- MODULE MfaLifecycle ----------------------------
(***************************************************************************)
(* The second factor of one user: setupMfa, enableMfa, disableMfa and the  *)
(* login challenge of auth/auth.service.                                   *)
(*                                                                         *)
(* Each call reads the row, and writes it after an await, by id.  A call   *)
(* may throw, or the process die, before any write.  A set of backup codes *)
(* is named by the secret it was generated with.  A user can type a code   *)
(* of a secret once its QR code was answered.                              *)
(*                                                                         *)
(* Names begin with Mfa where TenantUsers has the same one: AccountProofs  *)
(* extends both.                                                           *)
(***************************************************************************)
EXTENDS Naturals, FiniteSets

CONSTANTS
  Secrets,   \* generated TOTP secrets; also the bound on setups
  Calls,     \* requests in flight at once
  NoSecret   \* null

ASSUME MfaAssumption == NoSecret \notin Secrets

VARIABLES
  row,        \* mfaEnabled, mfaSecret and mfaBackupCodes of the user
  call,       \* where each request stands, and the secret it generated or verified
  generated,  \* secrets in use or used
  shown,      \* history: secrets whose QR code the user has
  confirmed,  \* history: secrets enableMfa accepted a code of
  raced       \* history: a write fell between the read and the write of another call

mfaVars == <<row, call, generated, shown, confirmed, raced>>

Row  == [enabled: BOOLEAN, secret: Secrets \cup {NoSecret}, codes: Secrets \cup {NoSecret}]
Call == [at: {"idle", "secret", "codes", "enable", "disable", "pass"}, secret: Secrets \cup {NoSecret}]

Idle == [at |-> "idle", secret |-> NoSecret]

MfaInit ==
  /\ row = [enabled |-> FALSE, secret |-> NoSecret, codes |-> NoSecret]
  /\ call = [c \in Calls |-> Idle]
  /\ generated = {} /\ shown = {} /\ confirmed = {} /\ raced = FALSE

-----------------------------------------------------------------------------
\* whether some other call will write on a row it has read
Others(c) == \E d \in Calls \ {c}: call[d].at \notin {"idle", "pass"}

Done(c) == call' = [call EXCEPT ![c] = Idle]

\* mutant of SetupRead: an enabled second factor is replaced
SetupReadMutAnytime(c, s) ==
  /\ call[c].at = "idle" /\ s \notin generated
  /\ generated' = generated \cup {s}
  /\ call' = [call EXCEPT ![c] = [at |-> "secret", secret |-> s]]
  /\ UNCHANGED <<row, shown, confirmed, raced>>

\* setupMfa conflicts when the second factor is enabled
SetupRead(c, s) ==
  /\ call[c].at = "idle" /\ ~row.enabled /\ s \notin generated
  /\ generated' = generated \cup {s}
  /\ call' = [call EXCEPT ![c] = [at |-> "secret", secret |-> s]]
  /\ UNCHANGED <<row, shown, confirmed, raced>>

SetupSecret(c) ==
  /\ call[c].at = "secret"
  /\ row' = [row EXCEPT !.secret = call[c].secret]
  /\ call' = [call EXCEPT ![c].at = "codes"]
  /\ raced' = (raced \/ Others(c))
  /\ UNCHANGED <<generated, shown, confirmed>>

\* the second update, and the answer
SetupCodes(c) ==
  /\ call[c].at = "codes"
  /\ row' = [row EXCEPT !.codes = call[c].secret]
  /\ shown' = shown \cup {call[c].secret}
  /\ Done(c)
  /\ raced' = (raced \/ Others(c))
  /\ UNCHANGED <<generated, confirmed>>

\* verifyTotpCode on the row as read: it has a secret, and the code is of it
Verify(c, next) ==
  /\ call[c].at = "idle" /\ row.secret \in shown
  /\ call' = [call EXCEPT ![c] = [at |-> next, secret |-> row.secret]]
  /\ UNCHANGED <<row, generated, shown, confirmed, raced>>

\* whether or not it is enabled already
Enable(c) ==
  /\ call[c].at = "enable"
  /\ row' = [row EXCEPT !.enabled = TRUE]
  /\ confirmed' = confirmed \cup {call[c].secret}
  /\ Done(c)
  /\ raced' = (raced \/ Others(c))
  /\ UNCHANGED <<generated, shown>>

Disable(c) ==
  /\ call[c].at = "disable"
  /\ row' = [enabled |-> FALSE, secret |-> NoSecret, codes |-> NoSecret]
  /\ Done(c)
  /\ raced' = (raced \/ Others(c))
  /\ UNCHANGED <<generated, shown, confirmed>>

\* completeMfaChallenge writes nothing but the audit event
Pass(c) ==
  /\ call[c].at = "pass"
  /\ Done(c)
  /\ UNCHANGED <<row, generated, shown, confirmed, raced>>

Fails(c) ==
  /\ call[c].at # "idle"
  /\ Done(c)
  /\ UNCHANGED <<row, generated, shown, confirmed, raced>>

Step(c) ==
  \/ \E s \in Secrets: SetupRead(c, s)
  \/ \E next \in {"enable", "disable", "pass"}: Verify(c, next)
  \/ SetupSecret(c) \/ SetupCodes(c) \/ Enable(c) \/ Disable(c) \/ Pass(c) \/ Fails(c)

MfaNext == \E c \in Calls: Step(c)

MfaSpec == MfaInit /\ [][MfaNext]_mfaVars

-----------------------------------------------------------------------------
(* Properties.                                                             *)

MfaTypeOK ==
  /\ row \in Row
  /\ call \in [Calls -> Call]
  /\ generated \subseteq Secrets /\ shown \subseteq generated /\ confirmed \subseteq shown
  /\ raced \in BOOLEAN

\* "Confirm MFA setup by verifying first TOTP code": as long as no write falls
\* between another call's read and write, an enabled second factor is one the user
\* has confirmed, with the backup codes answered with it, even when setups failed
\* half-way before; so the user can pass the challenge or disable it.  (An overlap
\* can leave it enabled with a secret nobody confirmed, or with none: then setup,
\* challenge and disabling are all refused.)
EnabledIsUsable ==
  row.enabled /\ ~raced => row.secret \in confirmed /\ row.codes = row.secret

-----------------------------------------------------------------------------
(* The strengthening that is inductive.                                    *)

\* a setup under way works on a secret of its own that nobody has been shown
Setup == {"secret", "codes"}
SetupsOwn ==
  \A c \in Calls: call[c].at \in Setup =>
    /\ call[c].secret \in generated \ shown
    /\ \A d \in Calls \ {c}: call[d].at \in Setup => call[d].secret # call[c].secret

VerifiedShown ==
  \A c \in Calls: call[c].at = "enable" => call[c].secret \in shown

\* as long as nothing raced, a call's copy is right, and a secret somebody was shown
\* is stored with its own backup codes
Undisturbed ==
  /\ row.secret \in shown => row.codes = row.secret
  /\ row.enabled => row.secret \in confirmed
  /\ \A c \in Calls:
       /\ call[c].at \in {"codes", "enable"} => row.secret = call[c].secret
       /\ call[c].at \in Setup => ~row.enabled

MfaIInv == MfaTypeOK /\ SetupsOwn /\ VerifiedShown /\ (~raced => Undisturbed)

=============================================================================
