---------------------------- MODULE OneTimeSecret ----------------------------
(***************************************************************************)
(* What a shared secret promises its creator (secrets.service.ts), without *)
(* rows, checks, passphrases or crashes.  A reader takes hold of a secret  *)
(* only while it is live; burning it is final; a holder gets the content   *)
(* only of a burned secret.  So the readers who can ever get it are those  *)
(* who held it at the moment it was burned.                                *)
(***************************************************************************)
CONSTANTS Secrets, Readers

VARIABLES
  status,   \* of each secret: unborn, live or burned
  holders,  \* of each secret: the readers that took hold of it
  given     \* of each secret: the readers that were given its content

Init ==
  /\ status = [s \in Secrets |-> "unborn"]
  /\ holders = [s \in Secrets |-> {}]
  /\ given = [s \in Secrets |-> {}]

Make(s) ==
  /\ status[s] = "unborn"
  /\ status' = [status EXCEPT ![s] = "live"]
  /\ UNCHANGED <<holders, given>>

Hold(s, r) ==
  /\ status[s] = "live"
  /\ holders' = [holders EXCEPT ![s] = @ \cup {r}]
  /\ UNCHANGED <<status, given>>

\* by a view, a revocation, or the erasure of expired secrets, several at once
Burn(S) ==
  /\ \A s \in S: status[s] = "live"
  /\ status' = [s \in Secrets |-> IF s \in S THEN "burned" ELSE status[s]]
  /\ UNCHANGED <<holders, given>>

Give(s, r) ==
  /\ status[s] = "burned"
  /\ r \in holders[s]
  /\ given' = [given EXCEPT ![s] = @ \cup {r}]
  /\ UNCHANGED <<status, holders>>

Next ==
  \/ \E s \in Secrets: Make(s)
  \/ \E s \in Secrets, r \in Readers: Hold(s, r) \/ Give(s, r)
  \/ \E S \in SUBSET Secrets: Burn(S)

vars == <<status, holders, given>>

Spec == Init /\ [][Next]_vars

=============================================================================
