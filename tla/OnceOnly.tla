------------------------------ MODULE OnceOnly ------------------------------
(***************************************************************************)
(* What an Idempotency-Key promises the client, without rows, requests or  *)
(* failures: the work behind a key happens at most once and never after a  *)
(* verdict on it; the verdict is given once, for one request hash, and     *)
(* says whether the work happened; and clients hear verdicts only.         *)
(* Idempotency implements it.                                              *)
(***************************************************************************)
EXTENDS Naturals

CONSTANTS Keys, Hashes

VARIABLES
  count,     \* how often the work of each key happened
  verdict,   \* the hash and the answer each key is settled with
  heard      \* what clients were told: a key, the hash they sent and the answer

Undecided == [hash |-> "none", answer |-> "none"]
Settled(h, answer) == [hash |-> h, answer |-> answer]
Message(k, v) == [key |-> k, hash |-> v.hash, answer |-> v.answer]

Init ==
  /\ count = [k \in Keys |-> 0]
  /\ verdict = [k \in Keys |-> Undecided]
  /\ heard = {}

Perform(k) ==
  /\ count[k] = 0 /\ verdict[k] = Undecided
  /\ count' = [count EXCEPT ![k] = 1]
  /\ UNCHANGED <<verdict, heard>>

\* The verdict, which the client that asked for the work hears or not.
Decide(k, h) ==
  LET v == Settled(h, IF count[k] = 1 THEN "ok" ELSE "refused") IN
  /\ verdict[k] = Undecided
  /\ verdict' = [verdict EXCEPT ![k] = v]
  /\ heard' = heard \/ heard' = heard \cup {Message(k, v)}
  /\ UNCHANGED count

Repeat(k) ==
  /\ verdict[k] # Undecided
  /\ heard' = heard \cup {Message(k, verdict[k])}
  /\ UNCHANGED <<count, verdict>>

Next == \E k \in Keys : Perform(k) \/ (\E h \in Hashes : Decide(k, h)) \/ Repeat(k)

Spec == Init /\ [][Next]_<<count, verdict, heard>>

=============================================================================
