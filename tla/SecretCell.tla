------------------------------ MODULE SecretCell ------------------------------
(***************************************************************************)
(* What the CredentialStore trait promises of one key: a put, a delete and *)
(* a get that return Ok took effect at one instant, and only when a process *)
(* asked for it.  Of one that fails it promises nothing: the key may be as *)
(* it was, as it was asked to be, empty or damaged.                        *)
(***************************************************************************)
CONSTANTS Procs, Secrets, NoSecret, Torn

VARIABLES
  cell,  \* the secret stored under the key, or NoSecret
  want,  \* what each process is asking for: a new content, or nothing
  got,   \* what each process's last get returned
  told   \* what its last operation told it

Nothing == [asked |-> FALSE, secret |-> NoSecret]

Init ==
  /\ cell = NoSecret
  /\ want = [p \in Procs |-> Nothing]
  /\ got = [p \in Procs |-> NoSecret]
  /\ told = [p \in Procs |-> "ok"]

(* A put of s, or a delete when s is NoSecret, is asked for *)
Ask(p, s) ==
  /\ want[p] = Nothing
  /\ want' = [want EXCEPT ![p] = [asked |-> TRUE, secret |-> s]]
  /\ UNCHANGED <<cell, got, told>>

Tell(p, outcome) == told' = [told EXCEPT ![p] = outcome]

TakeEffect(p) ==
  /\ want[p].asked
  /\ cell' = want[p].secret
  /\ want' = [want EXCEPT ![p] = Nothing]
  /\ Tell(p, "ok")
  /\ UNCHANGED got

GiveUp(p) ==
  /\ want[p].asked
  /\ cell' \in {cell, want[p].secret, NoSecret, Torn}
  /\ want' = [want EXCEPT ![p] = Nothing]
  /\ Tell(p, "failed")
  /\ UNCHANGED got

Get(p) ==
  /\ want[p] = Nothing
  /\ \/ got' = [got EXCEPT ![p] = cell] /\ Tell(p, "ok")
     \/ UNCHANGED got /\ Tell(p, "failed")
  /\ UNCHANGED <<cell, want>>

Next ==
  \E p \in Procs :
    TakeEffect(p) \/ GiveUp(p) \/ Get(p) \/ \E s \in Secrets \cup {NoSecret} : Ask(p, s)

Spec == Init /\ [][Next]_<<cell, want, got, told>>
=============================================================================
