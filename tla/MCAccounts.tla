-------------------------------- MODULE MCAccounts --------------------------------
(* Accounts with the bodies of the checked instances. *)
EXTENDS Accounts, TLC

CONSTANTS s1, s2, e1, e2, n1, n2, p1, p2

\* A registration, which is also an update of everything; logins, which are also
\* updates of the password; an update of the name that sends another address;
\* and one of nothing but the password.
MCBody ==
  {[email |-> e1, name |-> n1, pass |-> p1],
   [email |-> e1, name |-> None, pass |-> Empty],
   [email |-> e1, name |-> None, pass |-> p2],
   [email |-> e2, name |-> n2, pass |-> None],
   [email |-> None, name |-> None, pass |-> p2]}

MCSlot == {s1, s2}
MCSymmetry == Permutations(MCSlot)
=================================================================================
