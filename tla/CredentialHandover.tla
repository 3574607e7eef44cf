------------------------- MODULE CredentialHandover -------------------------
(***************************************************************************)
(* What a password rotation between two stores promises when rotations do  *)
(* not overlap.  `inForce` is the password the database accepts,           *)
(* `published` the one clients read from the parameter store, `previous`   *)
(* the one that was in force before.  A change is made only while the two  *)
(* stores agree, and what is published afterwards is the change itself:    *)
(* clients are at most one password behind, never two, and the password    *)
(* they read was in force at some time.                                    *)
(* How a rotation is carried out (who runs it, what is sent, what fails)   *)
(* is left to Rotator, which implements this specification.                *)
(***************************************************************************)
CONSTANTS Password, InitialPassword

VARIABLES inForce, published, previous

vars == <<inForce, published, previous>>

Init ==
  /\ inForce = InitialPassword
  /\ published = InitialPassword
  /\ previous = InitialPassword

Change(p) ==
  /\ inForce = published
  /\ p # inForce
  /\ inForce' = p
  /\ previous' = inForce
  /\ UNCHANGED published

Publish ==
  /\ published # inForce
  /\ published' = inForce
  /\ UNCHANGED <<inForce, previous>>

Next == Publish \/ \E p \in Password : Change(p)

Spec == Init /\ [][Next]_vars

(* Clients hold the password in force or the one just before it. *)
AtMostOneBehind == published \in {inForce, previous}
=============================================================================
