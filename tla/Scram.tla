-------------------------------- MODULE Scram --------------------------------
(***************************************************************************)
(* The two ends of a SCRAM exchange as scramp has them (scramp/core.py):   *)
(* ScramClient, which pg8000 uses, and ScramServer, which stands for the   *)
(* other end.  Each end is a record, each method an operator from a record *)
(* (and a message) to the record after the call; a method that raises      *)
(* leaves a record with `raised`.                                          *)
(*                                                                         *)
(* Keys, proofs and signatures are known by what they are computed from:   *)
(* the password, its salt and the messages of the exchange.                *)
(***************************************************************************)
EXTENDS Naturals, Sequences, SequencesExt

Sha1       == [name |-> "SCRAM-SHA-1", plus |-> FALSE, strength |-> 0]
Sha256     == [name |-> "SCRAM-SHA-256", plus |-> FALSE, strength |-> 2]
Sha256Plus == [name |-> "SCRAM-SHA-256-PLUS", plus |-> TRUE, strength |-> 3]
Mechanisms == {Sha1, Sha256, Sha256Plus}

NoBinding == <<>>                     \* channel_binding is None
MinimumIterations == 4096

Done   == 4
Raised(end) == [end EXCEPT !.raised = TRUE]

(* _check_stage and _set_stage: the methods are called in their order. *)
AtStage(end, next) == end.stage + 1 = next

-----------------------------------------------------------------------------
(* ScramClient.                                                             *)

(* Gs2Header.from_binding *)
Gs2Always(binding, plus) ==   \* faulty: whether the mechanism binds is not asked
  IF binding = NoBinding THEN <<"n">> ELSE <<"p", binding[1]>>
Gs2(binding, plus) ==
  IF binding = NoBinding THEN <<"n">>
  ELSE IF plus THEN <<"p", binding[1]>> ELSE <<"y">>

Suitable(mechanisms, binding) == {m \in mechanisms : binding = NoBinding => ~m.plus}
Strongest(mechanisms) ==
  CHOOSE m \in mechanisms : \A n \in mechanisms : n.strength <= m.strength

NewClient(mechanisms, binding, password) ==
  LET suitable == Suitable(mechanisms, binding)
      mech == IF suitable = {} THEN Sha256 ELSE Strongest(suitable) IN
  [ stage |-> 0, raised |-> suitable = {}, mech |-> mech, binding |-> binding,
    password |-> password, gs2 |-> Gs2(binding, mech.plus), nonce |-> <<"c">>,
    server_first |-> <<>>, salt |-> "none", signature |-> <<>> ]

ClientFirst(c) == [gs2 |-> c.gs2, nonce |-> <<"c">>]
GetClientFirst(c) ==
  IF AtStage(c, 1) THEN [c EXCEPT !.stage = 1] ELSE Raised(c)

(* _set_server_first; an error message ends the exchange. *)
SetServerFirst(c, m) ==
  IF \/ ~AtStage(c, 2) \/ "error" \in DOMAIN m
     \/ m.iterations < MinimumIterations \/ ~IsPrefix(c.nonce, m.nonce)
  THEN Raised(c)
  ELSE [c EXCEPT !.stage = 2, !.nonce = m.nonce, !.salt = m.salt, !.server_first = m]

(* _make_cbind_input *)
CbindInput(binding, gs2) == IF gs2[1] = "p" THEN <<gs2, binding[2]>> ELSE <<gs2>>

AuthMessage(client_first, server_first, cbind, nonce) ==
  <<client_first, server_first, cbind, nonce>>
Key(password, salt)    == <<password, salt>>
Proof(key, message)     == <<"client", key, message>>
Signature(key, message) == <<"server", key, message>>

(* _get_client_final *)
ClientMessage(c) == AuthMessage([gs2 |-> c.gs2, nonce |-> <<"c">>], c.server_first,
                                CbindInput(c.binding, c.gs2), c.nonce)
ClientFinal(c) ==
  [ cbind |-> CbindInput(c.binding, c.gs2), nonce |-> c.nonce,
    proof |-> Proof(Key(c.password, c.salt), ClientMessage(c)) ]
GetClientFinal(c) ==
  IF AtStage(c, 3)
  THEN [c EXCEPT !.stage = 3,
                 !.signature = Signature(Key(c.password, c.salt), ClientMessage(c))]
  ELSE Raised(c)

(* _set_server_final *)
SetServerFinal(c, m) ==
  IF ~AtStage(c, 4) \/ "error" \in DOMAIN m \/ m.signature # c.signature
  THEN Raised(c) ELSE [c EXCEPT !.stage = 4]

-----------------------------------------------------------------------------
(* ScramServer.  `user` is the set of what auth_fn returns, empty for a user *)
(* it does not know.                                                        *)

NewServer(mech, binding, user) ==
  [ stage |-> 0, raised |-> mech.plus /\ binding = NoBinding, error |-> "none",
    plus |-> mech.plus, binding |-> binding, user |-> user, gs2 |-> <<>>,
    client_first |-> <<>>, nonce |-> <<>>, signature |-> <<>> ]

(* set_error: an error with a name for the other end can be fetched with
   get_server_final at once. *)
SetError(s, error) == [s EXCEPT !.raised = TRUE, !.error = error, !.stage = 3]

(* _set_client_first: what is wrong with the message, if anything. *)
FirstError(s, m) ==
  IF (m.gs2[1] = "y" /\ s.binding # NoBinding) \/ (m.gs2[1] = "n" /\ s.plus)
    THEN "server-does-support-channel-binding"
  ELSE IF m.gs2[1] = "p" /\ s.binding = NoBinding THEN "channel-binding-not-supported"
  ELSE IF m.gs2[1] = "p" /\ m.gs2[2] # s.binding[1] THEN "unsupported-channel-binding-type"
  ELSE IF s.user = {} THEN "unknown-user" ELSE "none"

SetClientFirst(s, m) ==
  IF ~AtStage(s, 1) THEN Raised(s)
  ELSE IF FirstError(s, m) # "none" THEN SetError(s, FirstError(s, m))
  ELSE [s EXCEPT !.stage = 1, !.gs2 = m.gs2, !.client_first = m,
                 !.plus = @ \/ m.gs2[1] = "p", !.nonce = m.nonce \o <<"s">>]

User(s) == CHOOSE u \in s.user : TRUE
ServerFirst(s) ==
  [nonce |-> s.nonce, salt |-> User(s).salt, iterations |-> User(s).iterations]
GetServerFirst(s) ==
  IF AtStage(s, 2) THEN [s EXCEPT !.stage = 2] ELSE Raised(s)

(* _set_client_final and _check_client_key *)
ServerMessage(s, m) == AuthMessage(s.client_first, ServerFirst(s), m.cbind, s.nonce)
FinalError(s, m) ==
  IF m.cbind # CbindInput(s.binding, s.gs2) THEN "channel-bindings-dont-match"
  ELSE IF m.nonce # s.nonce THEN "other-error"
  ELSE IF m.proof # Proof(Key(User(s).password, User(s).salt), ServerMessage(s, m))
    THEN "invalid-proof"
  ELSE "none"

SetClientFinal(s, m) ==
  IF ~AtStage(s, 3) THEN Raised(s)
  ELSE IF FinalError(s, m) # "none" THEN SetError(s, FinalError(s, m))
  ELSE [s EXCEPT !.stage = 3,
          !.signature = Signature(Key(User(s).password, User(s).salt), ServerMessage(s, m))]

ServerFinal(s) ==
  IF s.error = "none" THEN [signature |-> s.signature] ELSE [error |-> s.error]
GetServerFinal(s) ==
  IF AtStage(s, 4) THEN [s EXCEPT !.stage = 4] ELSE Raised(s)
=============================================================================
