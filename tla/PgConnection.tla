---------------------------- MODULE PgConnection ----------------------------
(***************************************************************************)
(* The whole life of a connection: CoreConnection.__init__ makes a socket, *)
(* asks for TLS, sends the startup message, authenticates and reads up to  *)
(* ReadyForQuery; then the session of PgSession goes on.  Any exception    *)
(* before that closes the socket, except one raised by the TLS handshake,  *)
(* when nobody holds the socket yet.                                       *)
(*                                                                         *)
(* The server's end of SCRAM is that of Scram, and it answers an error     *)
(* with an ErrorResponse.                                                  *)
(***************************************************************************)
EXTENDS PgSession, Scram

VARIABLES
  phase,     \* "connect", "ssl", "startup", "open", "failed" or "leaked"
  asked,     \* startup messages under way to the server
  told,      \* startup messages under way to the client
  settings,  \* the caller's: [ssl, password]
  auth,      \* the ScramClient, once there is one
  peer       \* the server's end of it

startup == <<phase, asked, told, settings, auth, peer>>
session == vars
all     == <<startup, session>>

Nobody    == [stage |-> 0, raised |-> FALSE]
Binding   == <<"tls-server-end-point", "certificate">>
OtherType == <<"tls-unique", "certificate">>
OtherCert == <<"tls-server-end-point", "another certificate">>

Accounts == [password : {"right"}, salt : {"salt"}, iterations : {1, MinimumIterations}]

ConnectionInit ==
  /\ Init
  /\ phase = "connect" /\ asked = <<>> /\ told = <<>>
  /\ settings \in [ssl : {"default", "off", "context"}, password : {"right", "wrong", "none"}]
  /\ auth = Nobody /\ peer = Nobody

Ask(m) == asked' = Append(asked, m)

-----------------------------------------------------------------------------
(* The client.                                                              *)

Connect ==
  /\ phase = "connect"
  /\ \/ settings.ssl # "off" /\ phase' = "ssl" /\ Ask([kind |-> "ssl"])
     \/ settings.ssl = "off" /\ phase' = "startup"
        /\ Ask([kind |-> "startup", binding |-> NoBinding])
     \/ phase' = "failed" /\ UNCHANGED asked
  /\ UNCHANGED <<told, settings, auth, peer>>

(* "S": TLS, which may fail; otherwise the caller who has not asked for it goes
   on without. *)
HandleSsl ==
  /\ phase = "ssl" /\ told # <<>> /\ told' = Tail(told)
  /\ LET yes == Head(told) = "S" IN
     \/ yes /\ phase' = "startup" /\ Ask([kind |-> "startup", binding |-> Binding])
     \/ yes /\ phase' = "leaked" /\ UNCHANGED asked
     \/ ~yes /\ settings.ssl = "default" /\ phase' = "startup"
        /\ Ask([kind |-> "startup", binding |-> NoBinding])
     \/ ~yes /\ settings.ssl = "context" /\ phase' = "failed" /\ UNCHANGED asked
  /\ UNCHANGED <<settings, auth, peer>>

Hears(kind) ==
  phase = "startup" /\ told # <<>> /\ Head(told).kind = kind /\ told' = Tail(told)
Fails == phase' = "failed" /\ UNCHANGED asked

(* AuthenticationCleartextPassword, AuthenticationMD5Password *)
HandlePassword ==
  /\ Hears("password")
  /\ IF settings.password = "none" THEN Fails
     ELSE Ask([kind |-> "password", password |-> settings.password]) /\ UNCHANGED phase
  /\ UNCHANGED <<settings, auth, peer>>

SkipUnsupported ==   \* faulty: the message is passed over
  Hears("unsupported") /\ UNCHANGED <<phase, asked, settings, auth, peer>>
HandleUnsupported == Hears("unsupported") /\ Fails /\ UNCHANGED <<settings, auth, peer>>

(* AuthenticationSASL: a client is made and its first message sent. *)
HandleSasl ==
  /\ Hears("sasl")
  /\ LET c == NewClient(Head(told).mechanisms, Head(told).binding, settings.password) IN
     IF settings.password = "none" THEN Fails /\ UNCHANGED auth
     ELSE IF c.raised THEN Fails /\ auth' = c
     ELSE /\ auth' = GetClientFirst(c)
          /\ Ask([kind |-> "first", mech |-> c.mech, message |-> ClientFirst(c)])
          /\ UNCHANGED phase
  /\ UNCHANGED <<settings, peer>>

(* AuthenticationSASLContinue *)
HandleSaslContinue ==
  /\ Hears("continue")
  /\ LET c == SetServerFirst(auth, Head(told).message) IN
     IF c.raised THEN Fails /\ auth' = c
     ELSE /\ auth' = GetClientFinal(c)
          /\ Ask([kind |-> "final", message |-> ClientFinal(c)])
          /\ UNCHANGED phase
  /\ UNCHANGED <<settings, peer>>

(* AuthenticationSASLFinal *)
HandleSaslFinal ==
  /\ Hears("final")
  /\ auth' = SetServerFinal(auth, Head(told).message)
  /\ phase' = IF auth'.raised THEN "failed" ELSE phase
  /\ UNCHANGED <<asked, settings, peer>>

(* AuthenticationOk, ParameterStatus, BackendKeyData *)
HandleStatus == Hears("status") /\ UNCHANGED <<phase, asked, settings, auth, peer>>

(* The loop ends at an ErrorResponse, which is raised, ... *)
HandleStartupError == Hears("error") /\ Fails /\ UNCHANGED <<settings, auth, peer>>

(* ... or at ReadyForQuery.  The constructor's data is not looked at again. *)
Open ==
  /\ Hears("ready")
  /\ phase' = "open" /\ auth' = Nobody /\ peer' = Nobody
  /\ settings' = [ssl |-> "off", password |-> "none"]
  /\ UNCHANGED asked

-----------------------------------------------------------------------------
(* The server, whose authentication is what pg_hba.conf says.               *)

Tell(messages) == told' = told \o messages
Hear(kind) == asked # <<>> /\ Head(asked).kind = kind /\ asked' = Tail(asked)
Error   == <<[kind |-> "error"]>>
Welcome == <<[kind |-> "status"], [kind |-> "status"], [kind |-> "status"], [kind |-> "ready"]>>

AnswerSsl ==
  /\ Hear("ssl") /\ \E a \in {"S", "N", "E"} : Tell(<<a>>)
  /\ UNCHANGED <<phase, settings, auth, peer>>

(* A role may be unknown, have a short iteration count, or be bound to another
   channel than the client's, as behind a proxy. *)
AnswerStartup ==
  /\ Hear("startup")
  /\ LET binding == Head(asked).binding IN
     \/ Tell(Error) /\ UNCHANGED peer
     \/ Tell(Welcome) /\ UNCHANGED peer
     \/ Tell(<<[kind |-> "password"]>>) /\ UNCHANGED peer
     \/ Tell(<<[kind |-> "unsupported"]>>) /\ UNCHANGED peer
     \/ \E offered \in (SUBSET Mechanisms) \ {{}},
          bound \in {NoBinding} \cup (IF binding = NoBinding THEN {} ELSE {binding, OtherType, OtherCert}),
          user \in {{}} \cup {{u} : u \in Accounts} :
          /\ Sha256Plus \in offered <=> bound # NoBinding
          /\ Tell(<<[kind |-> "sasl", mechanisms |-> offered, binding |-> binding]>>)
          /\ peer' = NewServer(Sha256, bound, user)
  /\ UNCHANGED <<phase, settings, auth>>

CheckPassword ==
  /\ Hear("password")
  /\ Tell(IF Head(asked).password = "right" THEN Welcome ELSE Error)
  /\ UNCHANGED <<phase, settings, auth, peer>>

AnswerClientFirst ==
  /\ Hear("first")
  /\ LET s == SetClientFirst(NewServer(Head(asked).mech, peer.binding, peer.user),
                             Head(asked).message) IN
     IF s.raised THEN peer' = GetServerFinal(s) /\ Tell(Error)
     ELSE /\ peer' = GetServerFirst(s)
          /\ Tell(<<[kind |-> "continue", message |-> ServerFirst(s)]>>)
  /\ UNCHANGED <<phase, settings, auth>>

AnswerClientFinal ==
  /\ Hear("final")
  /\ LET s == SetClientFinal(peer, Head(asked).message) IN
     /\ peer' = GetServerFinal(s)
     /\ Tell(IF s.raised THEN Error
             ELSE <<[kind |-> "final", message |-> ServerFinal(s)]>> \o Welcome)
  /\ UNCHANGED <<phase, settings, auth>>

-----------------------------------------------------------------------------
StartUp ==
  \/ Connect \/ HandleSsl
  \/ HandlePassword \/ HandleUnsupported \/ HandleStatus \/ HandleStartupError \/ Open
  \/ HandleSasl \/ HandleSaslContinue \/ HandleSaslFinal
  \/ AnswerSsl \/ AnswerStartup \/ CheckPassword \/ AnswerClientFirst \/ AnswerClientFinal

ConnectionNext ==
  \/ StartUp /\ UNCHANGED session
  \/ phase = "open" /\ Next /\ UNCHANGED startup

ConnectionSpec ==
  /\ ConnectionInit /\ [][ConnectionNext]_all
  /\ WF_all(StartUp /\ UNCHANGED session)
  /\ WF_all(phase = "open" /\ SendBind /\ UNCHANGED startup)
  /\ WF_all(phase = "open" /\ Handle /\ UNCHANGED startup)
  /\ WF_all(phase = "open" /\ Serve /\ UNCHANGED startup)

-----------------------------------------------------------------------------
(* Why a SCRAM exchange may fail: what RFC 5802 says of the two ends. *)
Incompatible ==
  \/ auth.password # "right" \/ peer.user = {}
  \/ \E u \in peer.user : u.iterations < MinimumIterations
  \/ auth.mech.plus /\ auth.binding # peer.binding

(* An exchange fails, at either end, only for such a reason; and when the client
   has accepted, the server has, of the same exchange, and nothing is wrong. *)
ExchangeIsRight ==
  auth # Nobody /\ peer # Nobody =>
    /\ auth.raised \/ peer.raised => Incompatible
    /\ auth.stage = Done =>
         ~Incompatible /\ peer.stage = Done /\ ~peer.raised /\ auth.nonce = peer.nonce

(* A session starts with nothing left over from the startup, which has been read to
   its end, and remains in step unless an exception leaves an operation. *)
StartsInStep == phase = "open" => asked = <<>> /\ told = <<>>
StepIsKept   == StartsInStep /\ OutOfStepHasCause

(* The constructor returns or raises, whatever the server demands and answers, and
   while the session is in step every operation comes to its end. *)
StartupEnds == phase \in {"connect", "ssl", "startup"} ~> phase \in {"open", "failed", "leaked"}
CallsEnd    == StartupEnds /\ OperationsEnd
=============================================================================
