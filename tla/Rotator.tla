------------------------------- MODULE Rotator -------------------------------
(***************************************************************************)
(* The password rotation of ssm_rotation/: lambda_handler (src/rotator.py) *)
(* reads the credentials from the SSM parameter, connects to PostgreSQL    *)
(* with them, changes the password with ALTER USER, and then overwrites    *)
(* the parameter.  The two stores are changed by two requests that no      *)
(* transaction spans; the handler has no except clause and keeps the new   *)
(* password in its own memory only.                                        *)
(*                                                                         *)
(* One execution of the handler is an attempt.  EventBridge and Lambda     *)
(* (main.tf) start it: an event delivery is tried once and, being an       *)
(* asynchronous invocation, again after a failed try.  local_test.py runs  *)
(* the same handler against a database on localhost but the real           *)
(* parameter.                                                              *)
(*                                                                         *)
(* A request and its execution are separate steps: PostgreSQL and SSM      *)
(* execute what was sent whether or not the sender is still there.         *)
(***************************************************************************)
EXTENDS Naturals, FiniteSets

CONSTANTS
  Deliveries,       \* events EventBridge hands to Lambda (a duplicate is one more)
  LocalRuns,        \* executions of local_test.py
  MaxTries,         \* tries of one delivery: the first one and Lambda's retries
  Overlap,          \* whether Lambda may run two deliveries at a time
  Faults,           \* what may go wrong, a subset of FaultKinds
  InitialPassword   \* the password before the first rotation

FaultKinds ==
  { "error",      \* a call is answered with an error, or its connection breaks
    "timeout",    \* Lambda ends an execution at its time limit
    "lostreply",  \* a request is executed and its reply does not arrive
    "orphan" }    \* a request is executed after its sender is gone

(***************************************************************************)
(* The 32 random characters of an attempt are new with overwhelming        *)
(* probability: a generated password is named by the attempt that          *)
(* generates it.                                                           *)
(***************************************************************************)
Remote   == Deliveries \X (1..MaxTries)
Local    == LocalRuns \X {1}
Attempts == Remote \cup Local
Password == Attempts \cup {InitialPassword}

ASSUME ConstantsAssumption ==
  /\ MaxTries \in Nat \ {0}
  /\ Deliveries \cap LocalRuns = {}
  /\ Overlap \in BOOLEAN
  /\ Faults \subseteq FaultKinds
  /\ InitialPassword \notin Attempts

(* The database an attempt reaches: DB_HOST. *)
Hosts     == {"rds", "docker"}
AlwaysRds(a) == "rds"   \* a faulty DbHost: local_test.py left pointing to RDS
DbHost(a) == IF a \in Remote THEN "rds" ELSE "docker"

VARIABLES
  pc,           \* where each attempt stands in lambda_handler
  current,      \* current_password of each attempt
  stmt,         \* the ALTER USER of each attempt, as the database sees it
  put,          \* the PutParameter of each attempt, as SSM sees it
  rolpassword,  \* the password each database accepts for the user
  ssm           \* the password in the SSM parameter

vars == <<pc, current, stmt, put, rolpassword, ssm>>

Running  == {"fetching", "connecting", "connected", "altering", "closing",
             "saving", "putting"}
Unsettled == {"denied", "failed", "killed"}  \* ends after which Lambda tries again
PCs      == {"waiting", "success"} \cup Running \cup Unsettled
StmtStates == {"none", "sent", "done", "void"}
PutStates  == {"none", "sent", "done", "void", "resent", "redone"}

Active(a)  == pc[a] \in Running
Altered(a) == stmt[a] = "done"
Stored(a)  == put[a] \in {"done", "resent", "redone"}
Pending(a) == stmt[a] = "sent" \/ put[a] \in {"sent", "resent"}

(* The types of the variables: what an attempt fetches and what the stores hold
   is a password (creds['password'], rotator.py 17). *)
TypeOK ==
  /\ pc \in [Attempts -> PCs]
  /\ current \in [Attempts -> Password]
  /\ stmt \in [Attempts -> StmtStates]
  /\ put \in [Attempts -> PutStates]
  /\ rolpassword \in [Hosts -> Password]
  /\ ssm \in Password

Init ==
  /\ pc = [a \in Attempts |-> "waiting"]
  /\ current = [a \in Attempts |-> InitialPassword]
  /\ stmt = [a \in Attempts |-> "none"]
  /\ put = [a \in Attempts |-> "none"]
  /\ rolpassword = [h \in Hosts |-> InitialPassword]
  /\ ssm = InitialPassword

Move(a, from, to) == pc[a] = from /\ pc' = [pc EXCEPT ![a] = to]

-----------------------------------------------------------------------------
(* EventBridge, Lambda and the developer's shell start and end attempts.    *)

CanStart(a) ==
  /\ pc[a] = "waiting"
  /\ a[2] > 1 => pc[<<a[1], a[2] - 1>>] \in Unsettled
  /\ a \in Local \/ Overlap \/ \A b \in Remote : ~Active(b)

Invoke(a) ==
  /\ CanStart(a)
  /\ Move(a, "waiting", "fetching")
  /\ UNCHANGED <<current, stmt, put, rolpassword, ssm>>

(* A request still under way dies with its sender, unless it may be executed
   all the same. *)
Dropped(requests, a) ==
  IF "orphan" \in Faults THEN requests
  ELSE [requests EXCEPT ![a] = IF @ = "sent" THEN "void"
                               ELSE IF @ = "resent" THEN "done" ELSE @]

(* Plausible mistakes in the handler and its environment.  No specification
   uses them; each is put in the place of the definition it resembles to see
   that a property notices. *)

WholeCredentials(a) ==      \* creds is used for creds['password']
  /\ Move(a, "fetching", "connecting")
  /\ current' = [current EXCEPT ![a] = <<ssm>>]
  /\ UNCHANGED <<stmt, put, rolpassword, ssm>>

ConnectUnchecked(a) ==      \* pg_hba.conf says trust
  /\ Move(a, "connecting", "connected")
  /\ UNCHANGED <<current, stmt, put, rolpassword, ssm>>

AlterUnawaited(a) ==        \* the reply to ALTER USER is not read
  /\ stmt[a] \in {"sent", "done"}
  /\ Move(a, "altering", "closing")
  /\ UNCHANGED <<current, stmt, put, rolpassword, ssm>>

TimeOutUnlessPutting(a) ==  \* botocore's retries outlast the time limit
  /\ "timeout" \in Faults
  /\ a \in Remote
  /\ Active(a) /\ pc[a] # "putting"
  /\ pc' = [pc EXCEPT ![a] = "killed"]
  /\ stmt' = Dropped(stmt, a)
  /\ put' = Dropped(put, a)
  /\ UNCHANGED <<current, rolpassword, ssm>>

(* Lambda ends an execution at its time limit, wherever it is. *)
TimeOut(a) ==
  /\ "timeout" \in Faults
  /\ a \in Remote
  /\ Active(a)
  /\ pc' = [pc EXCEPT ![a] = "killed"]
  /\ stmt' = Dropped(stmt, a)
  /\ put' = Dropped(put, a)
  /\ UNCHANGED <<current, rolpassword, ssm>>

-----------------------------------------------------------------------------
(* lambda_handler.  Any call that raises ends the attempt.                  *)

(* ssm_client.get_parameter *)
GetParameter(a) ==
  /\ Move(a, "fetching", "connecting")
  /\ current' = [current EXCEPT ![a] = ssm]
  /\ UNCHANGED <<stmt, put, rolpassword, ssm>>

GetParameterRaises(a) ==
  /\ "error" \in Faults
  /\ Move(a, "fetching", "failed")
  /\ UNCHANGED <<current, stmt, put, rolpassword, ssm>>

(* pg8000.native.Connection: PostgreSQL accepts the password in force. *)
Connect(a) ==
  /\ rolpassword[DbHost(a)] = current[a]
  /\ Move(a, "connecting", "connected")
  /\ UNCHANGED <<current, stmt, put, rolpassword, ssm>>

ConnectRaises(a) ==
  /\ "error" \in Faults
  /\ Move(a, "connecting", "failed")
  /\ UNCHANGED <<current, stmt, put, rolpassword, ssm>>

ConnectDenied(a) ==
  /\ rolpassword[DbHost(a)] # current[a]
  /\ Move(a, "connecting", "denied")
  /\ UNCHANGED <<current, stmt, put, rolpassword, ssm>>

(* con.run sends ALTER USER and waits for the reply. *)
SendAlter(a) ==
  /\ Move(a, "connected", "altering")
  /\ stmt' = [stmt EXCEPT ![a] = "sent"]
  /\ UNCHANGED <<current, put, rolpassword, ssm>>

AlterReturns(a) ==
  /\ stmt[a] = "done"
  /\ Move(a, "altering", "closing")
  /\ UNCHANGED <<current, stmt, put, rolpassword, ssm>>

AlterRaises(a) ==
  /\ \/ stmt[a] = "void"
     \/ stmt[a] = "done" /\ "lostreply" \in Faults
     \/ stmt[a] = "sent" /\ "orphan" \in Faults
  /\ Move(a, "altering", "failed")
  /\ UNCHANGED <<current, stmt, put, rolpassword, ssm>>

(* con.close raises InterfaceError when the socket fails. *)
Close(a) ==
  /\ Move(a, "closing", "saving")
  /\ UNCHANGED <<current, stmt, put, rolpassword, ssm>>

CloseRaises(a) ==
  /\ "error" \in Faults
  /\ Move(a, "closing", "failed")
  /\ UNCHANGED <<current, stmt, put, rolpassword, ssm>>

OldCredentials(a) == current[a]   \* a faulty NewCredentials: creds written back

(* new_creds: the password an attempt writes is the one it generated. *)
NewCredentials(a) == a

(* ssm_client.put_parameter: botocore sends the request, and sends it again
   when it is answered with an error or not answered (a request that SSM has
   executed is repeated once at most). *)
SendPut(a) ==
  /\ Move(a, "saving", "putting")
  /\ put' = [put EXCEPT ![a] = "sent"]
  /\ UNCHANGED <<current, stmt, rolpassword, ssm>>

PutRetries(a) ==
  /\ pc[a] = "putting"
  /\ \/ put[a] = "void" /\ put' = [put EXCEPT ![a] = "sent"]
     \/ /\ put[a] = "done" /\ "lostreply" \in Faults
        /\ put' = [put EXCEPT ![a] = "resent"]
  /\ UNCHANGED <<pc, current, stmt, rolpassword, ssm>>

PutReturns(a) ==
  /\ put[a] \in {"done", "redone"}
  /\ Move(a, "putting", "success")
  /\ UNCHANGED <<current, stmt, put, rolpassword, ssm>>

PutRaises(a) ==
  /\ \/ put[a] = "void"
     \/ put[a] \in {"done", "redone"} /\ "lostreply" \in Faults
     \/ put[a] \in {"sent", "resent"} /\ "orphan" \in Faults
  /\ Move(a, "putting", "failed")
  /\ UNCHANGED <<current, stmt, put, rolpassword, ssm>>

-----------------------------------------------------------------------------
(* PostgreSQL and SSM execute or refuse what they were sent.                *)

ExecuteAlter(a) ==
  /\ stmt[a] = "sent"
  /\ stmt' = [stmt EXCEPT ![a] = "done"]
  /\ rolpassword' = [rolpassword EXCEPT ![DbHost(a)] = a]
  /\ UNCHANGED <<pc, current, put, ssm>>

RefuseAlter(a) ==
  /\ "error" \in Faults
  /\ stmt[a] = "sent"
  /\ stmt' = [stmt EXCEPT ![a] = "void"]
  /\ UNCHANGED <<pc, current, put, rolpassword, ssm>>

ExecutePut(a) ==
  /\ put[a] \in {"sent", "resent"}
  /\ put' = [put EXCEPT ![a] = IF @ = "sent" THEN "done" ELSE "redone"]
  /\ ssm' = NewCredentials(a)
  /\ UNCHANGED <<pc, current, stmt, rolpassword>>

RefusePut(a) ==
  /\ "error" \in Faults
  /\ put[a] = "sent"
  /\ put' = [put EXCEPT ![a] = "void"]
  /\ UNCHANGED <<pc, current, stmt, rolpassword, ssm>>

-----------------------------------------------------------------------------
Handler(a) ==
  \/ GetParameter(a) \/ GetParameterRaises(a)
  \/ Connect(a) \/ ConnectRaises(a) \/ ConnectDenied(a)
  \/ SendAlter(a) \/ AlterReturns(a) \/ AlterRaises(a)
  \/ Close(a) \/ CloseRaises(a)
  \/ SendPut(a) \/ PutRetries(a) \/ PutReturns(a) \/ PutRaises(a)

Servers(a) == ExecuteAlter(a) \/ RefuseAlter(a) \/ ExecutePut(a) \/ RefusePut(a)

(* Nothing is left to do: every delivery has succeeded or used up its tries. *)
Finished ==
  /\ \A a \in Attempts : ~CanStart(a) /\ ~Active(a) /\ ~Pending(a)
  /\ UNCHANGED vars

Next ==
  \/ \E a \in Attempts : Invoke(a) \/ TimeOut(a) \/ Handler(a) \/ Servers(a)
  \/ Finished

Spec == Init /\ [][Next]_vars

(***************************************************************************)
(* Lambda runs a queued event and ends an execution at its time limit;     *)
(* the handler takes its next step; PostgreSQL and SSM serve a request     *)
(* that stays with them.  No fault has to happen.                          *)
(***************************************************************************)
Fairness ==
  \A a \in Attempts :
    /\ WF_vars(Invoke(a))
    /\ WF_vars(TimeOut(a))
    /\ WF_vars(Handler(a))
    /\ WF_vars(ExecuteAlter(a))
    /\ WF_vars(ExecutePut(a))

FairSpec == Spec /\ Fairness

-----------------------------------------------------------------------------
(* Properties.                                                              *)

(* What is published was in force: the parameter (put_parameter, rotator.py
   34-40) never holds a password that no database has accepted, for ALTER
   USER (line 30) is answered before the parameter is written. *)
PublishedWasInForce == ssm \in Attempts => Altered(ssm)

(* The four ways in which the stores come apart. *)
HalfDone    == \E a \in Remote : Altered(a) /\ ~Stored(a)
Forked      == \E a, b \in Remote :
                 a # b /\ Altered(a) /\ Altered(b) /\ current[a] = current[b]
LocalStored == \E a \in Local : Stored(a)
Repeated    == \E a \in Attempts : put[a] = "redone"

(* The parameter and the RDS password differ only when a rotation is half
   done, two rotations started from the same password, a local run wrote the
   parameter, or a parameter write was repeated: a sequence of rotations
   without any of these keeps the stores equal, whatever else fails. *)
DivergenceHasCause ==
  ssm # rolpassword["rds"] => HalfDone \/ Forked \/ LocalStored \/ Repeated

(***************************************************************************)
(* Why DivergenceHasCause is inductive.  Every password that was in the    *)
(* parameter and is not any more has a successor: a rotation that read it  *)
(* and stored its own.  A rotation whose ALTER USER was executed has       *)
(* superseded what it read for good.  So if the RDS password was published *)
(* and is not any more, its successor contradicts it.                      *)
(***************************************************************************)
(* An attempt alters, then stores (rotator.py 30-40). *)
Ordered(a) ==
  /\ pc[a] \in {"waiting", "fetching", "connecting", "connected"} => stmt[a] = "none"
  /\ pc[a] \in {"closing", "saving", "putting", "success"} => Altered(a)
  /\ pc[a] \notin {"putting", "success"} \cup Unsettled => put[a] = "none"
  /\ put[a] # "none" => Altered(a)

WasPublished(x) == x \in Attempts => Stored(x)

Superseded(x) == \E y \in Remote : Stored(y) /\ current[y] = x

(* The conjunction of these facts, with the parameter and every fetched
   password published by a rotation that has stored it. *)
StoreInv ==
  /\ \A a \in Attempts : Ordered(a)
  /\ rolpassword["rds"] \in Attempts =>
       rolpassword["rds"] \in Remote /\ Altered(rolpassword["rds"])
  /\ WasPublished(ssm)
  /\ \A a \in Attempts : WasPublished(current[a])
  /\ \A a \in Remote : Altered(a) => rolpassword["rds"] # current[a]
  /\ \A x \in Password : WasPublished(x) /\ ssm # x =>
       Superseded(x) \/ Forked \/ LocalStored \/ Repeated

(* The stores differ and no execution under way can still act on RDS. *)
Stranded ==
  /\ ssm # rolpassword["rds"]
  /\ \A a \in Remote :
       /\ ~Pending(a)
       /\ pc[a] \notin Running \ {"fetching", "connecting"}
       /\ pc[a] = "connecting" => current[a] # rolpassword["rds"]

(* Once the stores have come apart no later rotation, retry or local run of
   the handler brings them together: it signs in with what the parameter says
   and has no other password to try (rotator.py 14-29). *)
LockoutIsPermanent == [][Stranded => Stranded']_vars

(* Every delivery ends with a successful try or with its last try failed. *)
Settled(d) == \/ \E n \in 1..MaxTries : pc[<<d, n>>] = "success"
              \/ pc[<<d, MaxTries>>] \in Unsettled

(* Lambda's time limit ends a try even if the handler retries a request for
   ever or hangs (pg8000 connects without a timeout), so every delivery is
   settled in the end. *)
DeliveriesSettle == \A d \in Deliveries : <>Settled(d)

(* No call has raised for a fault, and no try was ended by the time limit. *)
NoneInterrupted == \A a \in Attempts : pc[a] \notin {"failed", "killed"}

(* If rotations do not overlap and none is interrupted, each of them succeeds at
   its first try and the stores end up equal: none is denied, for the next
   rotation signs in with what the last one has written. *)
RotationsSucceed ==
  []NoneInterrupted =>
    /\ \A d \in Deliveries : <>(pc[<<d, 1>>] = "success")
    /\ <>[](ssm = rolpassword["rds"])

(* The password the RDS user had before the one in force. *)
previous == IF rolpassword["rds"] \in Attempts
            THEN current[rolpassword["rds"]] ELSE InitialPassword

Handover == INSTANCE CredentialHandover
              WITH inForce <- rolpassword["rds"], published <- ssm

(* Rotations that do not overlap, whose requests end with them, hand the
   password over: each changes it only while the stores agree. *)
ImplementsHandover == Handover!Spec

-----------------------------------------------------------------------------
(* What the comments of the code say of it; see the violation runs.         *)

(* rotator.py:13 "Fetch current credentials". *)
FetchedIsCurrent ==
  \A a \in Remote : pc[a] = "connecting" /\ ~(\E b \in Attempts \ {a} : Active(b))
                    => current[a] = rolpassword["rds"]

(* rotator.py:33 "Update SSM Parameter Store with new password": when all
   rotations have reported success, clients find the password in force. *)
SuccessMeansPublished ==
  (\A a \in Remote : pc[a] = "success") => ssm = rolpassword["rds"]

=============================================================================
