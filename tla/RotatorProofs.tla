---------------------------- MODULE RotatorProofs ----------------------------
(***************************************************************************)
(* Theorems about Rotator, for any set of deliveries and local runs, any   *)
(* number of tries and any faults.                                         *)
(***************************************************************************)
EXTENDS Rotator, TLAPS

LEMMA AttemptFacts ==
  /\ Remote \subseteq Attempts
  /\ Local \subseteq Attempts
  /\ Attempts = Remote \cup Local
  /\ Remote \cap Local = {}
  /\ InitialPassword \notin Attempts
  /\ Password = Attempts \cup {InitialPassword}
BY ConstantsAssumption DEF Attempts, Password, Remote, Local

LEMMA DroppedType ==
  ASSUME NEW S, NEW requests \in [Attempts -> S], NEW a \in Attempts,
         {"void", "done"} \subseteq S
  PROVE  Dropped(requests, a) \in [Attempts -> S]
BY DEF Dropped

-----------------------------------------------------------------------------
LEMMA TypeInit == Init => TypeOK
BY DEF Init, TypeOK, PCs, StmtStates, PutStates, Password

LEMMA TypeStep == TypeOK /\ [Next]_vars => TypeOK'
<1> SUFFICES ASSUME TypeOK, [Next]_vars PROVE TypeOK'
  OBVIOUS
<1> USE DEF TypeOK
<1>1. ASSUME NEW a \in Attempts, Invoke(a) PROVE TypeOK'
  BY <1>1 DEF Invoke, Move, PCs, Running
<1>2. ASSUME NEW a \in Attempts, TimeOut(a) PROVE TypeOK'
  BY <1>2, DroppedType DEF TimeOut, PCs, Unsettled, StmtStates, PutStates
<1>3. ASSUME NEW a \in Attempts, Handler(a) PROVE TypeOK'
  BY <1>3, AttemptFacts
  DEF Handler, GetParameter, GetParameterRaises, Connect, ConnectRaises, ConnectDenied,
      SendAlter, AlterReturns, AlterRaises, Close, CloseRaises, SendPut,
      PutRetries, PutReturns, PutRaises, Move, PCs, Running, Unsettled,
      StmtStates, PutStates
<1>4. ASSUME NEW a \in Attempts, Servers(a) PROVE TypeOK'
  BY <1>4, AttemptFacts
  DEF Servers, ExecuteAlter, RefuseAlter, ExecutePut, NewCredentials, RefusePut,
      StmtStates, PutStates
<1>5. CASE UNCHANGED vars
  BY <1>5 DEF vars
<1>. QED
  BY <1>1, <1>2, <1>3, <1>4, <1>5 DEF Next, Finished

(* Every variable keeps its type in every reachable state. *)
THEOREM TypeCorrect == Spec => []TypeOK
BY TypeInit, TypeStep, PTL DEF Spec

-----------------------------------------------------------------------------
(* A step forgets nothing: what was altered, stored or repeated stays so, and
   an attempt that has altered keeps the password it had read. *)
Remembers(a) ==
  /\ Altered(a) => stmt'[a] = "done" /\ current'[a] = current[a]
  /\ Stored(a) => put'[a] \in {"done", "resent", "redone"}
  /\ put[a] = "redone" => put'[a] = "redone"
  /\ current'[a] \in {current[a], ssm}

(* The stores change only when a request is executed. *)
StoresChange ==
  /\ \/ \E a \in Attempts : ExecuteAlter(a)
     \/ /\ rolpassword' = rolpassword
        /\ \A a \in Attempts : stmt'[a] = "done" => Altered(a)
  /\ \/ \E a \in Attempts : ExecutePut(a)
     \/ /\ ssm' = ssm
        /\ \A a \in Attempts : put'[a] \in {"done", "resent", "redone"} => Stored(a)

LEMMA StepEffects ==
  ASSUME TypeOK, \A a \in Attempts : Ordered(a), [Next]_vars
  PROVE  StoresChange /\ \A a \in Attempts : Remembers(a) /\ Ordered(a)'
<1> USE DEF TypeOK, Ordered, Altered, Stored, Unsettled
<1> DEFINE Goal == StoresChange /\ \A a \in Attempts : Remembers(a) /\ Ordered(a)'
<1>1. ASSUME NEW a \in Attempts, Invoke(a) PROVE Goal
  BY <1>1 DEF Invoke, Move, StoresChange, Remembers
<1>2. ASSUME NEW a \in Attempts, TimeOut(a) PROVE Goal
  <2>1. /\ pc' = [pc EXCEPT ![a] = "killed"] /\ pc[a] \in Running
        /\ UNCHANGED <<current, rolpassword, ssm>>
    BY <1>2 DEF TimeOut, Active
  <2>2. \A b \in Attempts : /\ stmt'[b] = "done" <=> stmt[b] = "done"
                            /\ stmt[b] = "none" => stmt'[b] = "none"
    BY <1>2 DEF TimeOut, Dropped, StmtStates
  <2>3. \A b \in Attempts : /\ Stored(b) <=> put'[b] \in {"done", "resent", "redone"}
                            /\ put[b] = "redone" => put'[b] = "redone"
                            /\ put[b] = "none" <=> put'[b] = "none"
    BY <1>2 DEF TimeOut, Dropped, PutStates
  <2>4. StoresChange
    BY <2>1, <2>2, <2>3 DEF StoresChange
  <2>5. \A b \in Attempts : Remembers(b)
    BY <2>1, <2>2, <2>3 DEF Remembers
  <2>6. \A b \in Attempts : Ordered(b)'
    BY <2>1, <2>2, <2>3 DEF Running
  <2>. QED
    BY <2>4, <2>5, <2>6
<1>3. ASSUME NEW a \in Attempts, Handler(a) PROVE Goal
  BY <1>3
  DEF Handler, GetParameter, GetParameterRaises, Connect, ConnectRaises, ConnectDenied,
      SendAlter, AlterReturns, AlterRaises, Close, CloseRaises, SendPut,
      PutRetries, PutReturns, PutRaises, Move, StoresChange, Remembers
<1>4. ASSUME NEW a \in Attempts, Servers(a) PROVE Goal
  BY <1>4
  DEF Servers, ExecuteAlter, RefuseAlter, ExecutePut, NewCredentials, RefusePut,
      StoresChange, Remembers
<1>5. CASE UNCHANGED vars
  BY <1>5 DEF vars, StoresChange, Remembers
<1>. QED
  BY <1>1, <1>2, <1>3, <1>4, <1>5 DEF Next, Finished

-----------------------------------------------------------------------------
LEMMA StoreInit == Init => StoreInv
BY AttemptFacts
DEF Init, StoreInv, Ordered, Altered, Stored, WasPublished, Unsettled, Hosts,
    Superseded

LEMMA StoreStep == TypeOK /\ StoreInv /\ [Next]_vars => StoreInv'
<1> SUFFICES ASSUME TypeOK, StoreInv, [Next]_vars PROVE StoreInv'
  OBVIOUS
<1>0. /\ StoresChange
      /\ \A a \in Attempts : Remembers(a) /\ Ordered(a)'
  BY StepEffects DEF StoreInv
<1>1. ASSUME NEW x, WasPublished(x) PROVE WasPublished(x)'
  BY <1>0, <1>1 DEF WasPublished, Stored, Remembers
<1>2. WasPublished(ssm)'
  <2>1. CASE ssm' = ssm
    BY <2>1, <1>1 DEF StoreInv, WasPublished, Stored
  <2>2. ASSUME NEW a \in Attempts, ExecutePut(a) PROVE WasPublished(ssm)'
    BY <2>2 DEF ExecutePut, NewCredentials, WasPublished, Stored, TypeOK
  <2>. QED
    BY <2>1, <2>2, <1>0 DEF StoresChange
<1>3. ASSUME NEW a \in Attempts PROVE WasPublished(current[a])'
  <2>1. current'[a] = current[a] \/ current'[a] = ssm
    BY <1>0 DEF Remembers
  <2>2. WasPublished(current[a])' \/ current'[a] = ssm
    BY <2>1, <1>1 DEF StoreInv, WasPublished, Stored
  <2>. QED
    BY <2>2, <1>1 DEF StoreInv, WasPublished, Stored
<1>4. /\ (rolpassword["rds"] \in Attempts =>
            rolpassword["rds"] \in Remote /\ Altered(rolpassword["rds"]))'
      /\ \A a \in Remote : Altered(a)' => rolpassword'["rds"] # current'[a]
  <2>1. CASE /\ rolpassword' = rolpassword
             /\ \A a \in Attempts : stmt'[a] = "done" => Altered(a)
    BY <2>1, <1>0, AttemptFacts DEF StoreInv, Altered, Remembers
  <2>2. ASSUME NEW b \in Attempts, ExecuteAlter(b)
        PROVE  /\ rolpassword'["rds"] \in Attempts =>
                    rolpassword'["rds"] \in Remote /\ Altered(rolpassword["rds"])'
               /\ \A a \in Remote : Altered(a)' => rolpassword'["rds"] # current'[a]
    <3>1. /\ stmt[b] = "sent" /\ stmt' = [stmt EXCEPT ![b] = "done"]
          /\ rolpassword' = [rolpassword EXCEPT ![DbHost(b)] = b]
          /\ UNCHANGED <<current, put>>
      BY <2>2 DEF ExecuteAlter
    <3>2. \A a \in Attempts : current[a] # b
      BY <3>1 DEF StoreInv, WasPublished, Stored, Ordered, Altered
    <3>3. CASE b \in Remote
      BY <3>1, <3>2, <3>3, AttemptFacts DEF TypeOK, Hosts, DbHost, Altered
    <3>4. CASE b \notin Remote
      BY <3>1, <3>4, AttemptFacts DEF TypeOK, Hosts, DbHost, Altered, StoreInv
    <3>. QED
      BY <3>3, <3>4
  <2>. QED
    BY <2>1, <2>2, <1>0 DEF StoresChange
<1>5. ASSUME NEW x \in Password, WasPublished(x)', ssm' # x
      PROVE  (Superseded(x) \/ Forked \/ LocalStored \/ Repeated)'
  <2>1. (LocalStored => LocalStored') /\ (Repeated => Repeated') /\ (Forked => Forked')
    BY <1>0, AttemptFacts DEF LocalStored, Repeated, Forked, Remembers, Stored, Altered
  <2>2. Superseded(x) => Superseded(x)'
    BY <1>0, AttemptFacts
    DEF Superseded, Remembers, Stored, Altered, StoreInv, Ordered
  <2>3. CASE /\ ssm' = ssm
             /\ \A a \in Attempts : put'[a] \in {"done", "resent", "redone"} => Stored(a)
    BY <2>1, <2>2, <2>3, <1>5 DEF StoreInv, WasPublished, Stored
  <2>4. ASSUME NEW a \in Attempts, ExecutePut(a)
        PROVE  (Superseded(x) \/ Forked \/ LocalStored \/ Repeated)'
    <3>1. /\ ssm' = a /\ put[a] \in {"sent", "resent"}
          /\ put' = [put EXCEPT ![a] = IF @ = "sent" THEN "done" ELSE "redone"]
          /\ UNCHANGED <<current, stmt>>
      BY <2>4 DEF ExecutePut, NewCredentials
    <3>2. Altered(a) /\ Stored(a)'
      BY <3>1 DEF StoreInv, Ordered, Stored, TypeOK
    <3>3. CASE put[a] = "resent"
      BY <3>1, <3>3 DEF Repeated, TypeOK
    <3>4. CASE a \in Local
      BY <3>2, <3>4 DEF LocalStored
    <3>5. CASE put[a] = "sent" /\ a \in Remote
      <4>1. WasPublished(x)
        BY <3>1, <1>5 DEF WasPublished, Stored, TypeOK
      <4>2. CASE current[a] = x
        BY <3>1, <3>2, <3>5, <4>2 DEF Superseded
      <4>3. CASE ssm # x
        BY <4>1, <4>3, <2>1, <2>2 DEF StoreInv
      <4>4. CASE ssm = x /\ current[a] # x
        \* a read another password, which has a successor already: a fork.
        <5>1. Superseded(current[a]) \/ Forked \/ LocalStored \/ Repeated
          BY <4>4 DEF StoreInv, TypeOK
        <5>2. Superseded(current[a]) => Forked
          BY <3>2, <3>5, AttemptFacts DEF Superseded, Forked, StoreInv, Ordered, Stored
        <5>. QED
          BY <5>1, <5>2, <2>1
      <4>. QED
        BY <4>2, <4>3, <4>4
    <3>. QED
      BY <3>1, <3>3, <3>4, <3>5, AttemptFacts
  <2>. QED
    BY <2>3, <2>4, <1>0 DEF StoresChange
<1>. QED
  BY <1>0, <1>2, <1>3, <1>4, <1>5 DEF StoreInv

(* The strengthening holds in every reachable state. *)
THEOREM StoresCorrect == Spec => []StoreInv
BY TypeInit, TypeStep, StoreInit, StoreStep, PTL DEF Spec

(* The parameter only ever holds a password some database has accepted. *)
THEOREM PublicationCorrect == Spec => []PublishedWasInForce
<1>1. StoreInv => PublishedWasInForce
  BY DEF StoreInv, WasPublished, PublishedWasInForce, Ordered, Stored
<1>. QED
  BY <1>1, StoresCorrect, PTL

(* The stores differ for one of four reasons only: had the RDS password been
   published and superseded, its successor, which has altered the password
   too, would contradict that it is in force. *)
THEOREM DivergenceExplained == Spec => []DivergenceHasCause
<1>1. TypeOK /\ StoreInv => DivergenceHasCause
  <2> SUFFICES ASSUME TypeOK, StoreInv, ssm # rolpassword["rds"],
                      ~HalfDone, ~Forked, ~LocalStored, ~Repeated
               PROVE  FALSE
    BY DEF DivergenceHasCause
  <2> DEFINE inForce == rolpassword["rds"]
  <2>1. inForce \in Password
    BY DEF TypeOK, Hosts
  <2>2. WasPublished(inForce)
    BY DEF StoreInv, HalfDone, WasPublished
  <2>3. Superseded(inForce)
    BY <2>1, <2>2 DEF StoreInv
  <2>4. PICK y \in Remote : Stored(y) /\ current[y] = inForce
    BY <2>3 DEF Superseded
  <2>5. Altered(y)
    BY <2>4, AttemptFacts DEF StoreInv, Ordered, Stored
  <2>. QED
    BY <2>4, <2>5 DEF StoreInv
<1>. QED
  BY <1>1, TypeCorrect, StoresCorrect, PTL

-----------------------------------------------------------------------------
(* Once stranded, for ever stranded: an execution that starts later reads a
   password RDS does not accept, and a local run cannot store the RDS one. *)
THEOREM LockoutPermanent == Spec => LockoutIsPermanent
<1>1. TypeOK /\ StoreInv /\ [Next]_vars => (Stranded => Stranded')
  <2> SUFFICES ASSUME TypeOK, StoreInv, [Next]_vars, Stranded PROVE Stranded'
    OBVIOUS
  <2> DEFINE inForce == rolpassword["rds"]
  <2> USE AttemptFacts DEF Stranded, TypeOK, Running, Pending
  <2>1. ASSUME NEW a \in Attempts, Invoke(a) PROVE Stranded'
    BY <2>1 DEF Invoke, Move
  <2>2. ASSUME NEW a \in Attempts, TimeOut(a) PROVE Stranded'
    BY <2>2 DEF TimeOut, Dropped
  <2>3. ASSUME NEW a \in Attempts, Handler(a) PROVE Stranded'
    <3>1. UNCHANGED <<rolpassword, ssm>>
      BY <2>3
      DEF Handler, GetParameter, GetParameterRaises, Connect, ConnectRaises, ConnectDenied,
          SendAlter, AlterReturns, AlterRaises, Close, CloseRaises, SendPut,
          PutRetries, PutReturns, PutRaises
    <3>2. CASE a \in Remote
      BY <2>3, <3>2
      DEF Handler, GetParameter, GetParameterRaises, Connect, ConnectRaises, ConnectDenied,
          SendAlter, AlterReturns, AlterRaises, Close, CloseRaises, SendPut,
          PutRetries, PutReturns, PutRaises, Move, DbHost
    <3>3. CASE a \notin Remote
      <4>1. \A b \in Remote : /\ pc'[b] = pc[b] /\ current'[b] = current[b]
                              /\ stmt'[b] = stmt[b] /\ put'[b] = put[b]
        BY <2>3, <3>3
        DEF Handler, GetParameter, GetParameterRaises, Connect, ConnectRaises, ConnectDenied,
            SendAlter, AlterReturns, AlterRaises, Close, CloseRaises, SendPut,
            PutRetries, PutReturns, PutRaises, Move
      <4>. QED
        BY <3>1, <4>1
    <3>. QED
      BY <3>2, <3>3
  <2>4. ASSUME NEW a \in Attempts, Servers(a) PROVE Stranded'
    <3>1. CASE a \in Remote
      BY <2>4, <3>1 DEF Servers, ExecuteAlter, RefuseAlter, ExecutePut, NewCredentials, RefusePut
    <3>2. CASE a \notin Remote
      BY <2>4, <3>2
      DEF Servers, ExecuteAlter, RefuseAlter, ExecutePut, NewCredentials, RefusePut, NewCredentials, DbHost,
          Hosts, StoreInv
    <3>. QED
      BY <3>1, <3>2
  <2>5. CASE UNCHANGED vars
    BY <2>5 DEF vars
  <2>. QED
    BY <2>1, <2>2, <2>3, <2>4, <2>5 DEF Next, Finished
<1>2. TypeOK /\ StoreInv /\ [Next]_vars => [Stranded => Stranded']_vars
  BY <1>1
<1>. QED
  BY <1>2, TypeCorrect, StoresCorrect, PTL DEF Spec, LockoutIsPermanent

-----------------------------------------------------------------------------
(***************************************************************************)
(* Rotations that do not overlap, run in Lambda only, and whose requests   *)
(* do not outlive them.                                                    *)
(***************************************************************************)
Serial == ~Overlap /\ LocalRuns = {} /\ "orphan" \notin Faults

(* The running attempt holds what it does between the two stores. *)
InStep(a) ==
  LET inForce == rolpassword["rds"]
  IN /\ pc[a] = "connecting" => current[a] = ssm
     /\ pc[a] = "connected" => current[a] = ssm /\ inForce = ssm
     /\ pc[a] = "altering" /\ stmt[a] # "done" => current[a] = ssm /\ inForce = ssm
     /\ pc[a] = "altering" /\ stmt[a] = "done" => inForce = a
     /\ pc[a] \in {"closing", "saving", "putting"} => inForce = a
     /\ stmt[a] = "sent" => pc[a] = "altering"
     /\ put[a] \in {"sent", "resent"} => pc[a] = "putting"
     /\ pc[a] = "putting" /\ Stored(a) => ssm = a

SerialInv ==
  /\ \A a, b \in Remote : Active(a) /\ Active(b) => a = b
  /\ \A a \in Remote : InStep(a)

LEMMA SerialFacts == Serial => Attempts = Remote /\ \A a : DbHost(a) = "rds" \/ a \notin Remote
BY DEF Serial, Attempts, Local, DbHost

LEMMA SerialInit == Serial /\ Init => SerialInv
BY SerialFacts DEF Serial, Init, SerialInv, InStep, Active, Running, Stored

LEMMA SerialStep ==
  Serial /\ TypeOK /\ StoreInv /\ SerialInv /\ [Next]_vars => SerialInv'
<1> SUFFICES ASSUME Serial, TypeOK, StoreInv, SerialInv, [Next]_vars PROVE SerialInv'
  OBVIOUS
<1> USE SerialFacts DEF SerialInv, InStep, TypeOK, Active, Running, Stored
<1>1. ASSUME NEW a \in Attempts, Invoke(a) PROVE SerialInv'
  BY <1>1 DEF Invoke, Move, CanStart, Serial, Local, StoreInv, Ordered
<1>2. ASSUME NEW a \in Attempts, TimeOut(a) PROVE SerialInv'
  BY <1>2 DEF TimeOut, Dropped, Serial
<1>3. ASSUME NEW a \in Attempts, Handler(a) PROVE SerialInv'
  BY <1>3
  DEF Handler, GetParameter, GetParameterRaises, Connect, ConnectRaises, ConnectDenied,
      SendAlter, AlterReturns, AlterRaises, Close, CloseRaises, SendPut,
      PutRetries, PutReturns, PutRaises, Move, Serial
<1>4. ASSUME NEW a \in Attempts, Servers(a) PROVE SerialInv'
  BY <1>4 DEF Servers, ExecuteAlter, RefuseAlter, ExecutePut, NewCredentials, RefusePut, Hosts
<1>5. CASE UNCHANGED vars
  BY <1>5 DEF vars
<1>. QED
  BY <1>1, <1>2, <1>3, <1>4, <1>5 DEF Next, Finished

LEMMA HandoverInit == Init => Handover!Init
BY AttemptFacts DEF Init, Handover!Init, previous, Hosts

LEMMA HandoverStep ==
  Serial /\ TypeOK /\ StoreInv /\ SerialInv /\ [Next]_vars => [Handover!Next]_(Handover!vars)
<1> SUFFICES ASSUME Serial, TypeOK, StoreInv, SerialInv, [Next]_vars
             PROVE  [Handover!Next]_(Handover!vars)
  OBVIOUS
<1> USE SerialFacts, AttemptFacts DEF TypeOK
<1> DEFINE Stutter == UNCHANGED <<rolpassword, ssm>> /\ previous' = previous
<1>0. ASSUME Stutter PROVE [Handover!Next]_(Handover!vars)
  BY <1>0 DEF Handover!vars
<1>1. ASSUME NEW a \in Attempts, Invoke(a) PROVE Stutter
  BY <1>1 DEF Invoke, previous
<1>2. ASSUME NEW a \in Attempts, TimeOut(a) PROVE Stutter
  BY <1>2 DEF TimeOut, previous
<1>3. ASSUME NEW a \in Attempts, Handler(a) PROVE Stutter
  <2>1. CASE GetParameter(a)
    \* a has not altered, so it does not own the password in force.
    <3>1. ~Altered(a)
      BY <2>1 DEF GetParameter, Move, StoreInv, Ordered, Altered
    <3>. QED
      BY <2>1, <3>1 DEF GetParameter, previous, StoreInv, Hosts
  <2>2. CASE ~GetParameter(a)
    BY <1>3, <2>2
    DEF Handler, GetParameterRaises, Connect, ConnectRaises, ConnectDenied,
        SendAlter, AlterReturns, AlterRaises, Close, CloseRaises, SendPut,
        PutRetries, PutReturns, PutRaises, previous
  <2>. QED
    BY <2>1, <2>2
<1>4. ASSUME NEW a \in Attempts, ExecuteAlter(a) PROVE Handover!Change(a)
  <2>1. rolpassword["rds"] # a
    BY <1>4 DEF ExecuteAlter, StoreInv, Altered
  <2>2. current[a] = ssm /\ rolpassword["rds"] = ssm
    BY <1>4 DEF ExecuteAlter, SerialInv, InStep
  <2>3. /\ rolpassword' = [rolpassword EXCEPT !["rds"] = a]
        /\ UNCHANGED <<current, ssm>>
    BY <1>4 DEF ExecuteAlter
  <2>4. rolpassword'["rds"] = a
    BY <2>3 DEF Hosts
  <2>5. previous' = current[a]
    BY <2>3, <2>4 DEF previous
  <2>. QED
    BY <2>1, <2>2, <2>3, <2>4, <2>5 DEF Handover!Change
<1>5. ASSUME NEW a \in Attempts, ExecutePut(a) PROVE Stutter \/ Handover!Publish
  <2>1. /\ rolpassword["rds"] = a /\ ssm' = a
        /\ UNCHANGED <<current, rolpassword>>
    BY <1>5 DEF ExecutePut, NewCredentials, SerialInv, InStep
  <2>2. previous' = previous
    BY <2>1 DEF previous
  <2>. QED
    BY <2>1, <2>2 DEF Handover!Publish
<1>6. ASSUME NEW a \in Attempts, RefuseAlter(a) \/ RefusePut(a) PROVE Stutter
  BY <1>6 DEF RefuseAlter, RefusePut, previous
<1>7. CASE UNCHANGED vars
  BY <1>7 DEF vars, previous, Handover!vars
<1>. QED
  BY <1>0, <1>1, <1>2, <1>3, <1>4, <1>5, <1>6, <1>7
  DEF Next, Finished, Servers, Handover!Next

(* Rotations that do not overlap implement the handover: RDS gets a new
   password only while the stores agree, and only that one is published. *)
THEOREM SerialRotatorImplements == Serial => (Spec => ImplementsHandover)
<1> SUFFICES ASSUME Serial PROVE Spec => ImplementsHandover
  OBVIOUS
<1>1. Init => SerialInv
  BY SerialInit
<1>2. TypeOK /\ StoreInv /\ SerialInv /\ [Next]_vars => SerialInv'
  BY SerialStep
<1>3. TypeOK /\ StoreInv /\ SerialInv /\ [Next]_vars => [Handover!Next]_(Handover!vars)
  BY HandoverStep
<1>. QED
  BY <1>1, <1>2, <1>3, HandoverInit, TypeCorrect, StoresCorrect, PTL
  DEF Spec, ImplementsHandover, Handover!Spec

(* Clients of the parameter are at most one password behind the database if
   rotations do not overlap. *)
THEOREM ClientsAtMostOneBehind == Serial => (Spec => []Handover!AtMostOneBehind)
<1> SUFFICES ASSUME Serial PROVE Spec => []Handover!AtMostOneBehind
  OBVIOUS
<1>1. Handover!Init => Handover!AtMostOneBehind
  BY DEF Handover!Init, Handover!AtMostOneBehind
<1>2. Handover!AtMostOneBehind /\ [Handover!Next]_(Handover!vars)
      => Handover!AtMostOneBehind'
  BY DEF Handover!AtMostOneBehind, Handover!Next, Handover!Change,
         Handover!Publish, Handover!vars
<1>. QED
  BY <1>1, <1>2, SerialRotatorImplements, PTL DEF ImplementsHandover, Handover!Spec

=============================================================================
