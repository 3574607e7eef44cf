------------------------------ MODULE PgSession ------------------------------
(***************************************************************************)
(* A session of pg8000 (CoreConnection, core.py, under native.Connection)  *)
(* with a PostgreSQL server.  The caller's operations write messages to a  *)
(* buffered socket and then read replies until ReadyForQuery; the server   *)
(* works on the messages one by one.  Both directions are queues, and      *)
(* nothing in a reply tells which operation it answers: what keeps the two *)
(* sides in step is that each operation reads all that it caused.  An      *)
(* exception between a request and its ReadyForQuery leaves the session    *)
(* open and out of step.                                                   *)
(*                                                                         *)
(* A message and a reply carry the operation that sent or caused it, for   *)
(* the sake of the properties and of what the server would find in them.   *)
(* Replies whose handlers change nothing are left out: what matters of a   *)
(* row, of COPY data or of a notification is that its handler may raise.   *)
(***************************************************************************)
EXTENDS Naturals, Sequences

CONSTANTS
  MaxOps,      \* operations of the caller in a behaviour
  MaxRaises    \* exceptions other than for an ErrorResponse

ASSUME ConstantsAssumption == MaxOps \in Nat /\ MaxRaises \in Nat

Ids        == 1..MaxOps
Names      == 1..MaxOps        \* pg8000_statement_0, ...
Statements == {"begin", "commit", "rollback", "other", "copyin"}
Kinds      == {"simple", "unnamed", "prepare", "named", "close"}

(* id numbers the operations; `of` is the prepare operation of a prepared
   statement that is run or closed; an unnamed statement may have a stream. *)
Op   == [id : Ids, kind : Kinds, statement : Statements, stream : BOOLEAN,
         name : Names \cup {0}, of : Ids \cup {0}]
NoOp == [id |-> 0]

(* What the server keeps of a statement it has parsed. *)
Parsed(o) == [statement |-> o.statement, of |-> o.of]
Nothing   == [statement |-> "none", of |-> 0]

VARIABLES
  pc,        \* where the caller's operation stands
  op,        \* the operation under way
  error,     \* context.error
  status,    \* _transaction_status: "none" before the first ReadyForQuery
  nums,      \* _statement_nums
  prepared,  \* the PreparedStatements the caller holds, as their prepare operations
  ended,     \* how many operations have ended, and how many of them raised
  buffer,    \* messages written and not flushed
  requests,  \* messages under way to the server
  replies,   \* messages under way to the client
  server,    \* the server: [tx, skip, copying, up]
  unnamed,   \* the server's unnamed statement
  named,     \* [name |-> the server's statement of that name]
  portal,    \* the statement that is bound to the portal
  undone,    \* the operation whose COMMIT has just ended in a rollback
  causes     \* what has put the session out of step

caller  == <<pc, op, error, status, nums, prepared, ended>>
backend == <<server, unnamed, named, portal, undone>>
vars    == <<caller, buffer, requests, replies, backend, causes>>

Reading == {"simple", "parse", "describe", "execute", "prepare", "named", "close"}
PCs     == {"idle", "closed", "binding"} \cup Reading
Types   == {"query", "parse", "describe", "bind", "execute", "close", "sync",
            "copydata", "copydone", "terminate"}
Codes   == {"complete", "ready", "error", "copyin"}

(* The types of the variables; the caller is the only source of operations. *)
TypeOK ==
  /\ pc \in PCs /\ op \in Op \cup {NoOp} /\ error \in BOOLEAN
  /\ status \in {"none", "I", "T", "E"}
  /\ nums \subseteq Names
  /\ prepared \subseteq Op
  /\ ended \in [ops : 0..MaxOps, raises : 0..MaxRaises]
  /\ \A q \in {buffer, requests} : \A i \in DOMAIN q : q[i].type \in Types
  /\ \A i \in DOMAIN replies : replies[i].code \in Codes
  /\ server \in [tx : {"I", "T", "E"}, skip : BOOLEAN, copying : BOOLEAN, up : BOOLEAN]
  /\ LET Kept == [statement : Statements \cup {"none"}, of : Ids \cup {0}] IN
     unnamed \in Kept /\ portal \in Kept /\ named \in [Names -> Kept]
  /\ undone \in Ids \cup {0}
  /\ causes \subseteq {"handler", "params", "staleBind", "lost"}

Init ==
  /\ pc = "idle" /\ op = NoOp /\ error = FALSE /\ status = "none"
  /\ nums = {} /\ prepared = {} /\ ended = [ops |-> 0, raises |-> 0]
  /\ buffer = <<>> /\ requests = <<>> /\ replies = <<>>
  /\ server = [tx |-> "I", skip |-> FALSE, copying |-> FALSE, up |-> TRUE]
  /\ unnamed = Nothing /\ portal = Nothing /\ named = [n \in Names |-> Nothing]
  /\ undone = 0 /\ causes = {}

Messages(o, types) == [i \in DOMAIN types |-> [type |-> types[i], op |-> o]]

(* What was written earlier and not flushed goes out first. *)
Flush(o, types) ==
  /\ requests' = requests \o buffer \o Messages(o, types)
  /\ buffer' = <<>>

-----------------------------------------------------------------------------
(* The caller begins an operation.                                          *)

NextId     == ended.ops + 1
CanBegin   == pc = "idle" /\ NextId \in Ids
LowestFromZero(used) == CHOOSE n \in (0..MaxOps) \ used : \A m \in (0..MaxOps) \ used : n <= m  \* faulty
LowestFree(used) == CHOOSE n \in Names \ used : \A m \in Names \ used : n <= m

Begin(o, types) ==
  /\ CanBegin
  /\ op' = o /\ pc' = IF o.kind = "unnamed" THEN "parse" ELSE o.kind
  /\ error' = FALSE
  /\ Flush(o, types)
  /\ UNCHANGED <<status, prepared, ended, replies, backend, causes>>

ExecuteSimple(s) ==
  /\ Begin([id |-> NextId, kind |-> "simple", statement |-> s, stream |-> FALSE,
            name |-> 0, of |-> 0], <<"query">>)
  /\ UNCHANGED nums

ExecuteUnnamed(s, stream) ==
  /\ Begin([id |-> NextId, kind |-> "unnamed", statement |-> s, stream |-> stream,
            name |-> 0, of |-> 0], <<"parse", "sync">>)
  /\ UNCHANGED nums

(* A name is taken before the server has heard of it, and stays taken if the
   statement is refused. *)
PrepareStatement(s) ==
  /\ CanBegin
  /\ LET n == LowestFree(nums) IN
     /\ Begin([id |-> NextId, kind |-> "prepare", statement |-> s, stream |-> FALSE,
               name |-> n, of |-> NextId], <<"parse", "describe", "sync">>)
     /\ nums' = nums \cup {n}

ExecuteNamedUnsynced(p) ==   \* faulty: no Sync
  /\ p \in prepared
  /\ Begin([p EXCEPT !.id = NextId, !.kind = "named"], <<"bind", "execute">>)
  /\ UNCHANGED nums
ExecuteNamed(p) ==
  /\ p \in prepared
  /\ Begin([p EXCEPT !.id = NextId, !.kind = "named"], <<"bind", "execute", "sync">>)
  /\ UNCHANGED nums

ClosePreparedStatement(p) ==
  /\ p \in prepared
  /\ Begin([p EXCEPT !.id = NextId, !.kind = "close"], <<"close", "sync">>)
  /\ UNCHANGED nums

-----------------------------------------------------------------------------
(* Between its second and third request execute_unnamed makes the parameters. *)

(* The parameters are made when Describe is on its way; Bind is written and not
   flushed, unless it is longer than the buffer. *)
SendBind ==
  /\ pc = "binding" /\ pc' = "describe"
  /\ \/ buffer' = buffer \o Messages(op, <<"bind">>) /\ UNCHANGED requests
     \/ Flush(op, <<"bind">>)
  /\ UNCHANGED <<op, error, status, nums, prepared, ended, replies, backend, causes>>

Finish(raises) ==
  /\ ended' = [ops |-> ended.ops + 1, raises |-> ended.raises + raises]
  /\ pc' = "idle" /\ op' = NoOp /\ error' = FALSE

(* An exception leaves the operation where it is; after SendBind with the Bind
   in the buffer. *)
StaleBind == IF pc = "describe" THEN {"staleBind"} ELSE {}
Raise(why) ==
  /\ ended.raises < MaxRaises
  /\ Finish(1)
  /\ causes' = causes \cup {why} \cup StaleBind
  /\ UNCHANGED <<status, nums, prepared>>

MakeParamsRaises ==
  /\ pc = "binding"
  /\ Raise("params")
  /\ UNCHANGED <<buffer, requests, replies, backend>>

-----------------------------------------------------------------------------
(* handle_messages.                                                         *)

Receives(code) == pc \in Reading /\ replies # <<>> /\ Head(replies).code = code

Ignore ==
  /\ replies' = Tail(replies)
  /\ UNCHANGED <<caller, buffer, requests, backend, causes>>

Complain ==
  /\ error' = TRUE
  /\ replies' = Tail(replies)
  /\ UNCHANGED <<pc, op, status, nums, prepared, ended, buffer, requests, backend, causes>>

Break ==
  /\ Raise("handler")
  /\ replies' = Tail(replies)
  /\ UNCHANGED <<buffer, requests, backend>>

RaiseAtOnce ==   \* faulty: the replies up to ReadyForQuery are not read
  /\ Receives("error") /\ Finish(0)
  /\ replies' = Tail(replies)
  /\ UNCHANGED <<status, nums, prepared, buffer, requests, backend, causes>>
HandleError == Receives("error") /\ Complain

(* While replies are read an input function of a column raises, or the caller's
   stream, or the decoding of a notification that is not ASCII, which another
   session may send at any time. *)
HandlerRaises ==
  /\ pc \in Reading /\ server.up
  /\ Raise("handler")
  /\ UNCHANGED <<buffer, requests, replies, backend>>

(* The whole stream is sent, unless reading it raises. *)
HandleCopyIn ==
  /\ Receives("copyin")
  /\ \/ /\ op.stream
        /\ Flush(op, <<"copydata", "copydone", "sync">>)
        /\ replies' = Tail(replies)
        /\ UNCHANGED <<caller, backend, causes>>
     \/ /\ op.stream
        /\ Raise("handler")
        /\ Flush(op, <<"copydata">>)
        /\ replies' = Tail(replies)
        /\ UNCHANGED backend
     \/ ~op.stream /\ Break

(* The status is that of the last ReadyForQuery.  An operation that closes a
   prepared statement has no statement to look at. *)
NeverComplains == Receives("complete") /\ Ignore   \* faulty: the status is not looked at
HandleCommandComplete ==
  /\ Receives("complete")
  /\ IF status # "E" \/ error THEN Ignore
     ELSE IF op.kind = "close" THEN Break
     ELSE IF op.statement = "rollback" THEN Ignore ELSE Complain

NextRound(next, types) ==
  /\ pc' = next /\ Flush(op, types)
  /\ UNCHANGED <<op, error, ended, nums, prepared>>

(* execute_unnamed has three rounds of request and replies. *)
Continue ==
  CASE pc = "parse"    -> NextRound("binding", <<"describe", "sync">>)
    [] pc = "describe" -> NextRound("execute", <<"execute", "sync">>)
    [] pc \in {"simple", "execute", "named"} ->
         Finish(0) /\ UNCHANGED <<nums, prepared, buffer, requests>>
    [] pc = "prepare"  ->
         Finish(0) /\ prepared' = prepared \cup {op} /\ UNCHANGED <<nums, buffer, requests>>
    [] pc = "close"    ->
         /\ Finish(0)
         /\ prepared' = {p \in prepared : p.of # op.of}
         /\ nums' = nums \ {op.name}
         /\ UNCHANGED <<buffer, requests>>

(* When Describe fails Bind is still in the buffer. *)
HandleReady ==
  /\ Receives("ready")
  /\ status' = Head(replies).tx
  /\ replies' = Tail(replies)
  /\ IF error
     THEN /\ Finish(0)
          /\ causes' = causes \cup StaleBind
          /\ UNCHANGED <<nums, prepared, buffer, requests>>
     ELSE Continue /\ UNCHANGED causes
  /\ UNCHANGED backend

(* The server has closed the connection: _read raises. *)
ReadFails ==
  /\ pc \in Reading /\ replies = <<>> /\ ~server.up
  /\ Raise("lost")
  /\ UNCHANGED <<buffer, requests, replies, backend>>

Close ==
  /\ pc = "idle" /\ pc' = "closed"
  /\ Flush(NoOp, <<"terminate">>)
  /\ UNCHANGED <<op, error, status, nums, prepared, ended, replies, backend, causes>>

-----------------------------------------------------------------------------
(* The server, which may answer anything but a Sync with an error.           *)

Reply(o, codes, tx) == replies' = replies \o
  [i \in DOMAIN codes |-> [code |-> codes[i], op |-> o, tx |-> tx]]

Takes(type) == server.up /\ requests # <<>> /\ Head(requests).type = type
               /\ requests' = Tail(requests)
Works(type) == Takes(type) /\ ~server.skip /\ ~server.copying
Message     == Head(requests)

(* The status after a statement, and after one that fails. *)
After(s)  == CASE s = "begin" -> "T" [] s \in {"commit", "rollback"} -> "I" [] OTHER -> server.tx
AfterFailure(s) == IF server.tx = "I" \/ s = "commit" THEN "I" ELSE "E"
Doomed(s) == server.tx = "E" /\ s \notin {"commit", "rollback"}

(* A statement is executed for operation o. *)
Executes(o, s, ending) ==
  \/ /\ ~Doomed(s)
     /\ server' = [server EXCEPT !.tx = After(s), !.copying = s = "copyin"]
     /\ Reply(o, IF s = "copyin" THEN <<"copyin">> ELSE <<"complete">> \o ending, After(s))
     /\ undone' = IF s = "commit" /\ server.tx = "E" THEN o.id ELSE 0
  \/ /\ server' = [server EXCEPT !.tx = AfterFailure(s), !.skip = ending = <<>>]
     /\ Reply(o, <<"error">> \o ending, AfterFailure(s))
     /\ undone' = IF s = "commit" THEN o.id ELSE 0

Refuses ==
  /\ server' = [server EXCEPT !.skip = TRUE, !.tx = AfterFailure("other")]
  /\ Reply(Message.op, <<"error">>, AfterFailure("other"))
  /\ UNCHANGED <<unnamed, named, portal, undone>>

DoQuery ==
  /\ Works("query")
  /\ Executes(Message.op, Message.op.statement, <<"ready">>)
  /\ UNCHANGED <<unnamed, named, portal>>

DoParse ==
  /\ Works("parse")
  /\ LET o == Message.op IN
     \/ /\ ~Doomed(o.statement)
        /\ o.name # 0 => named[o.name] = Nothing
        /\ IF o.name = 0 THEN unnamed' = Parsed(o) /\ UNCHANGED named
           ELSE named' = [named EXCEPT ![o.name] = Parsed(o)] /\ UNCHANGED unnamed
        /\ UNCHANGED <<server, portal, undone, replies>>
     \/ Refuses

Target == IF Message.op.name = 0 THEN unnamed ELSE named[Message.op.name]

DoDescribe ==
  /\ Works("describe")
  /\ \/ Target # Nothing /\ UNCHANGED <<backend, replies>>
     \/ Refuses

DoBind ==
  /\ Works("bind")
  /\ \/ /\ Target # Nothing /\ ~Doomed(Target.statement)
        /\ portal' = Target
        /\ UNCHANGED <<server, unnamed, named, undone, replies>>
     \/ Refuses

DoExecute ==
  /\ Works("execute")
  /\ IF portal = Nothing THEN Refuses
     ELSE /\ Executes(Message.op, portal.statement, <<>>)
          /\ UNCHANGED <<unnamed, named, portal>>

DoClose ==
  /\ Works("close")
  /\ named' = [named EXCEPT ![Message.op.name] = Nothing]
  /\ UNCHANGED <<server, unnamed, portal, undone, replies>>

(* The end of a sequence, and of a portal outside a transaction. *)
DoSync ==
  /\ Takes("sync") /\ ~server.copying
  /\ server' = [server EXCEPT !.skip = FALSE]
  /\ portal' = IF server.tx = "T" THEN portal ELSE Nothing
  /\ Reply(Message.op, <<"ready">>, server.tx)
  /\ UNCHANGED <<unnamed, named, undone>>

(* After an error everything up to the next Sync is discarded. *)
Skip ==
  /\ server.skip /\ \E t \in Types \ {"sync", "terminate"} : Takes(t)
  /\ UNCHANGED <<backend, replies>>

(* In a COPY Sync is passed over; a message of another kind ends the session.
   COPY data left from an earlier COPY is passed over as well. *)
CopyMore ==
  /\ \/ server.copying /\ (Takes("copydata") \/ Takes("sync"))
     \/ Works("copydata") \/ Works("copydone")
  /\ UNCHANGED <<backend, replies>>

CopyEnds ==
  /\ server.copying /\ Takes("copydone")
  /\ LET o == Message.op IN
     \/ /\ server' = [server EXCEPT !.copying = FALSE]
        /\ Reply(o, <<"complete">>, server.tx)
     \/ /\ server' = [server EXCEPT !.copying = FALSE, !.skip = TRUE, !.tx = AfterFailure("other")]
        /\ Reply(o, <<"error">>, AfterFailure("other"))
  /\ UNCHANGED <<unnamed, named, portal, undone>>

CopyInterrupted ==
  /\ server.copying
  /\ \E t \in Types \ {"copydata", "copydone", "sync", "terminate"} : Takes(t)
  /\ server' = [server EXCEPT !.up = FALSE]
  /\ Reply(Message.op, <<"error">>, server.tx)
  /\ UNCHANGED <<unnamed, named, portal, undone>>

Terminate ==
  /\ Takes("terminate")
  /\ server' = [server EXCEPT !.up = FALSE]
  /\ UNCHANGED <<unnamed, named, portal, undone, replies>>

Serve ==
  /\ \/ DoQuery \/ DoParse \/ DoDescribe \/ DoBind \/ DoExecute \/ DoClose \/ DoSync
     \/ Skip \/ CopyMore \/ CopyEnds \/ CopyInterrupted \/ Terminate
  /\ UNCHANGED <<caller, buffer, causes>>

Handle ==
  \/ HandleError \/ HandleCopyIn
  \/ HandleCommandComplete \/ HandleReady \/ ReadFails

Next ==
  \/ \E s \in Statements : ExecuteSimple(s) \/ PrepareStatement(s)
  \/ \E s \in Statements : \E stream \in {FALSE, s = "copyin"} : ExecuteUnnamed(s, stream)
  \/ \E p \in prepared : ExecuteNamed(p) \/ ClosePreparedStatement(p)
  \/ SendBind \/ Handle \/ Close \/ Serve
  \/ MakeParamsRaises \/ HandlerRaises

Spec == Init /\ [][Next]_vars

-----------------------------------------------------------------------------
Waiting == pc \in Reading /\ replies = <<>> /\ requests = <<>>

(* Between two operations nothing is under way in either direction, the server
   waits for a message, the client knows its status, and the server has every
   prepared statement the caller holds - unless an exception was let out of the
   middle of the replies or of the preparations.  No error of the server alone
   puts the two out of step. *)
OutOfStepHasCause ==
  pc = "idle" /\ causes = {} =>
    /\ buffer = <<>> /\ requests = <<>> /\ replies = <<>>
    /\ ~server.skip /\ ~server.copying
    /\ status \in {"none", server.tx}
    /\ \A p \in prepared : named[p.name] = Parsed(p)

(* A COMMIT that was not done is not reported as done. *)
CommitIsHonest ==
  [][HandleReady /\ causes = {} /\ op.id = undone => error]_vars

(* The caller waits for a reply that nobody owes only if a Bind was left behind
   by a Describe that failed. *)
HangsOnlyOnStaleBind ==
  Waiting /\ server.up => "staleBind" \in causes

(* While the session is in step every operation comes to its end. *)
OperationsEnd == pc \notin {"idle", "closed"} ~> pc = "idle" \/ causes # {}
=============================================================================
