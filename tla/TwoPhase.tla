------------------------------- MODULE TwoPhase -------------------------------
(***************************************************************************)
(* Transactions of the DB-API connection (pg8000/dbapi.py): the implicit   *)
(* BEGIN of a cursor, commit and rollback, and the two-phase calls         *)
(* tpc_begin, tpc_prepare, tpc_commit and tpc_rollback, by applications    *)
(* and by managers that only recover what is left prepared.                *)
(*                                                                         *)
(* tpc_commit and tpc_rollback ask the server for the prepared             *)
(* transactions (tpc_recover) and act on the answer with a second request. *)
(* Between the two others act, and either may find the connection lost.    *)
(* A request and its reply are one step here: PgSession shows that they    *)
(* stay together.                                                          *)
(***************************************************************************)
EXTENDS Naturals

CONSTANTS
  Apps, Managers,   \* connections of applications and of recovery managers
  Gids,             \* global transaction ids
  MaxWork,          \* transactions in a behaviour
  MaxLosses         \* connections lost

ASSUME ConstantsAssumption ==
  /\ Apps \cap Managers = {}
  /\ MaxWork \in Nat /\ MaxLosses \in Nat

Conns == Apps \cup Managers
Works == 1..MaxWork

(* What xid() makes of a format id, a gid and a branch qualifier; tpc_recover
   gives the ids it finds the format 0 and an empty qualifier. *)
Xids == [gid : Gids, plain : BOOLEAN]
Xid(g) == [gid |-> g, plain |-> TRUE]
NoXid == [gid |-> "none"]
NoCall == [verb |-> "none"]

VARIABLES
  mode,        \* [c |-> the autocommit its caller has chosen]
  autocommit,  \* [c |-> its autocommit now]
  status,      \* [c |-> its transaction status]: "I", "T", "E"
  working,     \* [c |-> the work of its transaction, or 0]
  xid,         \* [c |-> its _xid]
  mine,        \* [c |-> the work of its last transaction, or 0]
  call,        \* [c |-> a tpc_commit or tpc_rollback between its two requests]
  held,        \* [g |-> the work that the server holds prepared as g, or 0]
  fate,        \* [w |-> what has become of it]
  told,        \* [w |-> what the last call about it has reported]
  asked,       \* the works whose commit a call has asked for
  why,         \* [w |-> what may have led a report about it astray]
  reused,      \* whether work was prepared under a gid a manager was about to end
  losses       \* connections lost

vars == <<mode, autocommit, status, working, xid, mine, call, held, fate, told,
          asked, why, reused, losses>>
session == <<mode, autocommit, xid, mine, call>>
ledger  == <<told, asked, why, reused, losses>>

Causes == {"id", "plain", "manager", "over"}
Fates == {"none", "open", "prepared", "committed", "aborted"}
Ends  == [commit |-> "committed", rollback |-> "aborted"]

(* The types of the variables: _xid is an id or None (dbapi.py 723, 774, 809). *)
TypeOK ==
  /\ mode \in [Conns -> BOOLEAN] /\ autocommit \in [Conns -> BOOLEAN]
  /\ status \in [Conns -> {"I", "T", "E"}]
  /\ working \in [Conns -> Works \cup {0}]
  /\ mine \in [Conns -> Works \cup {0}]
  /\ xid \in [Conns -> Xids \cup {NoXid}]
  /\ call \in [Conns -> {NoCall} \cup
       [verb : DOMAIN Ends, xid : Xids, found : BOOLEAN, about : Works \cup {0}]]
  /\ held \in [Gids -> Works \cup {0}]
  /\ fate \in [Works -> Fates]
  /\ told \in [Works -> {"nothing", "committed", "aborted"}]
  /\ asked \subseteq Works
  /\ why \in [Works -> SUBSET Causes]
  /\ reused \in BOOLEAN
  /\ losses \in 0..MaxLosses

Init ==
  /\ mode \in {m \in [Conns -> BOOLEAN] : \A c \in Managers : ~m[c]} /\ autocommit = mode
  /\ status = [c \in Conns |-> "I"] /\ working = [c \in Conns |-> 0]
  /\ mine = [c \in Conns |-> 0]
  /\ xid = [c \in Conns |-> NoXid] /\ call = [c \in Conns |-> NoCall]
  /\ held = [g \in Gids |-> 0] /\ fate = [w \in Works |-> "none"]
  /\ told = [w \in Works |-> "nothing"] /\ asked = {}
  /\ why = [w \in Works |-> {}] /\ reused = FALSE /\ losses = 0

Idle(c) == call[c] = NoCall
Fresh   == {w \in Works : fate[w] = "none" /\ \A v \in Works : v < w => fate[v] # "none"}

-----------------------------------------------------------------------------
(* The server: what a request does to transactions.                         *)

(* BEGIN, with the first work of the transaction. *)
Opens(c, w) ==
  /\ status' = [status EXCEPT ![c] = "T"]
  /\ working' = [working EXCEPT ![c] = w]
  /\ fate' = [fate EXCEPT ![w] = "open"]

(* COMMIT, ROLLBACK and what a lost connection amounts to. *)
Closes(c, end) ==
  /\ status' = [status EXCEPT ![c] = "I"]
  /\ working' = [working EXCEPT ![c] = 0]
  /\ fate' = IF working[c] = 0 THEN fate
             ELSE [fate EXCEPT ![working[c]] = IF status[c] = "E" THEN "aborted" ELSE end]

Ask(w, end) == asked' = IF end = "committed" THEN (asked \cup {w}) \ {0} ELSE asked
Excuse(w, causes) == why' = IF w = 0 THEN why ELSE [why EXCEPT ![w] = @ \cup causes]

-----------------------------------------------------------------------------
(* Cursor.execute                                                           *)

Begins(c) == status[c] = "I" /\ ~autocommit[c]

(* A statement that changes data.  Outside a transaction it is a transaction by
   itself.  In a failed one it raises and changes nothing. *)
Execute(c) ==
  /\ c \in Apps /\ Idle(c)
  /\ \/ /\ status[c] = "I"
        /\ \E w \in Fresh :
           /\ IF Begins(c) THEN Opens(c, w)
              ELSE fate' = [fate EXCEPT ![w] = "committed"] /\ UNCHANGED <<status, working>>
           /\ mine' = [mine EXCEPT ![c] = IF mode[c] THEN 0 ELSE w]
     \/ /\ status[c] = "T" /\ status' = [status EXCEPT ![c] = "E"]
        /\ UNCHANGED <<fate, working, mine>>
  /\ UNCHANGED <<mode, autocommit, xid, call, held, ledger>>

(* commit() and rollback(), which nothing stops a caller from using in a
   two-phase transaction.  A COMMIT that the server refuses, for a deferred
   constraint say, ends the transaction as well, and raises. *)
PlainEnd(c, end) ==
  /\ c \in Apps /\ Idle(c) /\ working[c] # 0
  /\ \E outcome \in {end, "aborted"} : Closes(c, outcome)
  /\ Ask(working[c], end)
  /\ Excuse(working[c], IF xid[c] = NoXid THEN {} ELSE {"plain"})
  /\ UNCHANGED <<session, held, told, reused, losses>>

Commit(c)   == PlainEnd(c, "committed")
Rollback(c) == PlainEnd(c, "aborted")

-----------------------------------------------------------------------------
(* The two-phase calls.                                                     *)

(* A gid is not given away while it is known to be in use. *)
Free(c, g)   == held[g] = 0 /\ \A d \in Conns \ {c} : xid[d].gid # g
Ending(g)    == \E d \in Managers : ~Idle(d) /\ call[d].xid.gid = g

TpcBeginGid(c, x) ==   \* faulty: the gid alone is kept
  /\ c \in Apps /\ Idle(c) /\ status[c] = "I"
  /\ xid' = [xid EXCEPT ![c] = x.gid]
  /\ UNCHANGED <<mode, autocommit, status, working, fate, mine, call, held, ledger>>
(* Called outside a transaction, as it asks to be. *)
TpcBegin(c, x) ==
  /\ c \in Apps /\ Idle(c) /\ status[c] = "I" /\ Free(c, x.gid)
  /\ xid' = [xid EXCEPT ![c] = x]
  /\ IF ~autocommit[c] THEN mine' = [mine EXCEPT ![c] = 0] /\ UNCHANGED <<status, working, fate>>
     ELSE \E w \in Fresh : Opens(c, w) /\ mine' = [mine EXCEPT ![c] = w]
  /\ UNCHANGED <<mode, autocommit, call, held, ledger>>

(* PREPARE TRANSACTION takes the work out of the session.  If the server refuses
   it, for the gid is in use or a deferred constraint fails, the call raises and the
   work is rolled back; so is that of a failed transaction, but without an error.
   _xid is kept either way. *)
TpcPrepare(c) ==
  /\ c \in Apps /\ Idle(c) /\ xid[c] # NoXid /\ working[c] # 0
  /\ \/ LET g == xid[c].gid IN
        /\ status[c] = "T" /\ held[g] = 0
        /\ held' = [held EXCEPT ![g] = working[c]]
        /\ fate' = [fate EXCEPT ![working[c]] = "prepared"]
        /\ status' = [status EXCEPT ![c] = "I"] /\ working' = [working EXCEPT ![c] = 0]
        /\ reused' = (reused \/ Ending(g))
     \/ Closes(c, "aborted") /\ UNCHANGED <<held, reused>>
  /\ UNCHANGED <<session, told, asked, why, losses>>

(* `xid in self.tpc_recover()` compares the whole of the ids. *)
Recovered == {Xid(g) : g \in {h \in Gids : held[h] # 0}}

(* What the caller of tpc_commit or tpc_rollback means: the transaction that is
   prepared under the id, else its own. *)
About(c, x) == IF xid[c] # x /\ held[x.gid] # 0 THEN held[x.gid] ELSE mine[c]

(* What may lead the report astray: an id that tpc_recover never returns, a second
   connection that ends the transaction, and a commit of work that is over already. *)
CausesOf(c, verb, x, w) ==
  {k \in Causes : \/ k = "id" /\ ~x.plain
                  \/ k = "manager" /\ c \in Managers
                  \/ k = "over" /\ verb = "commit" /\ w # 0 /\ fate[w] = "aborted"}

(* The first request.  In a failed transaction it raises: the flag is put back,
   the transaction and _xid are left. *)
TpcCall(c, verb, x) ==
  LET w == About(c, x) IN
  /\ Idle(c)
  /\ IF status[c] = "E" THEN UNCHANGED <<call, autocommit, asked, why>>
     ELSE /\ call' = [call EXCEPT ![c] =
               [verb |-> verb, xid |-> x, found |-> x \in Recovered, about |-> w]]
          /\ autocommit' = [autocommit EXCEPT ![c] = TRUE]
          /\ Ask(w, Ends[verb])
          /\ Excuse(w, CausesOf(c, verb, x, w))
  /\ UNCHANGED <<mode, status, working, xid, mine, held, fate, told, reused, losses>>

(* The end of the call: the finally clause, and on success _xid and a report. *)
RestoreOnSuccess(c, raised) ==   \* faulty: not in a finally clause
  autocommit' = IF raised THEN autocommit ELSE [autocommit EXCEPT ![c] = mode[c]]
Restore(c, raised) == autocommit' = [autocommit EXCEPT ![c] = mode[c]]

ReturnAnyway(c, raised) ==   \* faulty: an error of the server is swallowed
  /\ Restore(c, FALSE)
  /\ call' = [call EXCEPT ![c] = NoCall] /\ xid' = [xid EXCEPT ![c] = NoXid]
  /\ told' = [told EXCEPT ![call[c].about] = Ends[call[c].verb]]
  /\ UNCHANGED <<mode, mine, asked, why, reused, losses>>
Return(c, raised) ==
  /\ Restore(c, raised)
  /\ call' = [call EXCEPT ![c] = NoCall]
  /\ xid' = IF raised THEN xid ELSE [xid EXCEPT ![c] = NoXid]
  /\ told' = IF raised \/ call[c].about = 0 THEN told
             ELSE [told EXCEPT ![call[c].about] = Ends[call[c].verb]]
  /\ UNCHANGED <<mode, mine, asked, why, reused, losses>>

EndPreparedByRollback(c) ==   \* faulty: rollback() whether or not the id is found
  /\ ~Idle(c) /\ call[c].found /\ call[c].verb = "rollback"
  /\ Closes(c, "aborted") /\ Return(c, FALSE)
  /\ UNCHANGED held
(* COMMIT PREPARED or ROLLBACK PREPARED. *)
EndPrepared(c) ==
  /\ ~Idle(c) /\ call[c].found
  /\ LET g == call[c].xid.gid IN
     IF status[c] = "T"
     THEN /\ status' = [status EXCEPT ![c] = "E"]    \* not within a transaction
          /\ UNCHANGED <<working, held, fate>>
          /\ Return(c, TRUE)
     ELSE /\ UNCHANGED <<status, working>>
          /\ held' = [held EXCEPT ![g] = 0]
          /\ fate' = IF held[g] = 0 THEN fate
                     ELSE [fate EXCEPT ![held[g]] = Ends[call[c].verb]]
          /\ Return(c, held[g] = 0)

(* commit(), or rollback() if there is a transaction.  If the server refuses the
   COMMIT of a transaction its work is rolled back and the call raises, with _xid
   left; outside a transaction COMMIT does nothing and succeeds. *)
EndSinglePhase(c) ==
  /\ ~Idle(c) /\ ~call[c].found
  /\ \/ Closes(c, Ends[call[c].verb]) /\ Return(c, FALSE)
     \/ /\ call[c].verb = "commit" /\ status[c] = "T"
        /\ Closes(c, "aborted") /\ Return(c, TRUE)
  /\ UNCHANGED held

(* The connection is lost, before or after the second request of a call was
   done; the caller opens another.  Prepared work stays. *)
Lose(c) ==
  /\ losses < MaxLosses /\ losses' = losses + 1
  /\ \/ Closes(c, "aborted") /\ UNCHANGED held
     \/ /\ ~Idle(c) /\ call[c].found /\ status[c] = "I"
        /\ LET w == held[call[c].xid.gid] IN
           /\ w # 0 /\ fate' = [fate EXCEPT ![w] = Ends[call[c].verb]]
           /\ held' = [held EXCEPT ![call[c].xid.gid] = 0]
        /\ UNCHANGED <<status, working>>
     \/ /\ ~Idle(c) /\ ~call[c].found
        /\ Closes(c, Ends[call[c].verb]) /\ UNCHANGED held
  /\ call' = [call EXCEPT ![c] = NoCall]
  /\ xid' = [xid EXCEPT ![c] = NoXid]
  /\ autocommit' = [autocommit EXCEPT ![c] = mode[c]]
  /\ mine' = [mine EXCEPT ![c] = 0]
  /\ UNCHANGED <<mode, told, asked, why, reused>>

-----------------------------------------------------------------------------
(* An application ends its own transaction, and may try again when a call raised; a
   manager ends what is left prepared. *)
EndOwn(c) ==
  /\ c \in Apps /\ xid[c] # NoXid
  /\ \E verb \in DOMAIN Ends : TpcCall(c, verb, xid[c])
Recover(c) ==
  /\ c \in Managers
  /\ \E x \in Recovered, verb \in DOMAIN Ends : TpcCall(c, verb, x)

Finish(c) == EndPrepared(c) \/ EndSinglePhase(c)

Next == \E c \in Conns :
  \/ Execute(c) \/ Commit(c) \/ Rollback(c)
  \/ (\E x \in Xids : TpcBegin(c, x)) \/ TpcPrepare(c)
  \/ EndOwn(c) \/ Recover(c) \/ EndPrepared(c) \/ EndSinglePhase(c) \/ Lose(c)

(* A call goes on; managers look again and again. *)
Spec == /\ Init /\ [][Next]_vars
        /\ \A c \in Conns : WF_vars(Finish(c))
        /\ \A c \in Managers : WF_vars(Recover(c))

-----------------------------------------------------------------------------
(* Work whose caller has not chosen autocommit is committed only when a call has
   asked for just that, though the calls switch the flag behind the caller's back
   and choose between two ways to commit - unless a manager has ended another
   transaction than the one it had found under the gid. *)
CommittedWasAsked ==
  \A c \in Conns : mine[c] # 0 /\ ~mode[c] /\ fate[mine[c]] = "committed" =>
    mine[c] \in asked \/ reused

(* tpc_commit and tpc_rollback report the truth - unless the id is not one that
   tpc_recover would return, a manager has asked for an end of the transaction as
   well, the caller has used commit() or rollback() within it, or the work was over
   before the call: the server had refused its PREPARE or its COMMIT, _xid was kept,
   and a tpc_commit that finds nothing prepared commits nothing and succeeds. *)
ReportsAreTrue ==
  \A w \in Works : told[w] \notin {"nothing", fate[w]} => why[w] # {} \/ reused

(* What is left prepared is ended by a manager who goes on recovering. *)
PreparedEnds == \A w \in Works : fate[w] = "prepared" ~> fate[w] # "prepared"
=============================================================================
