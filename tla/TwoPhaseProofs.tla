---------------------------- MODULE TwoPhaseProofs ----------------------------
(***************************************************************************)
(* For any number of applications, managers, ids, works and losses: what   *)
(* is committed was asked for, and what a call reports is what happened,   *)
(* but for the named causes.                                               *)
(***************************************************************************)
EXTENDS TwoPhase, TLAPS

(* A connection by itself: the flag is put back, a transaction is the last work,
   and managers have none. *)
SessionInv ==
  \A c \in Conns :
    /\ Idle(c) => autocommit[c] = mode[c]
    /\ working[c] # 0 => mine[c] = working[c]
    /\ status[c] = "I" <=> working[c] = 0
    /\ c \notin Apps => mine[c] = 0

(* Where a work is agrees with its fate. *)
FateInv ==
  /\ \A c \in Conns : working[c] # 0 => fate[working[c]] = "open"
  /\ \A c \in Conns : mine[c] # 0 => fate[mine[c]] # "none"
  /\ \A g \in Gids : held[g] # 0 => fate[held[g]] = "prepared"

(* A work is of one connection, and prepared under one gid. *)
OwnInv ==
  /\ \A c, d \in Conns : c # d /\ mine[c] # 0 => mine[c] # mine[d]
  /\ \A g, h \in Gids : g # h /\ held[g] # 0 => held[g] # held[h]

(* No two connections use a gid, nor one that another's work is held under. *)
GidInv ==
  /\ \A c \in Conns \ Apps : xid[c] = NoXid
  /\ \A c, d \in Conns : c # d /\ xid[c] # NoXid /\ xid[d] # NoXid => xid[c].gid # xid[d].gid
  /\ \A c, d \in Conns, g \in Gids :
       c # d /\ xid[c] # NoXid /\ held[g] # 0 /\ held[g] = mine[d] => xid[c].gid # g

(* What is known between the two requests of a call: an application's is about its
   own work, a manager's about the one it found, if anything is there. *)
OwnCall(c) ==
  /\ xid[c] # NoXid /\ call[c].xid = xid[c] /\ call[c].about = mine[c]
  /\ call[c].verb = "commit" => mine[c] \in asked \cup {0}
FoundCall(c) ==
  /\ call[c].about # 0 /\ "manager" \in why[call[c].about]
  /\ call[c].verb = "commit" => call[c].about \in asked
  /\ held[call[c].xid.gid] \in {0, call[c].about}
CallOk(c) ==
  /\ status[c] # "E"
  /\ c \in Apps => OwnCall(c)
  /\ c \notin Apps => reused \/ FoundCall(c)
CallInv == \A c \in Conns : ~Idle(c) => CallOk(c)

(* A two-phase transaction that nothing has led astray is still where its
   connection left it, and a call that found nothing prepared ends it itself; or the
   server has rolled it back, and no call since has asked to commit it. *)
PlaceOk(c) ==
  mine[c] # 0 /\ xid[c] # NoXid /\ why[mine[c]] = {} /\ ~reused =>
    \/ working[c] = mine[c]
    \/ held[xid[c].gid] = mine[c] /\ (~Idle(c) => call[c].found)
    \/ fate[mine[c]] = "aborted" /\ (~Idle(c) => call[c].verb = "rollback")
PlaceInv == \A c \in Conns : PlaceOk(c)

Where == TypeOK /\ SessionInv /\ FateInv /\ OwnInv
Uses  == Where /\ GidInv
IInv  == Uses /\ CallInv /\ PlaceInv /\ CommittedWasAsked /\ ReportsAreTrue

-----------------------------------------------------------------------------
LEMMA EndsOf ==
  /\ DOMAIN Ends = {"commit", "rollback"}
  /\ Ends["commit"] = "committed" /\ Ends["rollback"] = "aborted"
BY DEF Ends

LEMMA NoWork == 0 \notin Works
BY ConstantsAssumption DEF Works

LEMMA FreshWork == \A w \in Fresh : w \in Works /\ fate[w] = "none"
BY DEF Fresh

LEMMA InitOK == Init => IInv
<1> SUFFICES ASSUME Init PROVE IInv
  OBVIOUS
<1> USE ConstantsAssumption, NoWork DEF Init, Idle
<1>1. TypeOK
  <2>1. /\ mode \in [Conns -> BOOLEAN] /\ autocommit \in [Conns -> BOOLEAN]
        /\ mine \in [Conns -> Works \cup {0}] /\ working \in [Conns -> Works \cup {0}]
    OBVIOUS
  <2>2. /\ why \in [Works -> SUBSET Causes]
        /\ losses \in 0..MaxLosses
    OBVIOUS
  <2>. QED
    BY <2>1, <2>2 DEF TypeOK, Fates
<1>2. SessionInv /\ FateInv /\ OwnInv /\ GidInv /\ CallInv /\ PlaceInv
  BY DEF SessionInv, FateInv, OwnInv, GidInv, CallInv, PlaceInv, PlaceOk, Conns
<1>3. CommittedWasAsked /\ ReportsAreTrue
  BY DEF CommittedWasAsked, ReportsAreTrue
<1>. QED
  BY <1>1, <1>2, <1>3 DEF IInv, Uses, Where

LEMMA CallType ==
  ASSUME TypeOK, NEW c \in Conns, NEW verb \in DOMAIN Ends, NEW x \in Xids, TpcCall(c, verb, x)
  PROVE  TypeOK'
<1> DEFINE found == x \in Recovered   w == About(c, x)
<1>0. CausesOf(c, verb, x, w) \in SUBSET Causes
  BY DEF CausesOf
<1>1. w \in Works \cup {0} /\ found \in BOOLEAN
  BY DEF About, TypeOK, Xids
<1>2. /\ call' = call /\ autocommit' = autocommit /\ asked' = asked /\ why' = why
      \/ /\ call' = [call EXCEPT ![c] = [verb |-> verb, xid |-> x, found |-> found, about |-> w]]
         /\ autocommit' = [autocommit EXCEPT ![c] = TRUE]
         /\ asked' \in {asked, (asked \cup {w}) \ {0}}
         /\ \E causes \in SUBSET Causes :
              why' = IF w = 0 THEN why ELSE [why EXCEPT ![w] = @ \cup causes]
  BY <1>0 DEF TpcCall, Ask, Excuse
<1> HIDE DEF found, w
<1>3. call' \in [Conns -> {NoCall} \cup
        [verb : DOMAIN Ends, xid : Xids, found : BOOLEAN, about : Works \cup {0}]]
  BY <1>1, <1>2 DEF TypeOK
<1>4. autocommit' \in [Conns -> BOOLEAN] /\ asked' \subseteq Works
  BY <1>1, <1>2 DEF TypeOK
<1>5. why' \in [Works -> SUBSET Causes]
  <2>1. CASE why' = why
    BY <2>1 DEF TypeOK
  <2>2. ASSUME NEW causes \in SUBSET Causes, w # 0,
               why' = [why EXCEPT ![w] = why[w] \cup causes]
        PROVE  why' \in [Works -> SUBSET Causes]
    <3>1. w \in Works
      BY <1>1, <2>2
    <3>2. why[w] \cup causes \in SUBSET Causes
      BY <3>1 DEF TypeOK
    <3>. QED
      BY <2>2, <3>2 DEF TypeOK
  <2>. QED
    BY <1>2, <2>1, <2>2
<1>. QED
  BY <1>3, <1>4, <1>5 DEF TypeOK, TpcCall

LEMMA EndPreparedDoes ==
  ASSUME TypeOK, NEW c \in Conns, EndPrepared(c)
  PROVE  LET g == call[c].xid.gid IN
         /\ g \in Gids /\ call[c].verb \in DOMAIN Ends /\ ~Idle(c) /\ call[c].found
         /\ UNCHANGED <<mode, working, mine, asked, why, reused, losses>>
         /\ autocommit' = [autocommit EXCEPT ![c] = mode[c]]
         /\ call' = [call EXCEPT ![c] = NoCall]
         /\ \/ /\ status[c] = "T" /\ status' = [status EXCEPT ![c] = "E"]
               /\ UNCHANGED <<held, fate, xid, told>>
            \/ held[g] = 0 /\ UNCHANGED <<status, held, fate, xid, told>>
            \/ /\ status[c] # "T" /\ held[g] # 0 /\ status' = status
               /\ held' = [held EXCEPT ![g] = 0]
               /\ fate' = [fate EXCEPT ![held[g]] = Ends[call[c].verb]]
               /\ xid' = [xid EXCEPT ![c] = NoXid]
               /\ told' = IF call[c].about = 0 THEN told
                          ELSE [told EXCEPT ![call[c].about] = Ends[call[c].verb]]
<1> USE DEF TypeOK, EndPrepared, Idle
<1>0. ~Idle(c) /\ call[c].found
  OBVIOUS
<1>1. call[c].xid.gid \in Gids /\ call[c].verb \in DOMAIN Ends
  BY <1>0 DEF Xids
<1>2. CASE status[c] = "T"
  BY <1>1, <1>2 DEF Return, Restore
<1>3. CASE status[c] # "T" /\ held[call[c].xid.gid] = 0
  <2>1. held' = held
    BY <1>1, <1>3
  <2>. QED
    BY <1>1, <1>3, <2>1 DEF Return, Restore
<1>4. CASE status[c] # "T" /\ held[call[c].xid.gid] # 0
  BY <1>1, <1>4 DEF Return, Restore
<1>. QED
  BY <1>0, <1>1, <1>2, <1>3, <1>4

LEMMA EndSinglePhaseDoes ==
  ASSUME TypeOK, NEW c \in Conns, EndSinglePhase(c)
  PROVE  /\ ~Idle(c) /\ ~call[c].found /\ call[c].verb \in DOMAIN Ends
         /\ UNCHANGED <<mode, mine, held, asked, why, reused, losses>>
         /\ autocommit' = [autocommit EXCEPT ![c] = mode[c]]
         /\ call' = [call EXCEPT ![c] = NoCall]
         /\ \/ /\ Closes(c, Ends[call[c].verb]) /\ xid' = [xid EXCEPT ![c] = NoXid]
               /\ told' = IF call[c].about = 0 THEN told
                          ELSE [told EXCEPT ![call[c].about] = Ends[call[c].verb]]
            \/ Closes(c, "aborted") /\ UNCHANGED <<xid, told>>
<1>1. call[c].verb \in DOMAIN Ends
  BY DEF EndSinglePhase, TypeOK, Idle
<1>. QED
  BY <1>1 DEF EndSinglePhase, Return, Restore

LEMMA ClosesType ==
  ASSUME TypeOK, NEW c \in Conns, NEW end \in {"committed", "aborted"}, Closes(c, end)
  PROVE  /\ status' \in [Conns -> {"I", "T", "E"}]
         /\ working' \in [Conns -> Works \cup {0}]
         /\ fate' \in [Works -> Fates]
BY DEF TypeOK, Closes, Fates

LEMMA PlainEndType ==
  ASSUME TypeOK, NEW c \in Conns, NEW end \in {"committed", "aborted"}, PlainEnd(c, end)
  PROVE  TypeOK'
<1>1. /\ status' \in [Conns -> {"I", "T", "E"}]
      /\ working' \in [Conns -> Works \cup {0}]
      /\ fate' \in [Works -> Fates]
  BY ClosesType DEF PlainEnd
<1>2. asked' \subseteq Works /\ why' \in [Works -> SUBSET Causes]
  BY DEF PlainEnd, Ask, Excuse, TypeOK, Causes
<1>. QED
  BY <1>1, <1>2 DEF TypeOK, PlainEnd, session

LEMMA TypeStep == TypeOK /\ [Next]_vars => TypeOK'
<1> SUFFICES ASSUME TypeOK, [Next]_vars PROVE TypeOK'
  OBVIOUS
<1> USE EndsOf, NoWork, FreshWork DEF TypeOK, Fates, Idle, session, ledger
<1>1. ASSUME NEW c \in Conns, Execute(c) PROVE TypeOK'
  <2> USE <1>1 DEF Execute, Begins, Opens
  <2>1. mine' \in [Conns -> Works \cup {0}]
    OBVIOUS
  <2>2. status' \in [Conns -> {"I", "T", "E"}] /\ working' \in [Conns -> Works \cup {0}]
    OBVIOUS
  <2>3. fate' \in [Works -> Fates]
    OBVIOUS
  <2>. QED
    BY <2>1, <2>2, <2>3
<1>2. ASSUME NEW c \in Conns, Commit(c) PROVE TypeOK'
  BY <1>2, PlainEndType DEF Commit
<1>3. ASSUME NEW c \in Conns, Rollback(c) PROVE TypeOK'
  BY <1>3, PlainEndType DEF Rollback
<1>4. ASSUME NEW c \in Conns, NEW x \in Xids, TpcBegin(c, x) PROVE TypeOK'
  BY <1>4 DEF TpcBegin, Opens
<1>5. ASSUME NEW c \in Conns, TpcPrepare(c) PROVE TypeOK'
  <2> USE <1>5 DEF TpcPrepare, Ending
  <2>1. xid[c] \in Xids /\ xid[c].gid \in Gids
    BY DEF Xids
  <2>2. /\ status' \in [Conns -> {"I", "T", "E"}] /\ working' \in [Conns -> Works \cup {0}]
        /\ fate' \in [Works -> Fates]
    BY ClosesType
  <2>3. held' \in [Gids -> Works \cup {0}]
    BY <2>1
  <2>4. reused' \in BOOLEAN
    OBVIOUS
  <2>. QED
    BY <2>2, <2>3, <2>4
<1>6. ASSUME NEW c \in Conns, EndOwn(c) PROVE TypeOK'
  BY <1>6, CallType DEF EndOwn
<1>7. ASSUME NEW c \in Conns, Recover(c) PROVE TypeOK'
  <2>1. Recovered \subseteq Xids
    <3>1. \A g \in Gids : Xid(g) \in Xids
      BY DEF Xid, Xids
    <3>. QED
      BY <3>1 DEF Recovered
  <2>. QED
    BY <1>7, <2>1, CallType DEF Recover
<1>8. ASSUME NEW c \in Conns, EndPrepared(c) PROVE TypeOK'
  BY <1>8 DEF EndPrepared, Return, Restore
<1>9. ASSUME NEW c \in Conns, EndSinglePhase(c) PROVE TypeOK'
  <2>1. /\ status' \in [Conns -> {"I", "T", "E"}] /\ working' \in [Conns -> Works \cup {0}]
        /\ fate' \in [Works -> Fates]
    BY <1>9, ClosesType, EndSinglePhaseDoes
  <2>2. xid' \in [Conns -> Xids \cup {NoXid}] /\ told' \in [Works -> {"nothing", "committed", "aborted"}]
    BY <1>9, EndSinglePhaseDoes
  <2>. QED
    BY <1>9, <2>1, <2>2, EndSinglePhaseDoes
<1>10. ASSUME NEW c \in Conns, Lose(c) PROVE TypeOK'
  <2> USE <1>10 DEF Lose
  <2>1. losses' \in 0..MaxLosses
    BY ConstantsAssumption
  <2>2. /\ status' \in [Conns -> {"I", "T", "E"}] /\ working' \in [Conns -> Works \cup {0}]
        /\ fate' \in [Works -> Fates] /\ held' \in [Gids -> Works \cup {0}]
    <3>1. CASE Closes(c, "aborted") /\ UNCHANGED held
      BY <3>1, ClosesType
    <3>2. CASE ~Idle(c) /\ Closes(c, Ends[call[c].verb]) /\ UNCHANGED held
      BY <3>2, ClosesType
    <3>3. CASE /\ ~Idle(c) /\ UNCHANGED <<status, working>>
               /\ held[call[c].xid.gid] # 0
               /\ fate' = [fate EXCEPT ![held[call[c].xid.gid]] = Ends[call[c].verb]]
               /\ held' = [held EXCEPT ![call[c].xid.gid] = 0]
      BY <3>3 DEF Xids
    <3>. QED
      BY <3>1, <3>2, <3>3
  <2>. QED
    BY <2>1, <2>2
<1>11. CASE UNCHANGED vars
  BY <1>11 DEF vars
<1>. QED
  BY <1>1, <1>2, <1>3, <1>4, <1>5, <1>6, <1>7, <1>8, <1>9, <1>10, <1>11 DEF Next

LEMMA SessionStep == TypeOK /\ SessionInv /\ [Next]_vars => SessionInv'
<1> SUFFICES ASSUME TypeOK /\ SessionInv, [Next]_vars PROVE SessionInv'
  OBVIOUS
<1> USE EndsOf, NoWork, FreshWork DEF TypeOK, SessionInv, NoCall, Idle, session, ledger
<1>1. ASSUME NEW c \in Conns, Execute(c) PROVE SessionInv'
  BY <1>1 DEF Execute, Begins, Opens
<1>2. ASSUME NEW c \in Conns, Commit(c) PROVE SessionInv'
  BY <1>2 DEF Commit, PlainEnd, Closes, Ask, Excuse
<1>3. ASSUME NEW c \in Conns, Rollback(c) PROVE SessionInv'
  BY <1>3 DEF Rollback, PlainEnd, Closes, Ask, Excuse
<1>4. ASSUME NEW c \in Conns, NEW x \in Xids, TpcBegin(c, x) PROVE SessionInv'
  BY <1>4 DEF TpcBegin, Free, Opens
<1>5. ASSUME NEW c \in Conns, TpcPrepare(c) PROVE SessionInv'
  <2>1. CASE /\ status' = [status EXCEPT ![c] = "I"]
             /\ working' = [working EXCEPT ![c] = 0]
    BY <1>5, <2>1 DEF TpcPrepare
  <2>2. CASE Closes(c, "aborted")
    BY <1>5, <2>2 DEF TpcPrepare, Closes
  <2>. QED
    BY <1>5, <2>1, <2>2 DEF TpcPrepare
<1>6. ASSUME NEW c \in Conns, EndOwn(c) PROVE SessionInv'
  BY <1>6 DEF EndOwn, TpcCall, About, Ask, Excuse
<1>7. ASSUME NEW c \in Conns, Recover(c) PROVE SessionInv'
  BY <1>7 DEF Recover, TpcCall, About, Ask, Excuse, Recovered, Xid
<1>8. ASSUME NEW c \in Conns, EndPrepared(c) PROVE SessionInv'
  BY <1>8 DEF EndPrepared, Return, Restore
<1>9. ASSUME NEW c \in Conns, EndSinglePhase(c) PROVE SessionInv'
  BY <1>9 DEF EndSinglePhase, Closes, Return, Restore
<1>10. ASSUME NEW c \in Conns, Lose(c) PROVE SessionInv'
  BY <1>10 DEF Lose, Closes
<1>11. CASE UNCHANGED vars
  BY <1>11 DEF vars
<1>. QED
  BY <1>1, <1>2, <1>3, <1>4, <1>5, <1>6, <1>7, <1>8, <1>9, <1>10, <1>11 DEF Next

LEMMA FateStep == Where /\ [Next]_vars => FateInv'
<1> SUFFICES ASSUME Where, [Next]_vars PROVE FateInv'
  OBVIOUS
<1> USE EndsOf, NoWork, FreshWork
    DEF Where, TypeOK, SessionInv, FateInv, OwnInv, Idle, session, ledger
<1>1. ASSUME NEW c \in Conns, Execute(c) PROVE FateInv'
  BY <1>1 DEF Execute, Begins, Opens
<1>2. ASSUME NEW c \in Conns, Commit(c) PROVE FateInv'
  BY <1>2 DEF Commit, PlainEnd, Closes, Ask, Excuse
<1>3. ASSUME NEW c \in Conns, Rollback(c) PROVE FateInv'
  BY <1>3 DEF Rollback, PlainEnd, Closes, Ask, Excuse
<1>4. ASSUME NEW c \in Conns, NEW x \in Xids, TpcBegin(c, x) PROVE FateInv'
  BY <1>4 DEF TpcBegin, Free, Opens
<1>5. ASSUME NEW c \in Conns, TpcPrepare(c) PROVE FateInv'
  BY <1>5 DEF TpcPrepare, Closes, Ending
<1>6. ASSUME NEW c \in Conns, EndOwn(c) PROVE FateInv'
  BY <1>6 DEF EndOwn, TpcCall, About, Ask, Excuse
<1>7. ASSUME NEW c \in Conns, Recover(c) PROVE FateInv'
  BY <1>7 DEF Recover, TpcCall, About, Ask, Excuse, Recovered, Xid
<1>8. ASSUME NEW c \in Conns, EndPrepared(c) PROVE FateInv'
  BY <1>8, EndPreparedDoes
<1>9. ASSUME NEW c \in Conns, EndSinglePhase(c) PROVE FateInv'
  BY <1>9 DEF EndSinglePhase, Closes, Return, Restore
<1>10. ASSUME NEW c \in Conns, Lose(c) PROVE FateInv'
  <2> USE <1>10 DEF Lose
  <2>1. CASE /\ ~Idle(c) /\ UNCHANGED <<status, working>>
             /\ held[call[c].xid.gid] # 0
             /\ fate' = [fate EXCEPT ![held[call[c].xid.gid]] = Ends[call[c].verb]]
             /\ held' = [held EXCEPT ![call[c].xid.gid] = 0]
    <3>1. call[c].xid.gid \in Gids
      BY <2>1 DEF Xids
    <3>. QED
      BY <2>1, <3>1
  <2>2. CASE Closes(c, "aborted") /\ UNCHANGED held
    BY <2>2 DEF Closes
  <2>3. CASE ~Idle(c) /\ Closes(c, Ends[call[c].verb]) /\ UNCHANGED held
    BY <2>3 DEF Closes
  <2>. QED
    BY <2>1, <2>2, <2>3
<1>11. CASE UNCHANGED vars
  BY <1>11 DEF vars
<1>. QED
  BY <1>1, <1>2, <1>3, <1>4, <1>5, <1>6, <1>7, <1>8, <1>9, <1>10, <1>11 DEF Next

LEMMA OwnStep == Where /\ [Next]_vars => OwnInv'
<1> SUFFICES ASSUME Where, [Next]_vars PROVE OwnInv'
  OBVIOUS
<1> USE EndsOf, NoWork, FreshWork
    DEF Where, TypeOK, SessionInv, FateInv, OwnInv, Idle, session, ledger
<1>1. ASSUME NEW c \in Conns, Execute(c) PROVE OwnInv'
  BY <1>1 DEF Execute, Begins, Opens
<1>2. ASSUME NEW c \in Conns, Commit(c) PROVE OwnInv'
  BY <1>2 DEF Commit, PlainEnd, Closes, Ask, Excuse
<1>3. ASSUME NEW c \in Conns, Rollback(c) PROVE OwnInv'
  BY <1>3 DEF Rollback, PlainEnd, Closes, Ask, Excuse
<1>4. ASSUME NEW c \in Conns, NEW x \in Xids, TpcBegin(c, x) PROVE OwnInv'
  BY <1>4 DEF TpcBegin, Free, Opens
<1>5. ASSUME NEW c \in Conns, TpcPrepare(c) PROVE OwnInv'
  BY <1>5 DEF TpcPrepare, Closes, Ending
<1>6. ASSUME NEW c \in Conns, EndOwn(c) PROVE OwnInv'
  BY <1>6 DEF EndOwn, TpcCall, About, Ask, Excuse
<1>7. ASSUME NEW c \in Conns, Recover(c) PROVE OwnInv'
  BY <1>7 DEF Recover, TpcCall, About, Ask, Excuse, Recovered, Xid
<1>8. ASSUME NEW c \in Conns, EndPrepared(c) PROVE OwnInv'
  BY <1>8 DEF EndPrepared, Return, Restore
<1>9. ASSUME NEW c \in Conns, EndSinglePhase(c) PROVE OwnInv'
  BY <1>9 DEF EndSinglePhase, Closes, Return, Restore
<1>10. ASSUME NEW c \in Conns, Lose(c) PROVE OwnInv'
  BY <1>10 DEF Lose, Closes
<1>11. CASE UNCHANGED vars
  BY <1>11 DEF vars
<1>. QED
  BY <1>1, <1>2, <1>3, <1>4, <1>5, <1>6, <1>7, <1>8, <1>9, <1>10, <1>11 DEF Next

LEMMA GidStep == Uses /\ [Next]_vars => GidInv'
<1> SUFFICES ASSUME Uses, [Next]_vars PROVE GidInv'
  OBVIOUS
<1> USE EndsOf, NoWork, FreshWork
    DEF Uses, Where, TypeOK, SessionInv, FateInv, OwnInv, GidInv, Idle, session,
        ledger
<1>1. ASSUME NEW c \in Conns, Execute(c) PROVE GidInv'
  BY <1>1 DEF Execute, Begins, Opens
<1>2. ASSUME NEW c \in Conns, Commit(c) PROVE GidInv'
  BY <1>2 DEF Commit, PlainEnd, Closes, Ask, Excuse
<1>3. ASSUME NEW c \in Conns, Rollback(c) PROVE GidInv'
  BY <1>3 DEF Rollback, PlainEnd, Closes, Ask, Excuse
<1>4. ASSUME NEW c \in Conns, NEW x \in Xids, TpcBegin(c, x) PROVE GidInv'
  BY <1>4 DEF TpcBegin, Free, Opens
<1>5. ASSUME NEW c \in Conns, TpcPrepare(c) PROVE GidInv'
  <2> USE <1>5 DEF TpcPrepare
  <2>1. CASE /\ held' = [held EXCEPT ![xid[c].gid] = working[c]] /\ working[c] = mine[c]
             /\ UNCHANGED <<xid, mine>>
    BY <2>1
  <2>2. CASE UNCHANGED <<xid, held, mine>>
    BY <2>2
  <2>. QED
    BY <2>1, <2>2
<1>6. ASSUME NEW c \in Conns, EndOwn(c) PROVE GidInv'
  BY <1>6 DEF EndOwn, TpcCall, About, Ask, Excuse
<1>7. ASSUME NEW c \in Conns, Recover(c) PROVE GidInv'
  BY <1>7 DEF Recover, TpcCall, About, Ask, Excuse, Recovered, Xid
<1>8. ASSUME NEW c \in Conns, EndPrepared(c) PROVE GidInv'
  <2> DEFINE g == call[c].xid.gid
  <2>1. g \in Gids /\ mine' = mine
    BY <1>8, EndPreparedDoes
  <2>2. CASE UNCHANGED <<held, xid>>
    BY <2>1, <2>2
  <2>3. CASE held' = [held EXCEPT ![g] = 0] /\ xid' = [xid EXCEPT ![c] = NoXid]
    <3> HIDE DEF g
    <3>. QED
      BY <2>1, <2>3
  <2>. QED
    BY <1>8, <2>2, <2>3, EndPreparedDoes
<1>9. ASSUME NEW c \in Conns, EndSinglePhase(c) PROVE GidInv'
  <2>1. UNCHANGED <<mine, held>>
    BY <1>9, EndSinglePhaseDoes
  <2>2. CASE xid' = xid
    BY <2>1, <2>2
  <2>3. CASE xid' = [xid EXCEPT ![c] = NoXid]
    BY <2>1, <2>3
  <2>. QED
    BY <1>9, <2>2, <2>3, EndSinglePhaseDoes
<1>10. ASSUME NEW c \in Conns, Lose(c) PROVE GidInv'
  BY <1>10 DEF Lose, Closes
<1>11. CASE UNCHANGED vars
  BY <1>11 DEF vars
<1>. QED
  BY <1>1, <1>2, <1>3, <1>4, <1>5, <1>6, <1>7, <1>8, <1>9, <1>10, <1>11 DEF Next


LEMMA NoXidIsNone == \A x \in Xids : x # NoXid
BY DEF Xids, NoXid

LEMMA TpcCallDoes ==
  ASSUME TypeOK, NEW c \in Conns, NEW verb \in DOMAIN Ends, NEW x, TpcCall(c, verb, x)
  PROVE  /\ UNCHANGED <<status, working, mine, xid, held, fate, reused>>
         /\ \A w \in Works : why[w] \subseteq why'[w]
         /\ asked \subseteq asked'
         /\ \A d \in Conns : d # c => call'[d] = call[d]
<1>1. /\ UNCHANGED <<status, working, mine, xid, held, fate, reused>>
      /\ \A d \in Conns : d # c => call'[d] = call[d]
  BY DEF TpcCall, TypeOK
<1>2. asked \subseteq asked'
  BY NoWork DEF TpcCall, Ask, TypeOK
<1>3. \A w \in Works : why[w] \subseteq why'[w]
  <2>1. CASE why' = why
    BY <2>1
  <2>2. ASSUME NEW w, NEW causes, why' = [why EXCEPT ![w] = why[w] \cup causes]
        PROVE  \A v \in Works : why[v] \subseteq why'[v]
    BY <2>2 DEF TypeOK
  <2>. QED
    BY <2>1, <2>2 DEF TpcCall, Excuse
<1>. QED
  BY <1>1, <1>2, <1>3

(* What is rolled back stays so. *)
LEMMA AbortedStays ==
  Where /\ [Next]_vars => \A w \in Works : fate[w] = "aborted" => fate'[w] = "aborted"
<1> SUFFICES ASSUME Where, [Next]_vars, NEW w \in Works, fate[w] = "aborted"
             PROVE  fate'[w] = "aborted"
  OBVIOUS
<1> USE EndsOf, NoWork, FreshWork
    DEF Where, TypeOK, SessionInv, FateInv, OwnInv, Idle, session, ledger
<1>1. ASSUME NEW c \in Conns, NEW end, Closes(c, end) PROVE fate'[w] = "aborted"
  BY <1>1 DEF Closes
<1>2. ASSUME NEW c \in Conns, Execute(c) PROVE fate'[w] = "aborted"
  BY <1>2 DEF Execute, Begins, Opens
<1>3. ASSUME NEW c \in Conns, Commit(c) \/ Rollback(c) PROVE fate'[w] = "aborted"
  BY <1>1, <1>3 DEF Commit, Rollback, PlainEnd
<1>4. ASSUME NEW c \in Conns, NEW x \in Xids, TpcBegin(c, x) PROVE fate'[w] = "aborted"
  BY <1>4 DEF TpcBegin, Opens
<1>5. ASSUME NEW c \in Conns, TpcPrepare(c) PROVE fate'[w] = "aborted"
  BY <1>1, <1>5 DEF TpcPrepare
<1>6. ASSUME NEW c \in Conns, EndOwn(c) \/ Recover(c) PROVE fate'[w] = "aborted"
  BY <1>6 DEF EndOwn, Recover, TpcCall
<1>7. ASSUME NEW c \in Conns, EndPrepared(c) PROVE fate'[w] = "aborted"
  BY <1>7, EndPreparedDoes
<1>8. ASSUME NEW c \in Conns, EndSinglePhase(c) PROVE fate'[w] = "aborted"
  BY <1>1, <1>8, EndSinglePhaseDoes
<1>9. ASSUME NEW c \in Conns, Lose(c) PROVE fate'[w] = "aborted"
  <2>1. CASE \E g \in Gids : held[g] # 0 /\ \E e : fate' = [fate EXCEPT ![held[g]] = e]
    BY <2>1
  <2>2. CASE \E end : Closes(c, end)
    BY <1>1, <2>2
  <2>3. ~Idle(c) => call[c].xid.gid \in Gids
    BY DEF Xids
  <2>. QED
    BY <1>9, <2>1, <2>2, <2>3 DEF Lose
<1>10. CASE UNCHANGED vars
  BY <1>10 DEF vars
<1>. QED
  BY <1>2, <1>3, <1>4, <1>5, <1>6, <1>7, <1>8, <1>9, <1>10 DEF Next

(* What keeps the facts about a call that others' steps leave alone. *)
LEMMA CallKept ==
  ASSUME TypeOK, NEW d \in Conns, ~Idle(d), CallOk(d),
         status'[d] = status[d], xid'[d] = xid[d], call'[d] = call[d], mine'[d] = mine[d],
         asked \subseteq asked', \A w \in Works : why[w] \subseteq why'[w], reused => reused',
         \/ d \in Apps \/ reused'
         \/ held'[call[d].xid.gid] \in {0, held[call[d].xid.gid]}
  PROVE  CallOk(d)'
<1>1. call[d].about \in Works \cup {0}
  BY DEF TypeOK, Idle
<1>. QED
  BY <1>1 DEF CallOk, OwnCall, FoundCall

LEMMA PlaceKept ==
  ASSUME TypeOK, NEW d \in Conns, PlaceOk(d),
         mine'[d] = mine[d], xid'[d] = xid[d], call'[d] = call[d], working'[d] = working[d],
         \A w \in Works : why[w] \subseteq why'[w], reused => reused',
         mine[d] # 0 /\ xid[d] # NoXid /\ held[xid[d].gid] = mine[d] =>
           held'[xid[d].gid] = mine[d] \/ why'[mine[d]] # {} \/ reused',
         \A w \in Works : fate[w] = "aborted" => fate'[w] = "aborted"
  PROVE  PlaceOk(d)'
<1>1. mine[d] \in Works \cup {0}
  BY DEF TypeOK
<1>. QED
  BY <1>1 DEF PlaceOk, Idle

(* The server ends what the gid of a call holds; of whose work that is. *)
LEMMA EndedIsOwn ==
  ASSUME Uses, CallInv, NEW c \in Conns, ~Idle(c), NEW d \in Conns, d # c,
         mine[d] # 0, held[call[c].xid.gid] = mine[d], xid[d] # NoXid,
         call[c].xid.gid = xid[d].gid
  PROVE  why[mine[d]] # {} \/ reused
<1>1. CallOk(c)
  BY DEF CallInv
<1>2. CASE c \in Apps
  BY <1>1, <1>2 DEF CallOk, OwnCall, Uses, GidInv
<1>3. CASE c \notin Apps
  BY <1>1, <1>3 DEF CallOk, FoundCall
<1>. QED
  BY <1>2, <1>3

LEMMA CallStep == Uses /\ CallInv /\ [Next]_vars => CallInv'
<1> SUFFICES ASSUME Uses /\ CallInv, [Next]_vars PROVE CallInv'
  OBVIOUS
<1> USE EndsOf, NoWork, FreshWork
    DEF Uses, Where, TypeOK, SessionInv, FateInv, OwnInv, GidInv, CallInv, CallOk,
        OwnCall, FoundCall, NoCall, Idle, session, ledger
<1>1. ASSUME NEW c \in Conns, Execute(c) PROVE CallInv'
  BY <1>1 DEF Execute, Begins, Opens
<1>2. ASSUME NEW c \in Conns, Commit(c) PROVE CallInv'
  <2> SUFFICES ASSUME NEW d \in Conns, ~Idle(d)' PROVE CallOk(d)'
    BY DEF CallInv
  <2>1. d # c /\ ~Idle(d) /\ CallOk(d)
    BY <1>2 DEF Commit, PlainEnd
  <2>. QED
    BY <1>2, <2>1, CallKept DEF Commit, PlainEnd, Closes, Ask, Excuse
<1>3. ASSUME NEW c \in Conns, Rollback(c) PROVE CallInv'
  <2> SUFFICES ASSUME NEW d \in Conns, ~Idle(d)' PROVE CallOk(d)'
    BY DEF CallInv
  <2>1. d # c /\ ~Idle(d) /\ CallOk(d)
    BY <1>3 DEF Rollback, PlainEnd
  <2>. QED
    BY <1>3, <2>1, CallKept DEF Rollback, PlainEnd, Closes, Ask, Excuse
<1>4. ASSUME NEW c \in Conns, NEW x \in Xids, TpcBegin(c, x) PROVE CallInv'
  <2> SUFFICES ASSUME NEW d \in Conns, ~Idle(d)' PROVE CallOk(d)'
    BY DEF CallInv
  <2>1. d # c /\ ~Idle(d) /\ CallOk(d)
    BY <1>4 DEF TpcBegin
  <2>. QED
    BY <1>4, <2>1, CallKept DEF TpcBegin, Opens
<1>5. ASSUME NEW c \in Conns, TpcPrepare(c) PROVE CallInv'
  <2> SUFFICES ASSUME NEW d \in Conns, ~Idle(d)' PROVE CallOk(d)'
    BY DEF CallInv
  <2>1. d # c /\ ~Idle(d) /\ CallOk(d)
    BY <1>5 DEF TpcPrepare
  <2>2. d \in Apps \/ reused' \/ held'[call[d].xid.gid] \in {0, held[call[d].xid.gid]}
    <3>1. call[d].xid.gid \in Gids
      BY <2>1 DEF Xids
    <3>2. CASE call[d].xid.gid = xid[c].gid
      BY <1>5, <2>1, <3>2 DEF TpcPrepare, Ending, Conns
    <3>3. CASE call[d].xid.gid # xid[c].gid
      BY <1>5, <3>1, <3>3 DEF TpcPrepare
    <3>. QED
      BY <3>2, <3>3
  <2>. QED
    BY <1>5, <2>1, <2>2, CallKept DEF TpcPrepare, Closes
<1>6. ASSUME NEW c \in Conns, EndOwn(c) PROVE CallInv'
  <2> SUFFICES ASSUME NEW d \in Conns, ~Idle(d)' PROVE CallOk(d)'
    BY DEF CallInv
  <2> PICK verb \in DOMAIN Ends : TpcCall(c, verb, xid[c])
    BY <1>6 DEF EndOwn
  <2>1. CASE d = c
    <3> DEFINE w == About(c, xid[c])
    <3>1. w = mine[c] /\ c \in Apps /\ xid[c] # NoXid
      BY <1>6 DEF EndOwn, About
    <3>2. /\ status[c] # "E" /\ status' = status /\ xid' = xid /\ mine' = mine
          /\ call'[c].verb = verb /\ call'[c].xid = xid[c] /\ call'[c].about = w
          /\ Ask(w, Ends[verb])
      BY <1>6, <2>1 DEF EndOwn, TpcCall
    <3> HIDE DEF w
    <3>3. verb = "commit" => mine[c] \in asked' \cup {0}
      BY <3>1, <3>2 DEF Ask
    <3>. QED
      BY <2>1, <3>1, <3>2, <3>3 DEF CallOk, OwnCall
  <2>2. CASE d # c
    <3>1. ~Idle(d) /\ CallOk(d)
      BY <2>2, TpcCallDoes
    <3>. QED
      BY <2>2, <3>1, CallKept, TpcCallDoes
  <2>. QED
    BY <2>1, <2>2
<1>7. ASSUME NEW c \in Conns, Recover(c) PROVE CallInv'
  <2> SUFFICES ASSUME NEW d \in Conns, ~Idle(d)' PROVE CallOk(d)'
    BY DEF CallInv
  <2> PICK x \in Recovered, verb \in DOMAIN Ends : TpcCall(c, verb, x)
    BY <1>7 DEF Recover
  <2>1. x \in Xids /\ x.gid \in Gids /\ held[x.gid] # 0 /\ x # NoXid
    <3>1. PICK g \in Gids : held[g] # 0 /\ x = Xid(g)
      BY DEF Recovered
    <3>2. Xid(g).gid = g /\ Xid(g) \in Xids
      BY DEF Xid, Xids
    <3>. QED
      BY <3>1, <3>2, NoXidIsNone
  <2>2. c \in Managers /\ c \notin Apps /\ xid[c] = NoXid /\ About(c, x) = held[x.gid]
    BY <1>7, <2>1, ConstantsAssumption DEF Recover, About
  <2>3. CASE d = c
    <3>1. status[c] # "E" /\ status' = status /\ held' = held
      BY <2>3 DEF TpcCall
    <3>2. /\ call'[c] = [verb |-> verb, xid |-> x, found |-> x \in Recovered, about |-> held[x.gid]]
          /\ asked' = IF Ends[verb] = "committed" THEN (asked \cup {held[x.gid]}) \ {0} ELSE asked
          /\ Excuse(held[x.gid], CausesOf(c, verb, x, held[x.gid]))
      BY <2>1, <2>2, <3>1 DEF TpcCall, Ask
    <3>3. "manager" \in why'[held[x.gid]]
      BY <2>1, <2>2, <3>2 DEF Excuse, CausesOf, Causes
    <3>. QED
      BY <2>1, <2>2, <2>3, <3>1, <3>2, <3>3 DEF CallOk, FoundCall
  <2>4. CASE d # c
    <3>1. ~Idle(d) /\ CallOk(d)
      BY <2>4, TpcCallDoes
    <3>. QED
      BY <2>4, <3>1, CallKept, TpcCallDoes
  <2>. QED
    BY <2>3, <2>4
<1>8. ASSUME NEW c \in Conns, EndPrepared(c) PROVE CallInv'
  <2> SUFFICES ASSUME NEW d \in Conns, ~Idle(d)' PROVE CallOk(d)'
    BY DEF CallInv
  <2>1. d # c /\ ~Idle(d) /\ CallOk(d)
    BY <1>8, EndPreparedDoes
  <2>2. held'[call[d].xid.gid] \in {0, held[call[d].xid.gid]}
    <3>1. call[d].xid.gid \in Gids
      BY <2>1 DEF Xids
    <3>. QED
      BY <1>8, <3>1, EndPreparedDoes
  <2>. QED
    BY <1>8, <2>1, <2>2, CallKept, EndPreparedDoes
<1>9. ASSUME NEW c \in Conns, EndSinglePhase(c) PROVE CallInv'
  BY <1>9 DEF EndSinglePhase, Closes, Return, Restore
<1>10. ASSUME NEW c \in Conns, Lose(c) PROVE CallInv'
  <2> SUFFICES ASSUME NEW d \in Conns, ~Idle(d)' PROVE CallOk(d)'
    BY DEF CallInv
  <2>1. d # c /\ ~Idle(d) /\ CallOk(d)
    BY <1>10 DEF Lose
  <2>2. held'[call[d].xid.gid] \in {0, held[call[d].xid.gid]}
    <3>1. call[d].xid.gid \in Gids
      BY <2>1 DEF Xids
    <3>. QED
      BY <1>10, <3>1 DEF Lose
  <2>. QED
    BY <1>10, <2>1, <2>2, CallKept DEF Lose, Closes
<1>11. CASE UNCHANGED vars
  BY <1>11 DEF vars
<1>. QED
  BY <1>1, <1>2, <1>3, <1>4, <1>5, <1>6, <1>7, <1>8, <1>9, <1>10, <1>11 DEF Next

LEMMA PlaceStep == Uses /\ CallInv /\ PlaceInv /\ [Next]_vars => PlaceInv'
<1> SUFFICES ASSUME Uses /\ CallInv /\ PlaceInv, [Next]_vars PROVE PlaceInv'
  OBVIOUS
<1>0. \A w \in Works : fate[w] = "aborted" => fate'[w] = "aborted"
  BY AbortedStays DEF Uses
<1> USE EndsOf, NoWork, FreshWork
    DEF Uses, Where, TypeOK, SessionInv, FateInv, OwnInv, GidInv, CallInv, PlaceInv,
        NoCall, Idle, session, ledger
<1>1. ASSUME NEW c \in Conns, Execute(c) PROVE PlaceInv'
  BY <1>1 DEF Execute, Begins, Opens, PlaceOk
<1>2. ASSUME NEW c \in Conns, Commit(c) PROVE PlaceInv'
  <2> SUFFICES ASSUME NEW d \in Conns PROVE PlaceOk(d)'
    BY DEF PlaceInv
  <2>0. PlaceOk(d)
    BY DEF PlaceInv
  <2>1. CASE d = c
    <3>1. xid' = xid /\ mine' = mine /\ working[c] \in Works /\ mine[c] = working[c]
      BY <1>2 DEF Commit, PlainEnd
    <3>2. xid[c] # NoXid => "plain" \in why'[working[c]]
      BY <1>2, <3>1 DEF Commit, PlainEnd, Excuse
    <3>. QED
      BY <2>1, <3>1, <3>2 DEF PlaceOk
  <2>2. CASE d # c
    BY <1>0, <1>2, <2>0, <2>2, PlaceKept DEF Commit, PlainEnd, Closes, Excuse
  <2>. QED
    BY <2>1, <2>2
<1>3. ASSUME NEW c \in Conns, Rollback(c) PROVE PlaceInv'
  <2> SUFFICES ASSUME NEW d \in Conns PROVE PlaceOk(d)'
    BY DEF PlaceInv
  <2>0. PlaceOk(d)
    BY DEF PlaceInv
  <2>1. CASE d = c
    <3>1. xid' = xid /\ mine' = mine /\ working[c] \in Works /\ mine[c] = working[c]
      BY <1>3 DEF Rollback, PlainEnd
    <3>2. xid[c] # NoXid => "plain" \in why'[working[c]]
      BY <1>3, <3>1 DEF Rollback, PlainEnd, Excuse
    <3>. QED
      BY <2>1, <3>1, <3>2 DEF PlaceOk
  <2>2. CASE d # c
    BY <1>0, <1>3, <2>0, <2>2, PlaceKept DEF Rollback, PlainEnd, Closes, Excuse
  <2>. QED
    BY <2>1, <2>2
<1>4. ASSUME NEW c \in Conns, NEW x \in Xids, TpcBegin(c, x) PROVE PlaceInv'
  BY <1>4 DEF TpcBegin, Free, Opens, PlaceOk
<1>5. ASSUME NEW c \in Conns, TpcPrepare(c) PROVE PlaceInv'
  <2> SUFFICES ASSUME NEW d \in Conns PROVE PlaceOk(d)'
    BY DEF PlaceInv
  <2>0. PlaceOk(d)
    BY DEF PlaceInv
  <2>1. CASE d = c
    <3>1. xid[c].gid \in Gids /\ Idle(c)'
      BY <1>5 DEF TpcPrepare, Xids
    <3>2. CASE held' = [held EXCEPT ![xid[c].gid] = mine[c]] /\ UNCHANGED <<mine, xid>>
      BY <2>1, <3>1, <3>2 DEF PlaceOk
    <3>3. CASE Closes(c, "aborted") /\ UNCHANGED <<mine, xid>>
      <4>1. working[c] = mine[c] /\ mine[c] \in Works /\ fate'[mine[c]] = "aborted"
        BY <1>5, <3>3 DEF TpcPrepare, Closes
      <4>. QED
        BY <2>1, <3>1, <3>3, <4>1 DEF PlaceOk
    <3>. QED
      BY <1>5, <3>2, <3>3 DEF TpcPrepare
  <2>2. CASE d # c
    <3>1. ASSUME xid[d] # NoXid PROVE held'[xid[d].gid] = held[xid[d].gid]
      <4>1. xid[d].gid \in Gids /\ xid[d].gid # xid[c].gid
        BY <1>5, <2>2, <3>1 DEF TpcPrepare, Xids
      <4>. QED
        BY <1>5, <4>1 DEF TpcPrepare
    <3>. QED
      BY <1>0, <1>5, <2>0, <2>2, <3>1, PlaceKept DEF TpcPrepare, Closes
  <2>. QED
    BY <2>1, <2>2
<1>6. ASSUME NEW c \in Conns, EndOwn(c) PROVE PlaceInv'
  <2> SUFFICES ASSUME NEW d \in Conns PROVE PlaceOk(d)'
    BY DEF PlaceInv
  <2>0. PlaceOk(d)
    BY DEF PlaceInv
  <2>1. PICK verb \in DOMAIN Ends : TpcCall(c, verb, xid[c])
    BY <1>6 DEF EndOwn
  <2>2. /\ UNCHANGED <<status, working, mine, xid, held, reused>>
        /\ \A w \in Works : why[w] \subseteq why'[w]
    BY <2>1, TpcCallDoes
  <2>3. CASE d = c
    <3> DEFINE g == xid[c].gid   found == xid[c] \in Recovered
    <3>1. SUFFICES ASSUME mine[c] # 0, why'[mine[c]] = {}, ~reused, xid[c] # NoXid, ~Idle(c)'
                   PROVE  \/ working[c] = mine[c]
                          \/ held[g] = mine[c] /\ call'[c].found
                          \/ fate[mine[c]] = "aborted" /\ call'[c].verb = "rollback"
      <4>1. fate' = fate
        BY <2>1 DEF TpcCall
      <4>2. CASE Idle(c)'
        BY <1>6, <2>0, <2>2, <2>3, <4>1, <4>2 DEF EndOwn, TpcCall, PlaceOk
      <4>3. CASE ~Idle(c)'
        BY <2>2, <2>3, <3>1, <4>1, <4>3 DEF PlaceOk
      <4>. QED
        BY <4>2, <4>3
    <3>2. xid[c] \in Xids /\ g \in Gids /\ mine[c] \in Works
      BY <3>1 DEF Xids
    <3>3. Idle(c) /\ About(c, xid[c]) = mine[c] /\ status[c] # "E"
      BY <2>1, <3>1 DEF About, TpcCall
    <3>4. call'[c].verb = verb /\ call'[c].found = found
      BY <2>1, <3>3 DEF TpcCall
    <3>5. why'[mine[c]] = why[mine[c]] \cup CausesOf(c, verb, xid[c], mine[c])
      <4>1. Excuse(mine[c], CausesOf(c, verb, xid[c], mine[c]))
        BY <2>1, <3>3 DEF TpcCall
      <4>. QED
        BY <3>1, <3>2, <4>1 DEF Excuse
    <3>6. why[mine[c]] = {} /\ CausesOf(c, verb, xid[c], mine[c]) = {}
      BY <3>1, <3>5
    <3>7. CASE working[c] = mine[c]
      BY <3>7
    <3>8. CASE held[g] = mine[c]
      <4>1. xid[c] = Xid(g)
        BY <3>2, <3>6 DEF CausesOf, Causes, Xids, Xid
      <4>2. found
        BY <3>1, <3>2, <3>8, <4>1 DEF Recovered
      <4>. QED
        BY <3>4, <3>8, <4>2
    <3>9. CASE fate[mine[c]] = "aborted"
      <4>1. verb # "commit"
        BY <3>1, <3>6, <3>9 DEF CausesOf, Causes
      <4>. QED
        BY <3>4, <3>9, <4>1
    <3>. QED
      BY <2>0, <2>3, <3>1, <3>6, <3>7, <3>8, <3>9 DEF PlaceOk
  <2>4. CASE d # c
    <3>1. call'[d] = call[d]
      BY <2>1, <2>4, TpcCallDoes
    <3>. QED
      BY <1>0, <2>0, <2>2, <3>1, PlaceKept
  <2>. QED
    BY <2>3, <2>4
<1>7. ASSUME NEW c \in Conns, Recover(c) PROVE PlaceInv'
  <2> SUFFICES ASSUME NEW d \in Conns PROVE PlaceOk(d)'
    BY DEF PlaceInv
  <2>0. PlaceOk(d)
    BY DEF PlaceInv
  <2>1. PICK x \in Recovered, verb \in DOMAIN Ends : TpcCall(c, verb, x)
    BY <1>7 DEF Recover
  <2>2. /\ UNCHANGED <<status, working, mine, xid, held, reused>>
        /\ \A w \in Works : why[w] \subseteq why'[w]
    BY <2>1, TpcCallDoes
  <2>3. CASE d = c
    BY <1>7, <2>2, <2>3, ConstantsAssumption DEF Recover, PlaceOk
  <2>4. CASE d # c
    <3>1. call'[d] = call[d]
      BY <2>1, <2>4, TpcCallDoes
    <3>. QED
      BY <1>0, <2>0, <2>2, <3>1, PlaceKept
  <2>. QED
    BY <2>3, <2>4
<1>8. ASSUME NEW c \in Conns, EndPrepared(c) PROVE PlaceInv'
  <2> SUFFICES ASSUME NEW d \in Conns PROVE PlaceOk(d)'
    BY DEF PlaceInv
  <2>0. PlaceOk(d)
    BY DEF PlaceInv
  <2> DEFINE g == call[c].xid.gid
  <2>1. g \in Gids /\ ~Idle(c) /\ UNCHANGED <<working, mine, why, reused>> /\
        call' = [call EXCEPT ![c] = NoCall]
    BY <1>8, EndPreparedDoes
  <2>2. CASE UNCHANGED <<held, xid>>
    BY <1>0, <2>0, <2>1, <2>2 DEF PlaceOk
  <2>3. CASE held' = [held EXCEPT ![g] = 0] /\ xid' = [xid EXCEPT ![c] = NoXid]
    <3>1. CASE d = c
      BY <2>3, <3>1 DEF PlaceOk
    <3>2. CASE d # c
      <4>1. ASSUME mine[d] # 0, xid[d] # NoXid, held[xid[d].gid] = mine[d]
            PROVE  held'[xid[d].gid] = mine[d] \/ why'[mine[d]] # {} \/ reused'
        <5>1. xid[d].gid \in Gids
          BY <4>1 DEF Xids
        <5>2. CASE xid[d].gid = g
          BY <2>1, <3>2, <4>1, <5>2, EndedIsOwn
        <5>3. CASE xid[d].gid # g
          <6> HIDE DEF g
          <6>. QED
            BY <2>3, <4>1, <5>1, <5>3
        <5>. QED
          BY <5>2, <5>3
      <4>. QED
        BY <1>0, <2>0, <2>1, <2>3, <3>2, <4>1, PlaceKept
    <3>. QED
      BY <3>1, <3>2
  <2>. QED
    BY <1>8, <2>2, <2>3, EndPreparedDoes
<1>9. ASSUME NEW c \in Conns, EndSinglePhase(c) PROVE PlaceInv'
  BY <1>9 DEF EndSinglePhase, Closes, Return, Restore, PlaceOk
<1>10. ASSUME NEW c \in Conns, Lose(c) PROVE PlaceInv'
  <2> SUFFICES ASSUME NEW d \in Conns PROVE PlaceOk(d)'
    BY DEF PlaceInv
  <2>0. PlaceOk(d)
    BY DEF PlaceInv
  <2>1. CASE d = c
    BY <1>10, <2>1 DEF Lose, PlaceOk
  <2>2. CASE d # c
    <3>1. ASSUME mine[d] # 0, xid[d] # NoXid, held[xid[d].gid] = mine[d]
          PROVE  held'[xid[d].gid] = mine[d] \/ why'[mine[d]] # {} \/ reused'
      <4>1. CASE held' = held
        BY <3>1, <4>1
      <4>2. CASE ~Idle(c) /\ held' = [held EXCEPT ![call[c].xid.gid] = 0] /\
                 UNCHANGED <<why, reused>>
        BY <2>2, <3>1, <4>2, EndedIsOwn
      <4>. QED
        BY <1>10, <4>1, <4>2 DEF Lose
    <3>. QED
      BY <1>0, <1>10, <2>0, <2>2, <3>1, PlaceKept DEF Lose, Closes
  <2>. QED
    BY <2>1, <2>2
<1>11. CASE UNCHANGED vars
  BY <1>11 DEF vars, PlaceOk
<1>. QED
  BY <1>1, <1>2, <1>3, <1>4, <1>5, <1>6, <1>7, <1>8, <1>9, <1>10, <1>11 DEF Next

LEMMA AskedStep == IInv /\ [Next]_vars => CommittedWasAsked'
<1> SUFFICES ASSUME IInv, [Next]_vars PROVE CommittedWasAsked'
  OBVIOUS
<1> USE EndsOf, NoWork, FreshWork
    DEF IInv, Uses, Where, TypeOK, SessionInv, FateInv, OwnInv, GidInv, CallInv,
        PlaceInv, CommittedWasAsked, Idle, session, ledger
<1>1. ASSUME NEW c \in Conns, Execute(c) PROVE CommittedWasAsked'
  BY <1>1 DEF Execute, Begins, Opens
<1>2. ASSUME NEW c \in Conns, Commit(c) PROVE CommittedWasAsked'
  BY <1>2 DEF Commit, PlainEnd, Closes, Ask, Excuse
<1>3. ASSUME NEW c \in Conns, Rollback(c) PROVE CommittedWasAsked'
  BY <1>3 DEF Rollback, PlainEnd, Closes, Ask, Excuse
<1>4. ASSUME NEW c \in Conns, NEW x \in Xids, TpcBegin(c, x) PROVE CommittedWasAsked'
  BY <1>4 DEF TpcBegin, Free, Opens
<1>5. ASSUME NEW c \in Conns, TpcPrepare(c) PROVE CommittedWasAsked'
  BY <1>5 DEF TpcPrepare, Closes, Ending
<1>6. ASSUME NEW c \in Conns, EndOwn(c) PROVE CommittedWasAsked'
  BY <1>6 DEF EndOwn, TpcCall, About, Ask, Excuse
<1>7. ASSUME NEW c \in Conns, Recover(c) PROVE CommittedWasAsked'
  BY <1>7 DEF Recover, TpcCall, About, Ask, Excuse, Recovered, Xid
<1>8. ASSUME NEW c \in Conns, EndPrepared(c) PROVE CommittedWasAsked'
  BY <1>8, EndPreparedDoes DEF CallOk, OwnCall, FoundCall
<1>9. ASSUME NEW c \in Conns, EndSinglePhase(c) PROVE CommittedWasAsked'
  BY <1>9 DEF CallOk, OwnCall, EndSinglePhase, Closes, Return, Restore
<1>10. ASSUME NEW c \in Conns, Lose(c) PROVE CommittedWasAsked'
  <2>1. \A d \in Conns : mine'[d] # 0 => mine'[d] = mine[d] /\ d # c
    BY <1>10 DEF Lose
  <2>2. UNCHANGED <<mode, asked, reused>>
    BY <1>10 DEF Lose
  <2>3. CASE Closes(c, "aborted") \/ (~Idle(c) /\ Closes(c, Ends[call[c].verb]))
    BY <2>1, <2>2, <2>3 DEF Closes
  <2>4. CASE /\ ~Idle(c) /\ held[call[c].xid.gid] # 0
             /\ fate' = [fate EXCEPT ![held[call[c].xid.gid]] = Ends[call[c].verb]]
    <3> DEFINE g == call[c].xid.gid
    <3>1. g \in Gids /\ call[c].verb \in DOMAIN Ends /\ CallOk(c)
      BY <2>4 DEF Xids
    <3>2. SUFFICES ASSUME NEW d \in Conns, d # c, mine[d] # 0, ~mode[d], ~reused,
                          fate'[mine[d]] = "committed", mine[d] \notin asked
                   PROVE  FALSE
      BY <2>1, <2>2 DEF CommittedWasAsked
    <3>3. held[g] = mine[d] /\ call[c].verb = "commit"
      BY <2>4, <3>1, <3>2 DEF CommittedWasAsked
    <3>4. c \notin Apps /\ FoundCall(c)
      BY <2>4, <3>1, <3>2, <3>3 DEF CallOk, OwnCall
    <3>. QED
      BY <3>2, <3>3, <3>4 DEF FoundCall
  <2>. QED
    BY <1>10, <2>3, <2>4 DEF Lose
<1>11. CASE UNCHANGED vars
  BY <1>11 DEF vars
<1>. QED
  BY <1>1, <1>2, <1>3, <1>4, <1>5, <1>6, <1>7, <1>8, <1>9, <1>10, <1>11 DEF Next

LEMMA ReportStep == IInv /\ [Next]_vars => ReportsAreTrue'
<1> SUFFICES ASSUME IInv, [Next]_vars PROVE ReportsAreTrue'
  OBVIOUS
<1> USE EndsOf, NoWork, FreshWork
    DEF IInv, Uses, Where, TypeOK, SessionInv, FateInv, OwnInv, GidInv, CallInv,
        PlaceInv, ReportsAreTrue, Idle, session, ledger
<1>1. ASSUME NEW c \in Conns, Execute(c) PROVE ReportsAreTrue'
  BY <1>1 DEF Execute, Begins, Opens
<1>2. ASSUME NEW c \in Conns, Commit(c) PROVE ReportsAreTrue'
  BY <1>2 DEF Commit, PlainEnd, Closes, Ask, Excuse
<1>3. ASSUME NEW c \in Conns, Rollback(c) PROVE ReportsAreTrue'
  BY <1>3 DEF Rollback, PlainEnd, Closes, Ask, Excuse
<1>4. ASSUME NEW c \in Conns, NEW x \in Xids, TpcBegin(c, x) PROVE ReportsAreTrue'
  BY <1>4 DEF TpcBegin, Free, Opens
<1>5. ASSUME NEW c \in Conns, TpcPrepare(c) PROVE ReportsAreTrue'
  BY <1>5 DEF TpcPrepare, Closes, Ending
<1>6. ASSUME NEW c \in Conns, EndOwn(c) PROVE ReportsAreTrue'
  BY <1>6 DEF EndOwn, TpcCall, About, Ask, Excuse
<1>7. ASSUME NEW c \in Conns, Recover(c) PROVE ReportsAreTrue'
  BY <1>7 DEF Recover, TpcCall, About, Ask, Excuse, Recovered, Xid
<1>8. ASSUME NEW c \in Conns, EndPrepared(c) PROVE ReportsAreTrue'
  <2> DEFINE g == call[c].xid.gid   a == call[c].about
  <2>1. /\ g \in Gids /\ a \in Works \cup {0} /\ ~Idle(c) /\ call[c].found /\ CallOk(c)
        /\ why' = why /\ reused' = reused
    BY <1>8, EndPreparedDoes
  <2>2. CASE UNCHANGED <<fate, told>>
    BY <2>1, <2>2
  <2>3. CASE /\ status[c] # "T" /\ held[g] # 0
             /\ fate' = [fate EXCEPT ![held[g]] = Ends[call[c].verb]]
             /\ told' = IF a = 0 THEN told ELSE [told EXCEPT ![a] = Ends[call[c].verb]]
    <3>1. \/ a = 0 \/ a = held[g] \/ why[a] # {} \/ reused
          \/ fate[a] = "aborted" /\ call[c].verb = "rollback"
      <4>1. CASE c \in Apps
        BY <2>1, <2>3, <4>1 DEF CallOk, OwnCall, PlaceOk
      <4>2. CASE c \notin Apps
        BY <2>1, <4>2 DEF CallOk, FoundCall
      <4>. QED
        BY <4>1, <4>2
    <3> HIDE DEF g, a
    <3>2. held[g] \in Works /\ fate[held[g]] = "prepared"
      BY <2>1, <2>3
    <3>. QED
      BY <2>1, <2>3, <3>1, <3>2
  <2>. QED
    BY <1>8, <2>2, <2>3, EndPreparedDoes
<1>9. ASSUME NEW c \in Conns, EndSinglePhase(c) PROVE ReportsAreTrue'
  BY <1>9 DEF CallOk, OwnCall, FoundCall, PlaceOk, EndSinglePhase, Closes, Return, Restore
<1>10. ASSUME NEW c \in Conns, Lose(c) PROVE ReportsAreTrue'
  <2>1. UNCHANGED <<told, why, reused>>
    BY <1>10 DEF Lose
  <2>2. CASE Closes(c, "aborted") \/ (~Idle(c) /\ Closes(c, Ends[call[c].verb]))
    BY <2>1, <2>2 DEF Closes
  <2>3. CASE /\ ~Idle(c) /\ held[call[c].xid.gid] # 0
             /\ fate' = [fate EXCEPT ![held[call[c].xid.gid]] = Ends[call[c].verb]]
    <3>1. call[c].xid.gid \in Gids
      BY <2>3 DEF Xids
    <3>. QED
      BY <2>1, <2>3, <3>1
  <2>. QED
    BY <1>10, <2>2, <2>3 DEF Lose
<1>11. CASE UNCHANGED vars
  BY <1>11 DEF vars
<1>. QED
  BY <1>1, <1>2, <1>3, <1>4, <1>5, <1>6, <1>7, <1>8, <1>9, <1>10, <1>11 DEF Next

LEMMA InvStep == IInv /\ [Next]_vars => IInv'
BY TypeStep, SessionStep, FateStep, OwnStep, GidStep, CallStep, PlaceStep, AskedStep, ReportStep
   DEF IInv, Uses, Where

-----------------------------------------------------------------------------
(* Every variable keeps its type. *)
THEOREM TypeCorrect == Spec => []TypeOK
<1>1. IInv => TypeOK
  BY DEF IInv, Uses, Where
<1>. QED
  BY <1>1, InitOK, InvStep, PTL DEF Spec

(* What is committed a call has asked for, though the calls switch autocommit
   behind their caller's back. *)
THEOREM CommittedOnlyAsked == Spec => []CommittedWasAsked
<1>1. IInv => CommittedWasAsked
  BY DEF IInv
<1>. QED
  BY <1>1, InitOK, InvStep, PTL DEF Spec

(* What tpc_commit and tpc_rollback report has happened, but for the named causes. *)
THEOREM ReportsHold == Spec => []ReportsAreTrue
<1>1. IInv => ReportsAreTrue
  BY DEF IInv
<1>. QED
  BY <1>1, InitOK, InvStep, PTL DEF Spec
=============================================================================
