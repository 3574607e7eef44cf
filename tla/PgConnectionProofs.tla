-------------------------- MODULE PgConnectionProofs --------------------------
(***************************************************************************)
(* For any number of operations and of exceptions: the types, what a       *)
(* session in step is, what the client may wait for, what it says of a     *)
(* COMMIT, and how an exchange of SCRAM ends.                              *)
(***************************************************************************)
EXTENDS PgConnection, TLAPS, SequenceTheorems, WellFoundedInduction

Extended == {"parse", "describe", "bind", "execute", "close", "copydone"}
OfCopy   == {"copydata", "copydone"}
InCopy   == OfCopy \cup {"sync"}
Asks     == [type : Types \ {"terminate"}, op : Op] \cup [type : {"terminate"}, op : {NoOp}]
Answers  == [code : Codes, op : Op, tx : {"I", "T", "E"}]
Kept     == [statement : Statements \cup {"none"}, of : Ids \cup {0}]
Unnamed  == {"parse", "binding", "describe", "execute"}
Resting  == {"idle", "closed"}

Has(q, t) == \E i \in DOMAIN q : q[i].type = t
Got(q, c) == \E i \in DOMAIN q : q[i].code = c

(* The types, and what the operation under way is. *)
ServerTyped ==
  /\ server \in [tx : {"I", "T", "E"}, skip : BOOLEAN, copying : BOOLEAN, up : BOOLEAN]
  /\ unnamed \in Kept /\ portal \in Kept /\ named \in [Names -> Kept]
  /\ undone \in Ids \cup {0}
QueuesTyped ==
  /\ requests \in Seq(Asks) /\ buffer \in Seq(Asks) /\ replies \in Seq(Answers)
CallerTyped ==
  /\ pc \in PCs /\ error \in BOOLEAN /\ status \in {"none", "I", "T", "E"}
  /\ ended \in [ops : 0..MaxOps, raises : 0..MaxRaises]
  /\ causes \subseteq {"handler", "params", "staleBind", "lost"}
  /\ \A p \in prepared : p \in Op /\ p.name \in Names /\ ~p.stream
  /\ nums \subseteq 1 .. (IF pc \in Resting THEN ended.ops ELSE ended.ops + 1)
  /\ IF pc \in Resting THEN op = NoOp
     ELSE /\ op \in Op /\ op.id = NextId
          /\ op.kind = (IF pc \in Unnamed THEN "unnamed" ELSE pc)
          /\ op.name = 0 <=> op.kind \in {"simple", "unnamed"}
          /\ op.stream => op.kind = "unnamed"
          /\ op.kind = "prepare" => op.of = op.id
Typed == ServerTyped /\ QueuesTyped /\ CallerTyped

(* What the messages under way are followed by; only a Bind may be the last. *)
Followed(q, bindlast) ==
  \A i \in DOMAIN q : q[i].type \in Extended =>
    IF i = Len(q) THEN bindlast /\ q[i].type = "bind"
    ELSE /\ q[i + 1].type # "query"
         /\ q[i].type = "copydone" => q[i + 1].type = "sync"

Requested ==
  /\ pc # "describe" => buffer = <<>>
  /\ \A i \in DOMAIN buffer : buffer[i].type = "bind"
  /\ Followed(requests, pc = "describe")

Skipping ==
  server.skip =>
    /\ ~server.copying
    /\ requests = <<>> => pc = "describe"
    /\ requests # <<>> => Head(requests).type # "query"

OneCopy(q) == \A i, j \in DOMAIN q : q[i].type = "copydone" /\ i < j => q[j].type \notin OfCopy
OneAnswer(q) == \A i, j \in DOMAIN q : q[i].code = "copyin" /\ q[j].code = "copyin" => i = j
Copies ==
  /\ Has(requests, "copydata") \/ Has(requests, "copydone") => server.copying
  /\ OneCopy(requests)
  /\ Got(replies, "copyin") =>
       server.copying /\ ~Has(requests, "copydata") /\ ~Has(requests, "copydone")
  /\ OneAnswer(replies)

Owed ==
  pc # "idle" =>
    IF server.copying
    THEN Got(replies, "copyin") \/ Has(requests, "copydone") \/ \E t \in Types \ InCopy : Has(requests, t)
    ELSE Got(replies, "ready") \/ Has(requests, "sync") \/ Has(requests, "query")

Flow ==
  server.up /\ "staleBind" \notin causes /\ pc # "closed" =>
    Requested /\ Skipping /\ Copies /\ Owed

-----------------------------------------------------------------------------
(* In step. *)
RoundTypes ==
  CASE pc = "simple"   -> {"query"}
    [] pc = "parse"    -> {"parse", "sync"}
    [] pc = "prepare"  -> {"parse", "describe", "sync"}
    [] pc = "binding"  -> {"describe", "sync"}
    [] pc = "describe" -> {"describe", "sync", "bind"}
    [] pc = "close"    -> {"close", "sync"}
    [] pc = "named"    -> {"bind", "execute", "sync"}
    [] pc = "execute"  -> {"bind", "execute"} \cup InCopy
    [] OTHER           -> {}

(* What may precede a message; Bind only in a round that it follows. *)
Precedes(t, early) ==
  CASE t = "describe" -> {"parse"}
    [] t = "execute"  -> {"bind"}
    [] t = "sync"     -> Extended \ {"bind"}
    [] t = "bind"     -> IF early THEN {"sync"} ELSE {}
    [] t = "copydata" -> {"sync"}
    [] t = "copydone" -> {"copydata"}
    [] OTHER          -> {}
Linked(q, early) == \A i \in DOMAIN q : i > 1 => q[i - 1].type \in Precedes(q[i].type, early)

Round ==
  /\ \A i \in DOMAIN requests : requests[i].op = op /\ requests[i].type \in RoundTypes
  /\ Linked(requests, pc = "describe")
  /\ pc = "describe" /\ buffer = <<>> /\ (Has(requests, "describe") \/ Has(requests, "sync"))
       => Has(requests, "bind")
  /\ buffer # <<>> => ~Has(requests, "bind") /\ buffer = Messages(op, <<"bind">>)
  /\ server.copying => /\ pc \in {"simple", "execute", "named"}
                       /\ \A i \in DOMAIN requests : requests[i].type \in InCopy

Known == status = server.tx \/ (status = "none" /\ server.tx = "I")
(* The end of a round; the answer to a Bind that went early may follow. *)
RoundEnd ==
  \A i \in DOMAIN replies : replies[i].code = "ready" =>
    /\ ~Has(requests, "sync") /\ ~Has(requests, "query") /\ ~server.copying
    /\ IF i = Len(replies) THEN ~server.skip /\ replies[i].tx = server.tx
       ELSE pc = "describe" /\ i + 1 = Len(replies) /\ replies[i + 1].code = "error" /\ server.skip

Failed == error \/ Got(replies, "error")
Knows ==
  /\ server.skip => Failed
  /\ ~server.skip /\ (Has(requests, "query") \/ Has(requests, "execute")) => Known
  /\ pc = "close" => ~Failed
(* The server has the statement of the operation, and those of the caller. *)
Stores ==
  /\ pc = "parse" /\ ~Has(requests, "parse") /\ ~Failed => unnamed = Parsed(op)
  /\ pc \in {"binding", "describe", "execute"} => unnamed = Parsed(op)
  /\ pc = "prepare" /\ ~Has(requests, "parse") /\ ~Failed => named[op.name] = Parsed(op)
  /\ pc = "named" \/ Has(requests, "close") => named[op.name] = Parsed(op)
  /\ ~server.skip /\ ~Has(requests, "bind")
       /\ (Has(requests, "execute") \/ (pc = "describe" /\ buffer = <<>>)) => portal = Parsed(op)
  /\ \A p \in prepared : named[p.name] = Parsed(p) \/ (pc = "close" /\ p.of = op.of)

Undone ==
  /\ undone <= (IF pc = "idle" THEN ended.ops ELSE ended.ops + 1)
  /\ pc # "idle" /\ undone = op.id =>
       /\ pc \in {"simple", "execute", "named"} /\ ~Has(requests, "query") /\ ~Has(requests, "execute")
       /\ Failed \/ (Got(replies, "complete") /\ status = "E" /\ op.statement = "commit")

Rest ==
  pc = "idle" =>
    /\ requests = <<>> /\ replies = <<>> /\ buffer = <<>>
    /\ ~server.skip /\ ~server.copying /\ Known

InStep == causes = {} /\ pc # "closed" =>
  server.up /\ Round /\ RoundEnd /\ Knows /\ Stores /\ Undone /\ Rest
-----------------------------------------------------------------------------
SessionInv == Typed /\ Flow /\ InStep

-----------------------------------------------------------------------------
(* Queues: taking the first message, and adding to the end.                   *)

LEMMA QueueIs == ASSUME NEW S, NEW q \in Seq(S)
                 PROVE  Len(q) \in Nat /\ DOMAIN q = 1 .. Len(q) /\ (q = <<>> <=> Len(q) = 0)
                        /\ \A i \in 1 .. Len(q) : q[i] \in S
BY LenProperties, ElementOfSeq, EmptySeq

LEMMA TailIs ==
  ASSUME NEW S, NEW q \in Seq(S), q # <<>>
  PROVE  /\ Tail(q) \in Seq(S) /\ Len(q) \in Nat \ {0} /\ Len(Tail(q)) = Len(q) - 1
         /\ Head(q) = q[1] /\ q[1] \in S
         /\ \A i \in 1 .. Len(q) - 1 : Tail(q)[i] = q[i + 1]
         /\ DOMAIN q = 1 .. Len(q) /\ DOMAIN Tail(q) = 1 .. Len(q) - 1
<1>1. /\ Tail(q) \in Seq(S) /\ Len(Tail(q)) = Len(q) - 1 /\ Head(q) \in S
      /\ \A i \in 1 .. Len(Tail(q)) : Tail(q)[i] = q[i + 1]
  BY HeadTailProperties
<1>2. Head(q) = q[1]
  BY DEF Head
<1>. QED
  BY <1>1, <1>2, QueueIs

LEMMA ConcatIs ==
  ASSUME NEW S, NEW q \in Seq(S), NEW r \in Seq(S)
  PROVE  /\ q \o r \in Seq(S) /\ Len(q) \in Nat /\ Len(r) \in Nat /\ Len(q \o r) = Len(q) + Len(r)
         /\ DOMAIN q = 1 .. Len(q) /\ DOMAIN r = 1 .. Len(r) /\ DOMAIN (q \o r) = 1 .. Len(q) + Len(r)
         /\ \A i \in 1 .. Len(q) : (q \o r)[i] = q[i]
         /\ \A i \in 1 .. Len(r) : (q \o r)[Len(q) + i] = r[i]
<1>1. /\ q \o r \in Seq(S) /\ Len(q \o r) = Len(q) + Len(r)
      /\ \A i \in 1 .. Len(q) + Len(r) : (q \o r)[i] = IF i <= Len(q) THEN q[i] ELSE r[i - Len(q)]
  BY ConcatProperties
<1>. QED
  BY <1>1, QueueIs

(* A message has been taken from a queue. *)
LEMMA TakenFrom ==
  ASSUME NEW S, NEW q \in Seq(S), q # <<>>
  PROVE  /\ \A u : Has(q, u) <=> q[1].type = u \/ Has(Tail(q), u)
         /\ \A c : Got(q, c) <=> q[1].code = c \/ Got(Tail(q), c)
         /\ \A b : Followed(q, b) => Followed(Tail(q), b)
         /\ \A b : Linked(q, b) => Linked(Tail(q), b)
         /\ OneCopy(q) => OneCopy(Tail(q))
         /\ OneAnswer(q) => OneAnswer(Tail(q))
<1> DEFINE n == Len(q)   r == Tail(q)
<1>1. /\ n \in Nat \ {0} /\ DOMAIN q = 1 .. n /\ DOMAIN r = 1 .. n - 1 /\ Len(r) = n - 1 /\ Len(q) = n
      /\ \A i \in 1 .. n - 1 : r[i] = q[i + 1]
  BY TailIs
<1> HIDE DEF n, r
<1>2. /\ \A i \in 1 .. n : i = 1 \/ (i - 1 \in 1 .. n - 1 /\ q[i] = r[i - 1])
      /\ \A i \in 1 .. n - 1 : i + 1 \in 1 .. n /\ r[i] = q[i + 1]
      /\ 1 \in 1 .. n
  BY <1>1
<1>3. ASSUME NEW u PROVE Has(q, u) <=> q[1].type = u \/ Has(r, u)
  <2>1. Has(q, u) => q[1].type = u \/ Has(r, u)
    BY <1>1, <1>2 DEF Has
  <2>2. q[1].type = u \/ Has(r, u) => Has(q, u)
    BY <1>1, <1>2 DEF Has
  <2>. QED
    BY <2>1, <2>2
<1>4. ASSUME NEW c PROVE Got(q, c) <=> q[1].code = c \/ Got(r, c)
  <2>1. Got(q, c) => q[1].code = c \/ Got(r, c)
    BY <1>1, <1>2 DEF Got
  <2>2. q[1].code = c \/ Got(r, c) => Got(q, c)
    BY <1>1, <1>2 DEF Got
  <2>. QED
    BY <2>1, <2>2
<1>5. ASSUME NEW b, Followed(q, b) PROVE Followed(r, b)
  BY <1>1, <1>5 DEF Followed
<1>6. ASSUME NEW b, Linked(q, b) PROVE Linked(r, b)
  <2> SUFFICES ASSUME NEW i \in 1 .. n - 1, i > 1 PROVE r[i - 1].type \in Precedes(r[i].type, b)
    BY <1>1 DEF Linked
  <2>1. r[i] = q[i + 1] /\ r[i - 1] = q[i] /\ i + 1 \in 1 .. n /\ i + 1 > 1 /\ (i + 1) - 1 = i
    BY <1>1
  <2>. QED
    BY <1>1, <1>6, <2>1 DEF Linked
<1>7. OneCopy(q) => OneCopy(r)
  <2> SUFFICES ASSUME OneCopy(q), NEW i \in 1 .. n - 1, NEW j \in 1 .. n - 1,
                      r[i].type = "copydone", i < j
               PROVE  r[j].type \notin OfCopy
    BY <1>1 DEF OneCopy
  <2>1. i + 1 < j + 1
    OBVIOUS
  <2>. QED
    BY <1>1, <1>2, <2>1 DEF OneCopy
<1>8. OneAnswer(q) => OneAnswer(r)
  <2> SUFFICES ASSUME OneAnswer(q), NEW i \in 1 .. n - 1, NEW j \in 1 .. n - 1,
                      r[i].code = "copyin", r[j].code = "copyin"
               PROVE  i = j
    BY <1>1 DEF OneAnswer
  <2>1. /\ q[i + 1].code = "copyin" /\ q[j + 1].code = "copyin"
        /\ i + 1 \in DOMAIN q /\ j + 1 \in DOMAIN q
    BY <1>1, <1>2
  <2>2. i + 1 = j + 1
    BY <2>1 DEF OneAnswer
  <2>. QED
    BY <2>2
<1>. QED
  BY <1>3, <1>4, <1>5, <1>6, <1>7, <1>8 DEF r

(* Messages, or answers, have been added to a queue. *)
LEMMA JoinedTo ==
  ASSUME NEW S, NEW q \in Seq(S), NEW r \in Seq(S)
  PROVE  /\ \A u : Has(q \o r, u) <=> Has(q, u) \/ Has(r, u)
         /\ \A c : Got(q \o r, c) <=> Got(q, c) \/ Got(r, c)
         /\ \A b, d : Followed(q, b) /\ Followed(r, d) /\ r # <<>> /\ (b => r[1].type # "query")
                    => Followed(q \o r, d)
         /\ \A b : Linked(q, b) /\ Linked(r, b)
                    /\ (q # <<>> /\ r # <<>> => q[Len(q)].type \in Precedes(r[1].type, b))
                    => Linked(q \o r, b)
         /\ OneCopy(q) /\ OneCopy(r)
              /\ (Has(q, "copydone") => ~Has(r, "copydata") /\ ~Has(r, "copydone")) => OneCopy(q \o r)
         /\ OneAnswer(q) /\ OneAnswer(r) /\ ~(Got(q, "copyin") /\ Got(r, "copyin"))
              => OneAnswer(q \o r)
<1> DEFINE n == Len(q)   k == Len(r)   s == q \o r
<1>1. /\ n \in Nat /\ k \in Nat /\ Len(q) = n /\ Len(r) = k /\ Len(s) = n + k
      /\ DOMAIN q = 1 .. n /\ DOMAIN r = 1 .. k /\ DOMAIN s = 1 .. n + k
      /\ \A i \in 1 .. n : s[i] = q[i]
      /\ \A i \in 1 .. k : s[n + i] = r[i]
  BY ConcatIs
<1>2. (q = <<>> <=> n = 0) /\ (r = <<>> <=> k = 0)
  BY QueueIs
<1> HIDE DEF n, k, s
<1>3. ASSUME NEW i \in 1 .. n + k
      PROVE  \/ i \in 1 .. n /\ s[i] = q[i]
             \/ \E j \in 1 .. k : i = n + j /\ s[i] = r[j]
  <2>1. CASE i <= n
    BY <1>1, <2>1
  <2>2. CASE i > n
    <3>1. PICK j \in 1 .. k : i = n + j
      BY <1>1, <2>2
    <3>2. s[n + j] = r[j]
      BY <1>1
    <3>. QED
      BY <3>1, <3>2
  <2>. QED
    BY <1>1, <2>1, <2>2
<1>4. ASSUME NEW u PROVE Has(s, u) <=> Has(q, u) \/ Has(r, u)
  <2>1. ASSUME Has(s, u) PROVE Has(q, u) \/ Has(r, u)
    <3>1. PICK i \in 1 .. n + k : s[i].type = u
      BY <1>1, <2>1 DEF Has
    <3>. QED
      BY <1>1, <1>3, <3>1 DEF Has
  <2>2. ASSUME Has(q, u) PROVE Has(s, u)
    BY <1>1, <2>2 DEF Has
  <2>3. ASSUME Has(r, u) PROVE Has(s, u)
    <3>1. PICK i \in 1 .. k : r[i].type = u
      BY <1>1, <2>3 DEF Has
    <3>2. s[n + i] = r[i] /\ n + i \in 1 .. n + k
      BY <1>1
    <3>. QED
      BY <1>1, <3>1, <3>2 DEF Has
  <2>. QED
    BY <2>1, <2>2, <2>3
<1>5. ASSUME NEW c PROVE Got(s, c) <=> Got(q, c) \/ Got(r, c)
  <2>1. ASSUME Got(s, c) PROVE Got(q, c) \/ Got(r, c)
    <3>1. PICK i \in 1 .. n + k : s[i].code = c
      BY <1>1, <2>1 DEF Got
    <3>. QED
      BY <1>1, <1>3, <3>1 DEF Got
  <2>2. ASSUME Got(q, c) PROVE Got(s, c)
    BY <1>1, <2>2 DEF Got
  <2>3. ASSUME Got(r, c) PROVE Got(s, c)
    <3>1. PICK i \in 1 .. k : r[i].code = c
      BY <1>1, <2>3 DEF Got
    <3>2. s[n + i] = r[i] /\ n + i \in 1 .. n + k
      BY <1>1
    <3>. QED
      BY <1>1, <3>1, <3>2 DEF Got
  <2>. QED
    BY <2>1, <2>2, <2>3
<1>6. ASSUME NEW b, NEW d, Followed(q, b), Followed(r, d), r # <<>>, b => r[1].type # "query"
      PROVE  Followed(s, d)
  <2> SUFFICES ASSUME NEW i \in 1 .. n + k, s[i].type \in Extended
               PROVE  IF i = n + k THEN d /\ s[i].type = "bind"
                      ELSE /\ s[i + 1].type # "query"
                           /\ s[i].type = "copydone" => s[i + 1].type = "sync"
    BY <1>1 DEF Followed
  <2>1. k > 0
    BY <1>1, <1>2, <1>6
  <2>2. CASE i < n
    <3>1. i \in 1 .. n /\ i + 1 \in 1 .. n /\ i # n /\ i # n + k
      BY <1>1, <2>2
    <3>2. s[i] = q[i] /\ s[i + 1] = q[i + 1]
      BY <1>1, <3>1
    <3>. QED
      BY <1>1, <1>6, <3>1, <3>2 DEF Followed
  <2>3. CASE i = n
    <3>1. i \in 1 .. n /\ 1 \in 1 .. k /\ i # n + k
      BY <1>1, <2>1, <2>3
    <3>2. s[i] = q[i] /\ s[i + 1] = r[1]
      BY <1>1, <2>3, <3>1
    <3>3. b /\ q[i].type = "bind"
      BY <1>1, <1>6, <2>3, <3>1, <3>2 DEF Followed
    <3>. QED
      BY <1>6, <3>1, <3>2, <3>3
  <2>4. CASE i > n
    <3>1. PICK j \in 1 .. k : i = n + j /\ s[i] = r[j]
      BY <1>1, <1>3, <2>4
    <3>2. CASE i = n + k
      <4>1. j = k
        BY <1>1, <3>1, <3>2
      <4>. QED
        BY <1>1, <1>6, <3>1, <3>2, <4>1 DEF Followed
    <3>3. CASE i # n + k
      <4>1. j # k /\ j + 1 \in 1 .. k
        BY <1>1, <3>1, <3>3
      <4>2. s[i + 1] = r[j + 1]
        <5>1. s[n + (j + 1)] = r[j + 1]
          BY <1>1, <4>1
        <5>2. n + (j + 1) = i + 1
          BY <1>1, <3>1
        <5>. QED
          BY <5>1, <5>2
      <4>3. /\ r[j + 1].type # "query"
            /\ r[j].type = "copydone" => r[j + 1].type = "sync"
        BY <1>1, <1>6, <3>1, <4>1 DEF Followed
      <4>. QED
        BY <3>1, <3>3, <4>2, <4>3
    <3>. QED
      BY <3>2, <3>3
  <2>. QED
    BY <1>1, <2>2, <2>3, <2>4
<1>7. ASSUME NEW b, Linked(q, b), Linked(r, b),
             q # <<>> /\ r # <<>> => q[Len(q)].type \in Precedes(r[1].type, b)
      PROVE  Linked(s, b)
  <2> SUFFICES ASSUME NEW i \in 1 .. n + k, i > 1 PROVE s[i - 1].type \in Precedes(s[i].type, b)
    BY <1>1 DEF Linked
  <2>1. CASE i <= n
    <3>1. i \in 1 .. n /\ i - 1 \in 1 .. n
      BY <1>1, <2>1
    <3>2. s[i] = q[i] /\ s[i - 1] = q[i - 1]
      BY <1>1, <3>1
    <3>. QED
      BY <1>1, <1>7, <3>1, <3>2 DEF Linked
  <2>2. CASE i = n + 1
    <3>1. n \in 1 .. n /\ 1 \in 1 .. k /\ i - 1 = n
      BY <1>1, <2>2
    <3>2. s[i - 1] = q[n] /\ s[i] = r[1] /\ q # <<>> /\ r # <<>>
      BY <1>1, <1>2, <2>2, <3>1
    <3>. QED
      BY <1>1, <1>7, <3>2
  <2>3. CASE i > n + 1
    <3>1. PICK j \in 1 .. k : i = n + j /\ s[i] = r[j]
      BY <1>1, <1>3, <2>3
    <3>2. j > 1 /\ j - 1 \in 1 .. k /\ n + (j - 1) = i - 1
      BY <1>1, <2>3, <3>1
    <3>3. s[n + (j - 1)] = r[j - 1]
      BY <1>1, <3>2
    <3>4. s[i - 1] = r[j - 1]
      BY <3>2, <3>3
    <3>. QED
      BY <1>1, <1>7, <3>1, <3>2, <3>4 DEF Linked
  <2>. QED
    BY <1>1, <2>1, <2>2, <2>3
<1>8. ASSUME OneCopy(q), OneCopy(r),
             Has(q, "copydone") => ~Has(r, "copydata") /\ ~Has(r, "copydone")
      PROVE  OneCopy(s)
  <2> SUFFICES ASSUME NEW i \in 1 .. n + k, NEW j \in 1 .. n + k, i < j, s[i].type = "copydone",
                      s[j].type \in OfCopy
               PROVE  FALSE
    BY <1>1 DEF OneCopy
  <2>1. CASE j \in 1 .. n
    <3>1. i \in 1 .. n
      BY <1>1, <2>1
    <3>. QED
      BY <1>1, <1>8, <2>1, <3>1 DEF OneCopy
  <2>2. CASE i \in 1 .. n /\ j > n
    <3>1. Has(q, "copydone")
      BY <1>1, <2>2 DEF Has
    <3>2. PICK l \in 1 .. k : s[j] = r[l]
      BY <1>1, <1>3, <2>2
    <3>3. Has(r, "copydata") \/ Has(r, "copydone")
      BY <1>1, <3>2 DEF Has, OfCopy
    <3>. QED
      BY <1>8, <3>1, <3>3
  <2>3. CASE i > n /\ j > n
    <3>1. PICK l \in 1 .. k : i = n + l /\ s[i] = r[l]
      BY <1>1, <1>3, <2>3
    <3>2. PICK m \in 1 .. k : j = n + m /\ s[j] = r[m]
      BY <1>1, <1>3, <2>3
    <3>3. l < m
      <4>1. n + l < n + m
        BY <3>1, <3>2
      <4>. QED
        BY <1>1, <4>1
    <3>. QED
      BY <1>1, <1>8, <3>1, <3>2, <3>3 DEF OneCopy
  <2>. QED
    BY <1>1, <2>1, <2>2, <2>3
<1>9. ASSUME OneAnswer(q), OneAnswer(r), ~(Got(q, "copyin") /\ Got(r, "copyin"))
      PROVE  OneAnswer(s)
  <2> SUFFICES ASSUME NEW i \in 1 .. n + k, NEW j \in 1 .. n + k,
                      s[i].code = "copyin", s[j].code = "copyin"
               PROVE  i = j
    BY <1>1 DEF OneAnswer
  <2>1. CASE i \in 1 .. n /\ j \in 1 .. n
    BY <1>1, <1>9, <2>1 DEF OneAnswer
  <2>2. CASE i > n /\ j > n
    <3>1. PICK l \in 1 .. k : i = n + l /\ s[i] = r[l]
      BY <1>1, <1>3, <2>2
    <3>2. PICK m \in 1 .. k : j = n + m /\ s[j] = r[m]
      BY <1>1, <1>3, <2>2
    <3>3. l = m
      BY <1>1, <1>9, <3>1, <3>2 DEF OneAnswer
    <3>. QED
      BY <3>1, <3>2, <3>3
  <2>3. CASE ~(i > n /\ j > n) /\ ~(i \in 1 .. n /\ j \in 1 .. n)
    <3>1. \/ i \in 1 .. n /\ s[i] = q[i] /\ \E m \in 1 .. k : s[j] = r[m]
          \/ j \in 1 .. n /\ s[j] = q[j] /\ \E m \in 1 .. k : s[i] = r[m]
      <4>1. i > n <=> i \notin 1 .. n
        BY <1>1
      <4>2. j > n <=> j \notin 1 .. n
        BY <1>1
      <4>3. i \in 1 .. n => s[i] = q[i]
        BY <1>1
      <4>4. j \in 1 .. n => s[j] = q[j]
        BY <1>1
      <4>5. i \notin 1 .. n => \E m \in 1 .. k : s[i] = r[m]
        BY <1>3
      <4>6. j \notin 1 .. n => \E m \in 1 .. k : s[j] = r[m]
        BY <1>3
      <4>. QED
        BY <2>3, <4>1, <4>2, <4>3, <4>4, <4>5, <4>6
    <3>2. Got(q, "copyin") /\ Got(r, "copyin")
      BY <1>1, <3>1 DEF Got
    <3>. QED
      BY <1>9, <3>2
  <2>. QED
    BY <2>1, <2>2, <2>3
<1>. QED
  BY <1>4, <1>5, <1>6, <1>7, <1>8, <1>9 DEF s

(* The messages of a round.  All but a Bind that goes early are whole: the server
   has an answer to what they end with. *)
LEMMA MessagesAre ==
  ASSUME NEW o, NEW T, NEW types \in Seq(T)
  PROVE  LET m == Messages(o, types) IN
         /\ Len(m) = Len(types) /\ Len(m) \in Nat /\ DOMAIN m = 1 .. Len(types)
         /\ m \in Seq([type : T, op : {o}])
         /\ \A i \in 1 .. Len(types) : m[i] = [type |-> types[i], op |-> o]
<1>1. Len(types) \in Nat /\ DOMAIN types = 1 .. Len(types) /\ \A i \in 1 .. Len(types) : types[i] \in T
  BY QueueIs
<1> DEFINE n == Len(types)   m == Messages(o, types)
<1>2. m = [i \in 1 .. n |-> [type |-> types[i], op |-> o]]
  BY <1>1 DEF Messages
<1>3. m \in [1 .. n -> [type : T, op : {o}]]
  BY <1>1, <1>2
<1> DEFINE S == [type : T, op : {o}]
<1>4. n \in Nat /\ m \in [1 .. n -> S]
  BY <1>1, <1>3
<1> HIDE DEF n, m, S
<1>5. m \in Seq(S)
  BY <1>4, SeqDef
<1>6. Len(m) = n
  BY <1>4, <1>5, LenProperties
<1>. QED
  BY <1>1, <1>2, <1>4, <1>5, <1>6 DEF n, m, S

Wholes == {<<"query">>, <<"parse", "sync">>, <<"parse", "describe", "sync">>, <<"close", "sync">>,
           <<"bind", "execute", "sync">>, <<"describe", "sync">>, <<"execute", "sync">>,
           <<"copydata", "copydone", "sync">>}

LEMMA BatchIs ==
  ASSUME NEW o \in Op, NEW types \in Wholes \cup {<<"bind">>, <<"copydata">>},
         NEW m, m = Messages(o, types)
  PROVE  /\ m \in Seq(Asks) /\ m # <<>> /\ m[1].type = types[1] /\ DOMAIN m = 1 .. Len(types)
         /\ \A i \in DOMAIN m : m[i].op = o /\ m[i].type = types[i]
         /\ \A u : Has(m, u) <=> (u = types[1] \/ (Len(types) > 1 /\ u = types[2])
                                              \/ (Len(types) > 2 /\ u = types[3]))
         /\ \A b : types # <<"bind">> \/ b => Followed(m, b)
         /\ \A b : Linked(m, b)
         /\ OneCopy(m)
<1> DEFINE T == Types \ {"terminate"}   n == Len(types)
<1>0. \/ n = 1 /\ types[1] \in {"query", "copydata"}
      \/ n = 1 /\ types[1] = "bind" /\ types = <<"bind">>
      \/ n = 2 /\ types[1] \in {"parse", "close", "describe", "execute"} /\ types[2] = "sync"
      \/ n = 3 /\ types[1] = "parse" /\ types[2] = "describe" /\ types[3] = "sync"
      \/ n = 3 /\ types[1] = "bind" /\ types[2] = "execute" /\ types[3] = "sync"
      \/ n = 3 /\ types[1] = "copydata" /\ types[2] = "copydone" /\ types[3] = "sync"
  <2>1. CASE types = <<"query">>
    BY <2>1
  <2>2. CASE types = <<"copydata">>
    BY <2>2
  <2>3. CASE types = <<"bind">>
    BY <2>3
  <2>4. CASE types = <<"parse", "sync">>
    BY <2>4
  <2>5. CASE types = <<"close", "sync">>
    BY <2>5
  <2>6. CASE types = <<"describe", "sync">>
    BY <2>6
  <2>7. CASE types = <<"execute", "sync">>
    BY <2>7
  <2>8. CASE types = <<"parse", "describe", "sync">>
    BY <2>8
  <2>9. CASE types = <<"bind", "execute", "sync">>
    BY <2>9
  <2>10. CASE types = <<"copydata", "copydone", "sync">>
    BY <2>10
  <2>. QED
    BY <2>1, <2>2, <2>3, <2>4, <2>5, <2>6, <2>7, <2>8, <2>9, <2>10 DEF Wholes
<1>1. types \in Seq(T) /\ n \in 1 .. 3
  <2>1. /\ "query" \in T /\ "copydata" \in T /\ "bind" \in T /\ "parse" \in T /\ "close" \in T
        /\ "describe" \in T /\ "execute" \in T /\ "sync" \in T /\ "copydone" \in T
    BY DEF Types
  <2> HIDE DEF T
  <2>2. CASE types = <<"query">>
    BY <2>1, <2>2
  <2>3. CASE types = <<"copydata">>
    BY <2>1, <2>3
  <2>4. CASE types = <<"bind">>
    BY <2>1, <2>4
  <2>5. CASE types = <<"parse", "sync">>
    BY <2>1, <2>5
  <2>6. CASE types = <<"close", "sync">>
    BY <2>1, <2>6
  <2>7. CASE types = <<"describe", "sync">>
    BY <2>1, <2>7
  <2>8. CASE types = <<"execute", "sync">>
    BY <2>1, <2>8
  <2>9. CASE types = <<"parse", "describe", "sync">>
    BY <2>1, <2>9
  <2>10. CASE types = <<"bind", "execute", "sync">>
    BY <2>1, <2>10
  <2>11. CASE types = <<"copydata", "copydone", "sync">>
    BY <2>1, <2>11
  <2>. QED
    BY <2>2, <2>3, <2>4, <2>5, <2>6, <2>7, <2>8, <2>9, <2>10, <2>11 DEF Wholes
<1> HIDE DEF T, n
<1>2. /\ Len(m) = n /\ DOMAIN m = 1 .. n /\ m \in Seq([type : T, op : {o}])
      /\ \A i \in 1 .. n : m[i] = [type |-> types[i], op |-> o]
  BY <1>1, MessagesAre DEF n
<1>3. /\ DOMAIN m = 1 .. n /\ 1 \in 1 .. n
      /\ \A i \in 1 .. n : m[i].type = types[i] /\ m[i].op = o /\ m[i] \in Asks
  <2>1. \A i \in 1 .. n : types[i] \in T
    BY <1>1, QueueIs DEF n
  <2>. QED
    BY <1>1, <1>2, <2>1 DEF Asks, T
<1>4. m \in Seq(Asks)
  <2>1. m \in [1 .. n -> Asks]
    BY <1>2, <1>3, QueueIs, SeqDef
  <2>. QED
    BY <1>1, <2>1, SeqDef
<1>5. m # <<>>
  BY <1>1, <1>2, <1>4, EmptySeq
<1>6. ASSUME NEW u
      PROVE  Has(m, u) <=> u = types[1] \/ (n > 1 /\ u = types[2]) \/ (n > 2 /\ u = types[3])
  <2>1. \A i \in 1 .. n : i = 1 \/ (i = 2 /\ n > 1) \/ (i = 3 /\ n > 2)
    BY <1>1
  <2>2. (n > 1 => 2 \in 1 .. n) /\ (n > 2 => 3 \in 1 .. n)
    BY <1>1
  <2>. QED
    BY <1>3, <2>1, <2>2 DEF Has
<1>7. \A b : Linked(m, b)
  <2> SUFFICES ASSUME NEW b, NEW i \in 1 .. n, i > 1
               PROVE  types[i - 1] \in Precedes(types[i], b)
    <3>1. \A i \in 1 .. n : i > 1 => i - 1 \in 1 .. n
      BY <1>1
    <3>. QED
      BY <1>3, <3>1 DEF Linked
  <2>1. (i = 2 /\ i - 1 = 1 /\ n # 1) \/ (i = 3 /\ i - 1 = 2 /\ n = 3)
    BY <1>1
  <2>. QED
    BY <1>0, <2>1 DEF Precedes, Extended
<1>8. OneCopy(m)
  <2> SUFFICES ASSUME NEW i \in 1 .. n, NEW j \in 1 .. n, types[i] = "copydone", i < j
               PROVE  types[j] \notin OfCopy
    BY <1>1, <1>3 DEF OneCopy
  <2>1. (i = 1 /\ n # 1) \/ (i = 2 /\ j = 3 /\ n = 3)
    BY <1>1
  <2>. QED
    BY <1>0, <2>1 DEF OfCopy
<1>9. ASSUME NEW b, types # <<"bind">> \/ b PROVE Followed(m, b)
  <2> SUFFICES ASSUME NEW i \in 1 .. n, types[i] \in Extended
               PROVE  IF i = n THEN b /\ types[i] = "bind"
                      ELSE /\ types[i + 1] # "query"
                           /\ types[i] = "copydone" => types[i + 1] = "sync"
    <3>1. \A i \in 1 .. n : i # n => i + 1 \in 1 .. n
      BY <1>1
    <3>. QED
      BY <1>2, <1>3, <3>1 DEF Followed
  <2>1. \/ i = n
        \/ i = 1 /\ i + 1 = 2 /\ n # 1
        \/ i = 2 /\ i + 1 = 3 /\ n = 3
    BY <1>1
  <2>. QED
    BY <1>0, <1>9, <2>1 DEF Extended
<1>10. \A u : Has(m, u) <=> \/ u = types[1]
                            \/ n > 1 /\ u = types[2]
                            \/ n > 2 /\ u = types[3]
  BY <1>6
<1>11. \A b : types # <<"bind">> \/ b => Followed(m, b)
  BY <1>9
<1> USE DEF n
<1>12. \A u : Has(m, u) <=> \/ u = types[1]
                            \/ Len(types) > 1 /\ u = types[2]
                            \/ Len(types) > 2 /\ u = types[3]
  BY <1>10
<1>13. /\ m[1].type = types[1] /\ DOMAIN m = 1 .. Len(types)
       /\ \A i \in DOMAIN m : m[i].op = o /\ m[i].type = types[i]
  BY <1>3
<1> HIDE DEF n
<1>. QED
  BY <1>4, <1>5, <1>7, <1>8, <1>11, <1>12, <1>13

LEMMA BatchHas ==
  ASSUME NEW o \in Op, NEW u
  PROVE  /\ Has(Messages(o, <<"query">>), u) <=> u \in {"query"}
         /\ Has(Messages(o, <<"copydata">>), u) <=> u \in {"copydata"}
         /\ Has(Messages(o, <<"bind">>), u) <=> u \in {"bind"}
         /\ Has(Messages(o, <<"parse", "sync">>), u) <=> u \in {"parse", "sync"}
         /\ Has(Messages(o, <<"close", "sync">>), u) <=> u \in {"close", "sync"}
         /\ Has(Messages(o, <<"describe", "sync">>), u) <=> u \in {"describe", "sync"}
         /\ Has(Messages(o, <<"execute", "sync">>), u) <=> u \in {"execute", "sync"}
         /\ Has(Messages(o, <<"parse", "describe", "sync">>), u) <=> u \in {"parse", "describe", "sync"}
         /\ Has(Messages(o, <<"bind", "execute", "sync">>), u) <=> u \in {"bind", "execute", "sync"}
         /\ Has(Messages(o, <<"copydata", "copydone", "sync">>), u) <=> u \in {"copydata", "copydone", "sync"}
<1> DEFINE All == Wholes \cup {<<"bind">>, <<"copydata">>}
<1>0. ASSUME NEW types \in All
      PROVE  Has(Messages(o, types), u) <=> \/ u = types[1]
                                            \/ Len(types) > 1 /\ u = types[2]
                                            \/ Len(types) > 2 /\ u = types[3]
  <2> DEFINE m == Messages(o, types)
  <2>1. m = Messages(o, types)
    OBVIOUS
  <2> HIDE DEF m
  <2>2. \A v : Has(m, v) <=> \/ v = types[1]
                             \/ Len(types) > 1 /\ v = types[2]
                             \/ Len(types) > 2 /\ v = types[3]
    BY <2>1, BatchIs
  <2>. QED
    BY <2>1, <2>2
<1>1. Has(Messages(o, <<"query">>), u) <=> u \in {"query"}
  <2> DEFINE types == <<"query">>
  <2>1. types \in All
    BY DEF Wholes
  <2>2. Len(types) = 1 /\ types[1] = "query"
    OBVIOUS
  <2> HIDE DEF types, All
  <2>3. Has(Messages(o, types), u) <=> u \in {"query"}
    BY <1>0, <2>1, <2>2
  <2>. QED
    BY <2>3 DEF types
<1>2. Has(Messages(o, <<"copydata">>), u) <=> u \in {"copydata"}
  <2> DEFINE types == <<"copydata">>
  <2>1. types \in All
    BY DEF Wholes
  <2>2. Len(types) = 1 /\ types[1] = "copydata"
    OBVIOUS
  <2> HIDE DEF types, All
  <2>3. Has(Messages(o, types), u) <=> u \in {"copydata"}
    BY <1>0, <2>1, <2>2
  <2>. QED
    BY <2>3 DEF types
<1>3. Has(Messages(o, <<"bind">>), u) <=> u \in {"bind"}
  <2> DEFINE types == <<"bind">>
  <2>1. types \in All
    BY DEF Wholes
  <2>2. Len(types) = 1 /\ types[1] = "bind"
    OBVIOUS
  <2> HIDE DEF types, All
  <2>3. Has(Messages(o, types), u) <=> u \in {"bind"}
    BY <1>0, <2>1, <2>2
  <2>. QED
    BY <2>3 DEF types
<1>4. Has(Messages(o, <<"parse", "sync">>), u) <=> u \in {"parse", "sync"}
  <2> DEFINE types == <<"parse", "sync">>
  <2>1. types \in All
    BY DEF Wholes
  <2>2. Len(types) = 2 /\ types[1] = "parse" /\ types[2] = "sync"
    OBVIOUS
  <2> HIDE DEF types, All
  <2>3. Has(Messages(o, types), u) <=> u \in {"parse", "sync"}
    BY <1>0, <2>1, <2>2
  <2>. QED
    BY <2>3 DEF types
<1>5. Has(Messages(o, <<"close", "sync">>), u) <=> u \in {"close", "sync"}
  <2> DEFINE types == <<"close", "sync">>
  <2>1. types \in All
    BY DEF Wholes
  <2>2. Len(types) = 2 /\ types[1] = "close" /\ types[2] = "sync"
    OBVIOUS
  <2> HIDE DEF types, All
  <2>3. Has(Messages(o, types), u) <=> u \in {"close", "sync"}
    BY <1>0, <2>1, <2>2
  <2>. QED
    BY <2>3 DEF types
<1>6. Has(Messages(o, <<"describe", "sync">>), u) <=> u \in {"describe", "sync"}
  <2> DEFINE types == <<"describe", "sync">>
  <2>1. types \in All
    BY DEF Wholes
  <2>2. Len(types) = 2 /\ types[1] = "describe" /\ types[2] = "sync"
    OBVIOUS
  <2> HIDE DEF types, All
  <2>3. Has(Messages(o, types), u) <=> u \in {"describe", "sync"}
    BY <1>0, <2>1, <2>2
  <2>. QED
    BY <2>3 DEF types
<1>7. Has(Messages(o, <<"execute", "sync">>), u) <=> u \in {"execute", "sync"}
  <2> DEFINE types == <<"execute", "sync">>
  <2>1. types \in All
    BY DEF Wholes
  <2>2. Len(types) = 2 /\ types[1] = "execute" /\ types[2] = "sync"
    OBVIOUS
  <2> HIDE DEF types, All
  <2>3. Has(Messages(o, types), u) <=> u \in {"execute", "sync"}
    BY <1>0, <2>1, <2>2
  <2>. QED
    BY <2>3 DEF types
<1>8. Has(Messages(o, <<"parse", "describe", "sync">>), u) <=> u \in {"parse", "describe", "sync"}
  <2> DEFINE types == <<"parse", "describe", "sync">>
  <2>1. types \in All
    BY DEF Wholes
  <2>2. Len(types) = 3 /\ types[1] = "parse" /\ types[2] = "describe" /\ types[3] = "sync"
    OBVIOUS
  <2> HIDE DEF types, All
  <2>3. Has(Messages(o, types), u) <=> u \in {"parse", "describe", "sync"}
    BY <1>0, <2>1, <2>2
  <2>. QED
    BY <2>3 DEF types
<1>9. Has(Messages(o, <<"bind", "execute", "sync">>), u) <=> u \in {"bind", "execute", "sync"}
  <2> DEFINE types == <<"bind", "execute", "sync">>
  <2>1. types \in All
    BY DEF Wholes
  <2>2. Len(types) = 3 /\ types[1] = "bind" /\ types[2] = "execute" /\ types[3] = "sync"
    OBVIOUS
  <2> HIDE DEF types, All
  <2>3. Has(Messages(o, types), u) <=> u \in {"bind", "execute", "sync"}
    BY <1>0, <2>1, <2>2
  <2>. QED
    BY <2>3 DEF types
<1>10. Has(Messages(o, <<"copydata", "copydone", "sync">>), u) <=> u \in {"copydata", "copydone", "sync"}
  <2> DEFINE types == <<"copydata", "copydone", "sync">>
  <2>1. types \in All
    BY DEF Wholes
  <2>2. Len(types) = 3 /\ types[1] = "copydata" /\ types[2] = "copydone" /\ types[3] = "sync"
    OBVIOUS
  <2> HIDE DEF types, All
  <2>3. Has(Messages(o, types), u) <=> u \in {"copydata", "copydone", "sync"}
    BY <1>0, <2>1, <2>2
  <2>. QED
    BY <2>3 DEF types
<1>. QED
  BY <1>1, <1>2, <1>3, <1>4, <1>5, <1>6, <1>7, <1>8, <1>9, <1>10

(* The server's answers. *)
LEMMA OneReply ==
  ASSUME replies \in Seq(Answers), NEW o \in Op, NEW c \in Codes, NEW tx \in {"I", "T", "E"},
         NEW codes, codes \in {<<c>>, <<c>> \o <<>>}, Reply(o, codes, tx)
  PROVE  /\ replies' \in Seq(Answers)
         /\ Len(replies) \in Nat /\ DOMAIN replies = 1 .. Len(replies)
         /\ Len(replies') = Len(replies) + 1 /\ DOMAIN replies' = 1 .. Len(replies) + 1
         /\ \A i \in 1 .. Len(replies) : replies'[i] = replies[i]
         /\ replies'[Len(replies) + 1] = [code |-> c, op |-> o, tx |-> tx]
         /\ \A d : Got(replies', d) <=> Got(replies, d) \/ d = c
         /\ OneAnswer(replies) /\ (c = "copyin" => ~Got(replies, "copyin")) => OneAnswer(replies')
<1> DEFINE r == <<[code |-> c, op |-> o, tx |-> tx]>>
<1>1. codes = <<c>>
  OBVIOUS
<1>2. [i \in DOMAIN codes |-> [code |-> codes[i], op |-> o, tx |-> tx]] = r
  BY <1>1
<1>3. replies' = replies \o r
  BY <1>2 DEF Reply
<1>4. r \in Seq(Answers) /\ Len(r) = 1 /\ r[1].code = c /\ r[1] = [code |-> c, op |-> o, tx |-> tx]
  BY DEF Answers
<1> HIDE DEF r
<1>5. DOMAIN r = 1 .. 1
  BY <1>4, QueueIs
<1>6. \A d : Got(r, d) <=> d = c
  BY <1>4, <1>5 DEF Got
<1>7. OneAnswer(r)
  BY <1>5 DEF OneAnswer
<1>10. /\ replies \o r \in Seq(Answers) /\ Len(replies \o r) = Len(replies) + Len(r)
       /\ Len(replies) \in Nat
       /\ DOMAIN replies = 1 .. Len(replies) /\ DOMAIN (replies \o r) = 1 .. Len(replies) + Len(r)
       /\ \A i \in 1 .. Len(replies) : (replies \o r)[i] = replies[i]
       /\ \A i \in 1 .. Len(r) : (replies \o r)[Len(replies) + i] = r[i]
  <2>1. replies \in Seq(Answers) /\ r \in Seq(Answers)
    BY <1>4
  <2>. QED
    BY ONLY <2>1, ConcatIs
<1>8. /\ replies' \in Seq(Answers) /\ Len(replies') = Len(replies) + 1
      /\ DOMAIN replies' = 1 .. Len(replies) + 1 /\ DOMAIN replies = 1 .. Len(replies)
      /\ Len(replies) \in Nat
      /\ \A i \in 1 .. Len(replies) : replies'[i] = replies[i]
      /\ replies'[Len(replies) + 1] = r[1]
  BY <1>3, <1>4, <1>5, <1>10
<1>9. /\ \A d : Got(replies', d) <=> Got(replies, d) \/ Got(r, d)
      /\ OneAnswer(replies) /\ OneAnswer(r) /\ ~(Got(replies, "copyin") /\ Got(r, "copyin"))
              => OneAnswer(replies')
  BY <1>3, <1>4, JoinedTo
<1>. QED
  BY <1>4, <1>6, <1>7, <1>8, <1>9

LEMMA ReplyAndReady ==
  ASSUME replies \in Seq(Answers), NEW o \in Op, NEW c \in {"complete", "error"},
         NEW tx \in {"I", "T", "E"}, NEW codes, codes = <<c>> \o <<"ready">>, Reply(o, codes, tx)
  PROVE  /\ replies' \in Seq(Answers)
         /\ Len(replies) \in Nat /\ DOMAIN replies = 1 .. Len(replies)
         /\ Len(replies') = Len(replies) + 2 /\ DOMAIN replies' = 1 .. Len(replies) + 2
         /\ \A i \in 1 .. Len(replies) : replies'[i] = replies[i]
         /\ replies'[Len(replies) + 1] = [code |-> c, op |-> o, tx |-> tx]
         /\ replies'[Len(replies) + 2] = [code |-> "ready", op |-> o, tx |-> tx]
         /\ \A d : Got(replies', d) <=> Got(replies, d) \/ d \in {c, "ready"}
         /\ OneAnswer(replies) => OneAnswer(replies')
<1> DEFINE r == <<[code |-> c, op |-> o, tx |-> tx], [code |-> "ready", op |-> o, tx |-> tx]>>
<1>1. codes = <<c, "ready">>
  <2> DEFINE S == {c, "ready"}   a == <<c>>   b == <<"ready">>
  <2>1. a \in Seq(S) /\ b \in Seq(S) /\ Len(a) = 1 /\ Len(b) = 1 /\ a[1] = c /\ b[1] = "ready"
    OBVIOUS
  <2>2. <<c, "ready">> \in Seq(S) /\ Len(<<c, "ready">>) = 2
    OBVIOUS
  <2> HIDE DEF S, a, b
  <2>3. /\ a \o b \in Seq(S) /\ Len(a \o b) = 2
        /\ \A i \in 1 .. 1 : (a \o b)[i] = a[i] /\ (a \o b)[1 + i] = b[i]
    BY <2>1, ConcatIs
  <2>4. (a \o b)[1] = c /\ (a \o b)[2] = "ready"
    BY <2>1, <2>3
  <2>5. \A i \in 1 .. 2 : i = 1 \/ i = 2
    OBVIOUS
  <2>6. <<c, "ready">>[1] = c /\ <<c, "ready">>[2] = "ready"
    OBVIOUS
  <2>7. \A i \in 1 .. 2 : (a \o b)[i] = <<c, "ready">>[i]
    BY <2>4, <2>5, <2>6
  <2>8. a \o b = <<c, "ready">>
    BY <2>2, <2>3, <2>7, SeqEqual
  <2>. QED
    BY <2>8 DEF a, b
<1>2. [i \in DOMAIN codes |-> [code |-> codes[i], op |-> o, tx |-> tx]] = r
  BY <1>1
<1>3. replies' = replies \o r
  BY <1>2 DEF Reply
<1>4. /\ r \in Seq(Answers) /\ Len(r) = 2
      /\ r[1] = [code |-> c, op |-> o, tx |-> tx] /\ r[2] = [code |-> "ready", op |-> o, tx |-> tx]
  BY DEF Answers, Codes
<1> HIDE DEF r
<1>5. DOMAIN r = 1 .. 2 /\ \A i \in 1 .. 2 : i = 1 \/ i = 2
  BY <1>4, QueueIs
<1>6. \A d : Got(r, d) <=> d \in {c, "ready"}
  BY <1>4, <1>5 DEF Got
<1>7. OneAnswer(r)
  BY <1>4, <1>5 DEF OneAnswer
<1>11. r \in Seq(Answers)
  BY <1>4
<1>10. /\ replies \o r \in Seq(Answers) /\ Len(replies \o r) = Len(replies) + Len(r)
       /\ Len(replies) \in Nat
       /\ DOMAIN replies = 1 .. Len(replies) /\ DOMAIN (replies \o r) = 1 .. Len(replies) + Len(r)
       /\ \A i \in 1 .. Len(replies) : (replies \o r)[i] = replies[i]
       /\ \A i \in 1 .. Len(r) : (replies \o r)[Len(replies) + i] = r[i]
  BY ONLY replies \in Seq(Answers), <1>11, ConcatIs
<1>8. /\ replies' \in Seq(Answers) /\ Len(replies') = Len(replies) + 2
      /\ DOMAIN replies' = 1 .. Len(replies) + 2 /\ DOMAIN replies = 1 .. Len(replies)
      /\ Len(replies) \in Nat
      /\ \A i \in 1 .. Len(replies) : replies'[i] = replies[i]
      /\ replies'[Len(replies) + 1] = r[1] /\ replies'[Len(replies) + 2] = r[2]
  BY <1>3, <1>4, <1>5, <1>10
<1>9. /\ \A d : Got(replies', d) <=> Got(replies, d) \/ Got(r, d)
      /\ OneAnswer(replies) /\ OneAnswer(r) /\ ~(Got(replies, "copyin") /\ Got(r, "copyin"))
              => OneAnswer(replies')
  BY <1>3, <1>4, JoinedTo
<1>. QED
  BY <1>4, <1>6, <1>7, <1>8, <1>9

-----------------------------------------------------------------------------
(* The server takes a message, which the rest of the requests follows.         *)

LEMMA FirstIs ==
  ASSUME NEW q \in Seq(Asks), q # <<>>, NEW t, q[1].type = t
  PROVE  LET r == Tail(q) IN
         /\ \A b : Followed(q, b) /\ t \in Extended =>
              IF r = <<>> THEN b /\ t = "bind"
              ELSE Head(r).type # "query" /\ (t = "copydone" => Has(r, "sync"))
         /\ OneCopy(q) /\ t = "copydone" => ~Has(r, "copydata") /\ ~Has(r, "copydone")
         /\ \A b : Linked(q, b) /\ r # <<>> => t \in Precedes(r[1].type, b)
         /\ \A b : Linked(q, b) => ~Has(r, "query") /\ ~Has(r, "parse") /\ ~Has(r, "close")
         /\ \A b : Linked(q, b) /\ ~b => ~Has(r, "bind") /\ (t # "bind" => ~Has(r, "execute"))
<1> DEFINE r == Tail(q)   n == Len(q)
<1>1. /\ r \in Seq(Asks) /\ n \in Nat \ {0} /\ Len(q) = n /\ Len(r) = n - 1
      /\ DOMAIN q = 1 .. n /\ DOMAIN r = 1 .. n - 1
      /\ \A i \in 1 .. n - 1 : r[i] = q[i + 1]
  BY TailIs
<1>2. (r = <<>> <=> n = 1) /\ (r # <<>> => Head(r) = r[1] /\ r[1] = q[2] /\ 1 \in 1 .. n - 1)
  <2> HIDE DEF r, n
  <2>1. (r = <<>> <=> Len(r) = 0) /\ Head(r) = r[1]
    BY <1>1, QueueIs DEF Head
  <2>2. r # <<>> => 1 \in 1 .. n - 1 /\ r[1] = q[1 + 1]
    BY <1>1, <2>1
  <2>. QED
    BY <1>1, <2>1, <2>2
<1> HIDE DEF r, n
<1>3. ASSUME NEW b, Followed(q, b), t \in Extended
      PROVE  IF r = <<>> THEN b /\ t = "bind"
             ELSE Head(r).type # "query" /\ (t = "copydone" => Has(r, "sync"))
  <2>1. 1 \in DOMAIN q
    BY <1>1
  <2>2. IF n = 1 THEN b /\ t = "bind"
        ELSE q[2].type # "query" /\ (t = "copydone" => q[2].type = "sync")
    BY <1>1, <1>3, <2>1 DEF Followed
  <2>. QED
    BY <1>1, <1>2, <2>2 DEF Has
<1>4. ASSUME OneCopy(q), t = "copydone" PROVE ~Has(r, "copydata") /\ ~Has(r, "copydone")
  <2> SUFFICES ASSUME NEW i \in 1 .. n - 1, r[i].type \in OfCopy PROVE FALSE
    BY <1>1 DEF Has, OfCopy
  <2>1. r[i] = q[i + 1] /\ i + 1 \in 1 .. n /\ 1 \in 1 .. n /\ 1 < i + 1
    BY <1>1
  <2>. QED
    BY <1>1, <1>4, <2>1 DEF OneCopy
<1>5. ASSUME NEW b, Linked(q, b), NEW i \in 1 .. n - 1
      PROVE  q[i].type \in Precedes(r[i].type, b)
  <2>1. r[i] = q[i + 1] /\ i + 1 \in 1 .. n /\ i + 1 > 1 /\ (i + 1) - 1 = i
    BY <1>1
  <2>. QED
    BY <1>1, <1>5, <2>1 DEF Linked
<1>6. ASSUME NEW b, Linked(q, b), r # <<>> PROVE t \in Precedes(r[1].type, b)
  BY <1>2, <1>5, <1>6
<1>7. ASSUME NEW b, Linked(q, b) PROVE ~Has(r, "query") /\ ~Has(r, "parse") /\ ~Has(r, "close")
  <2> SUFFICES ASSUME NEW i \in 1 .. n - 1, r[i].type \in {"query", "parse", "close"} PROVE FALSE
    BY <1>1 DEF Has
  <2>. QED
    BY <1>5, <1>7 DEF Precedes
<1>8. ASSUME NEW b, Linked(q, b), ~b PROVE ~Has(r, "bind") /\ (t # "bind" => ~Has(r, "execute"))
  <2>1. ASSUME NEW i \in 1 .. n - 1 PROVE r[i].type # "bind"
    BY <1>5, <1>8 DEF Precedes
  <2>2. ASSUME NEW i \in 1 .. n - 1, t # "bind" PROVE r[i].type # "execute"
    <3> SUFFICES ASSUME r[i].type = "execute" PROVE FALSE
      OBVIOUS
    <3>1. q[i].type = "bind"
      BY <1>5, <1>8 DEF Precedes
    <3>2. i # 1
      BY <2>2, <3>1
    <3>3. i - 1 \in 1 .. n - 1 /\ (i - 1) + 1 = i
      BY <1>1, <3>2
    <3>4. r[i - 1] = q[i]
      BY <1>1, <3>3
    <3>. QED
      BY <2>1, <3>1, <3>3, <3>4
  <2>. QED
    BY <1>1, <2>1, <2>2 DEF Has
<1>. QED
  BY <1>3, <1>4, <1>6, <1>7, <1>8 DEF r

LEMMA TakeIs ==
  ASSUME Typed, NEW t, Takes(t)
  PROVE  /\ server.up /\ requests # <<>> /\ requests' = Tail(requests) /\ requests' \in Seq(Asks)
         /\ Head(requests).type = t /\ requests[1].type = t /\ Message = requests[1]
         /\ Message \in Asks /\ (t # "terminate" => Message.op \in Op)
         /\ \A i \in DOMAIN requests' : \E j \in DOMAIN requests : requests'[i] = requests[j]
         /\ 1 \in DOMAIN requests
         /\ \A u : Has(requests, u) <=> u = t \/ Has(requests', u)
<1>1. server.up /\ requests # <<>> /\ requests' = Tail(requests) /\ Head(requests).type = t
  BY DEF Takes
<1>2. requests \in Seq(Asks)
  BY DEF Typed, QueuesTyped
<1>3. /\ Tail(requests) \in Seq(Asks) /\ Head(requests) = requests[1] /\ requests[1] \in Asks
      /\ Len(requests) \in Nat \ {0}
      /\ \A i \in 1 .. Len(requests) - 1 : Tail(requests)[i] = requests[i + 1]
      /\ DOMAIN requests = 1 .. Len(requests) /\ DOMAIN Tail(requests) = 1 .. Len(requests) - 1
  BY <1>1, <1>2, TailIs
<1>4. \A u : Has(requests, u) <=> requests[1].type = u \/ Has(Tail(requests), u)
  BY <1>1, <1>2, TakenFrom
<1>5. ASSUME NEW i \in DOMAIN requests' PROVE \E j \in DOMAIN requests : requests'[i] = requests[j]
  <2>1. i \in 1 .. Len(requests) - 1 /\ i + 1 \in 1 .. Len(requests)
    BY <1>1, <1>3
  <2>. QED
    BY <1>1, <1>3, <2>1
<1>. QED
  BY <1>1, <1>3, <1>4, <1>5 DEF Message, Asks

(* What the client may wait for, over a step of the server. *)
LEMMA TakeFlow ==
  ASSUME Typed, NEW t, Takes(t), UNCHANGED <<caller, buffer, causes>>, Requested, Skipping, Copies
  PROVE  /\ Requested' /\ OneCopy(requests')
         /\ t \in Extended => /\ requests' = <<>> => pc = "describe"
                              /\ requests' # <<>> => Head(requests').type # "query"
         /\ t = "copydone" =>
              Has(requests', "sync") /\ ~Has(requests', "copydata") /\ ~Has(requests', "copydone")
         /\ server.skip => t # "query" /\ t \notin OfCopy
         /\ server.skip /\ t \notin Extended => t \in {"sync", "terminate"}
<1>1. /\ requests \in Seq(Asks) /\ requests # <<>> /\ requests' = Tail(requests)
      /\ requests[1].type = t /\ Head(requests).type = t /\ requests[1] \in Asks
      /\ \A u : Has(requests, u) <=> u = t \/ Has(requests', u)
  BY TakeIs DEF Typed, QueuesTyped
<1>2. pc' = pc /\ buffer' = buffer
  BY DEF caller
<1>3. Followed(requests, pc = "describe") /\ OneCopy(requests)
  BY DEF Requested, Copies
<1>4. Followed(requests', pc = "describe") /\ OneCopy(requests')
  BY <1>1, <1>3, TakenFrom
<1>5. Requested'
  BY <1>2, <1>4 DEF Requested
<1>6. /\ t \in Extended =>
           IF requests' = <<>> THEN pc = "describe" /\ t = "bind"
           ELSE Head(requests').type # "query" /\ (t = "copydone" => Has(requests', "sync"))
      /\ t = "copydone" => ~Has(requests', "copydata") /\ ~Has(requests', "copydone")
  BY <1>1, <1>3, FirstIs
<1>7. server.skip => t # "query" /\ t \notin OfCopy
  BY <1>1 DEF Skipping, Copies, OfCopy
<1>8. t \in Types
  BY <1>1 DEF Asks, Types
<1>. QED
  BY <1>4, <1>5, <1>6, <1>7, <1>8 DEF Extended, Types, OfCopy

(* The effects of a step of the server on the answers: none, an error after which it
   skips, or those of a statement. *)
LEMMA RefusesIs ==
  ASSUME Typed, NEW t, t # "terminate", Takes(t), Refuses
  PROVE  /\ server' = [server EXCEPT !.skip = TRUE, !.tx = AfterFailure("other")]
         /\ AfterFailure("other") \in {"I", "E"}
         /\ server'.skip /\ server'.copying = server.copying /\ server'.up = server.up
         /\ replies' \in Seq(Answers)
         /\ Len(replies) \in Nat /\ DOMAIN replies = 1 .. Len(replies)
         /\ Len(replies') = Len(replies) + 1 /\ DOMAIN replies' = 1 .. Len(replies) + 1
         /\ \A i \in 1 .. Len(replies) : replies'[i] = replies[i]
         /\ replies'[Len(replies) + 1].code = "error"
         /\ \A d : Got(replies', d) <=> Got(replies, d) \/ d = "error"
         /\ OneAnswer(replies) => OneAnswer(replies')
         /\ UNCHANGED <<unnamed, named, portal, undone>>
<1> DEFINE tx == AfterFailure("other")
<1>1. tx \in {"I", "E"}
  BY DEF AfterFailure
<1>2. Message.op \in Op
  BY TakeIs
<1>3. Reply(Message.op, <<"error">>, tx) /\ server' = [server EXCEPT !.skip = TRUE, !.tx = tx]
  BY DEF Refuses
<1> HIDE DEF tx
<1>4. replies \in Seq(Answers) /\ "error" \in Codes /\ tx \in {"I", "T", "E"}
  BY <1>1 DEF Typed, QueuesTyped, Codes
<1>5. /\ replies' \in Seq(Answers)
      /\ Len(replies) \in Nat /\ DOMAIN replies = 1 .. Len(replies)
      /\ Len(replies') = Len(replies) + 1 /\ DOMAIN replies' = 1 .. Len(replies) + 1
      /\ \A i \in 1 .. Len(replies) : replies'[i] = replies[i]
      /\ replies'[Len(replies) + 1] = [code |-> "error", op |-> Message.op, tx |-> tx]
      /\ \A d : Got(replies', d) <=> Got(replies, d) \/ d = "error"
      /\ OneAnswer(replies) => OneAnswer(replies')
  BY <1>2, <1>3, <1>4, OneReply
<1>6. /\ server'.skip /\ server'.copying = server.copying /\ server'.up = server.up
  BY <1>3 DEF Typed, ServerTyped
<1>. QED
  BY <1>1, <1>3, <1>5, <1>6 DEF Refuses, tx

(* A statement s has been executed: c is the answer, after which a query is over. *)
Answer(c, s, over) ==
  /\ replies' \in Seq(Answers)
  /\ Len(replies) \in Nat /\ DOMAIN replies = 1 .. Len(replies)
  /\ \A i \in 1 .. Len(replies) : replies'[i] = replies[i]
  /\ replies'[Len(replies) + 1].code = c
  /\ OneAnswer(replies) /\ (c = "copyin" => ~Got(replies, "copyin")) => OneAnswer(replies')
  /\ IF over /\ c # "copyin"
     THEN /\ Len(replies') = Len(replies) + 2 /\ DOMAIN replies' = 1 .. Len(replies) + 2
          /\ replies'[Len(replies) + 2].code = "ready"
          /\ replies'[Len(replies) + 2].tx = server'.tx
          /\ \A d : Got(replies', d) <=> Got(replies, d) \/ d \in {c, "ready"}
     ELSE /\ Len(replies') = Len(replies) + 1 /\ DOMAIN replies' = 1 .. Len(replies) + 1
          /\ \A d : Got(replies', d) <=> Got(replies, d) \/ d = c
  /\ server'.up = server.up
  /\ c = "complete" => /\ server'.copying = FALSE /\ server'.skip = server.skip
                       /\ undone' \in {0, Message.op.id}
                       /\ undone' # 0 => s = "commit" /\ server.tx = "E"
  /\ c = "copyin" => server'.copying = TRUE /\ server'.skip = server.skip /\ undone' = 0
  /\ c = "error" => /\ server'.copying = server.copying /\ (server'.skip <=> ~over)
                    /\ undone' \in {0, Message.op.id}

LEMMA ExecutesIs ==
  ASSUME Typed, NEW t, t # "terminate", Takes(t), NEW s \in Statements \cup {"none"}, NEW over \in BOOLEAN,
         NEW ending, ending = (IF over THEN <<"ready">> ELSE <<>>), Executes(Message.op, s, ending)
  PROVE  /\ \E c \in {"complete", "copyin", "error"} : Answer(c, s, over)
         /\ server' \in [tx : {"I", "T", "E"}, skip : BOOLEAN, copying : BOOLEAN, up : BOOLEAN]
         /\ undone' \in Ids \cup {0}
<1> DEFINE o == Message.op
<1>1. o \in Op /\ o.id \in Ids
  BY TakeIs DEF Op
<1>2. /\ replies \in Seq(Answers) /\ "error" \in Codes /\ "copyin" \in Codes /\ "complete" \in Codes
      /\ server \in [tx : {"I", "T", "E"}, skip : BOOLEAN, copying : BOOLEAN, up : BOOLEAN]
  BY DEF Typed, QueuesTyped, ServerTyped, Codes
<1>3. After(s) \in {"I", "T", "E"} /\ AfterFailure(s) \in {"I", "T", "E"}
  BY <1>2 DEF After, AfterFailure
<1> HIDE DEF o
<1>4. ASSUME NEW c \in {"complete", "error"}, NEW tx \in {"I", "T", "E"}, NEW codes,
             codes = <<c>> \o ending, Reply(o, codes, tx)
      PROVE  /\ replies' \in Seq(Answers)
             /\ Len(replies) \in Nat /\ DOMAIN replies = 1 .. Len(replies)
             /\ \A i \in 1 .. Len(replies) : replies'[i] = replies[i]
             /\ replies'[Len(replies) + 1].code = c
             /\ OneAnswer(replies) => OneAnswer(replies')
             /\ IF over
                THEN /\ Len(replies') = Len(replies) + 2 /\ DOMAIN replies' = 1 .. Len(replies) + 2
                     /\ replies'[Len(replies) + 2].code = "ready"
                     /\ replies'[Len(replies) + 2].tx = tx
                     /\ \A d : Got(replies', d) <=> Got(replies, d) \/ d \in {c, "ready"}
                ELSE /\ Len(replies') = Len(replies) + 1 /\ DOMAIN replies' = 1 .. Len(replies) + 1
                     /\ \A d : Got(replies', d) <=> Got(replies, d) \/ d = c
  <2>1. CASE over
    <3>1. codes = <<c>> \o <<"ready">>
      BY <1>4, <2>1
    <3>2. /\ replies' \in Seq(Answers)
          /\ Len(replies) \in Nat /\ DOMAIN replies = 1 .. Len(replies)
          /\ Len(replies') = Len(replies) + 2 /\ DOMAIN replies' = 1 .. Len(replies) + 2
          /\ \A i \in 1 .. Len(replies) : replies'[i] = replies[i]
          /\ replies'[Len(replies) + 1] = [code |-> c, op |-> o, tx |-> tx]
          /\ replies'[Len(replies) + 2] = [code |-> "ready", op |-> o, tx |-> tx]
          /\ \A d : Got(replies', d) <=> Got(replies, d) \/ d \in {c, "ready"}
          /\ OneAnswer(replies) => OneAnswer(replies')
      BY <1>1, <1>2, <1>4, <3>1, ReplyAndReady, Zenon
    <3>. QED
      BY ONLY <2>1, <3>2
  <2>2. CASE ~over
    <3>1. codes = <<c>> \o <<>>
      BY <1>4, <2>2
    <3>2. codes \in {<<c>>, <<c>> \o <<>>} /\ c \in Codes
      BY <1>2, <3>1
    <3>3. /\ replies' \in Seq(Answers)
          /\ Len(replies) \in Nat /\ DOMAIN replies = 1 .. Len(replies)
          /\ \A i \in 1 .. Len(replies) : replies'[i] = replies[i]
          /\ replies'[Len(replies) + 1] = [code |-> c, op |-> o, tx |-> tx]
          /\ Len(replies') = Len(replies) + 1 /\ DOMAIN replies' = 1 .. Len(replies) + 1
          /\ \A d : Got(replies', d) <=> Got(replies, d) \/ d = c
          /\ OneAnswer(replies) /\ (c = "copyin" => ~Got(replies, "copyin")) => OneAnswer(replies')
      <4>1. Reply(o, codes, tx) /\ replies \in Seq(Answers) /\ tx \in {"I", "T", "E"}
        BY <1>2, <1>4
      <4>. QED
        BY ONLY <1>1, <3>2, <4>1, OneReply, Zenon
    <3>. QED
      BY ONLY <2>2, <3>3
  <2>. QED
    BY <2>1, <2>2
<1>5. CASE /\ ~Doomed(s) /\ s # "copyin"
           /\ server' = [server EXCEPT !.tx = After(s), !.copying = s = "copyin"]
           /\ Reply(o, <<"complete">> \o ending, After(s))
           /\ undone' = IF s = "commit" /\ server.tx = "E" THEN o.id ELSE 0
  <2>1. /\ server' \in [tx : {"I", "T", "E"}, skip : BOOLEAN, copying : BOOLEAN, up : BOOLEAN]
        /\ server'.tx = After(s) /\ server'.copying = FALSE /\ server'.skip = server.skip
        /\ server'.up = server.up
    BY <1>2, <1>3, <1>5
  <2>2. undone' \in Ids \cup {0} /\ undone' \in {0, o.id} /\ (undone' # 0 => s = "commit" /\ server.tx = "E")
    BY <1>1, <1>5
  <2>3. Answer("complete", s, over)
    BY <1>3, <1>4, <1>5, <2>1, <2>2 DEF Answer, o
  <2>. QED
    BY <2>1, <2>2, <2>3
<1>6. CASE /\ ~Doomed(s) /\ s = "copyin"
           /\ server' = [server EXCEPT !.tx = After(s), !.copying = s = "copyin"]
           /\ Reply(o, <<"copyin">>, After(s))
           /\ undone' = IF s = "commit" /\ server.tx = "E" THEN o.id ELSE 0
  <2>1. /\ server' \in [tx : {"I", "T", "E"}, skip : BOOLEAN, copying : BOOLEAN, up : BOOLEAN]
        /\ server'.tx = After(s) /\ server'.copying = TRUE /\ server'.skip = server.skip
        /\ server'.up = server.up
    BY <1>2, <1>3, <1>6
  <2>2. undone' = 0
    BY <1>6
  <2> DEFINE c == "copyin"   codes == <<"copyin">>
  <2>5. c \in Codes /\ codes \in {<<c>>, <<c>> \o <<>>} /\ After(s) \in {"I", "T", "E"}
        /\ Reply(o, codes, After(s))
    BY <1>2, <1>3, <1>6
  <2> HIDE DEF codes
  <2>3. /\ replies' \in Seq(Answers)
        /\ Len(replies) \in Nat /\ DOMAIN replies = 1 .. Len(replies)
        /\ \A i \in 1 .. Len(replies) : replies'[i] = replies[i]
        /\ replies'[Len(replies) + 1] = [code |-> "copyin", op |-> o, tx |-> After(s)]
        /\ Len(replies') = Len(replies) + 1 /\ DOMAIN replies' = 1 .. Len(replies) + 1
        /\ \A d : Got(replies', d) <=> Got(replies, d) \/ d = "copyin"
        /\ OneAnswer(replies) /\ (c = "copyin" => ~Got(replies, "copyin")) => OneAnswer(replies')
    BY <1>1, <1>2, <2>5, OneReply, Zenon
  <2>4. Answer("copyin", s, over)
    BY <2>1, <2>2, <2>3 DEF Answer
  <2>. QED
    BY <2>1, <2>2, <2>4
<1>7. CASE /\ server' = [server EXCEPT !.tx = AfterFailure(s), !.skip = ending = <<>>]
           /\ Reply(o, <<"error">> \o ending, AfterFailure(s))
           /\ undone' = IF s = "commit" THEN o.id ELSE 0
  <2>1. (ending = <<>>) = ~over
    OBVIOUS
  <2>2. /\ server' \in [tx : {"I", "T", "E"}, skip : BOOLEAN, copying : BOOLEAN, up : BOOLEAN]
        /\ server'.tx = AfterFailure(s) /\ server'.copying = server.copying /\ server'.skip = ~over
        /\ server'.up = server.up
    BY <1>2, <1>3, <1>7, <2>1
  <2>3. undone' \in Ids \cup {0} /\ undone' \in {0, o.id}
    BY <1>1, <1>7
  <2>4. Answer("error", s, over)
    BY <1>3, <1>4, <1>7, <2>2, <2>3 DEF Answer, o
  <2>. QED
    BY <2>2, <2>3, <2>4
<1>. QED
  BY <1>5, <1>6, <1>7 DEF Executes, o

LEMMA ServeFlow ==
  ASSUME Typed, Flow, Serve
  PROVE  Flow'
<1> SUFFICES ASSUME server'.up, "staleBind" \notin causes, pc # "closed", UNCHANGED <<caller, buffer, causes>>
             PROVE  (Requested /\ Skipping /\ Copies /\ Owed)'
  <2>1. UNCHANGED <<caller, buffer, causes>>
    BY DEF Serve
  <2>. QED
    BY <2>1 DEF Flow, caller
<1>1. pc' = pc
  BY DEF caller
<1>2. server \in [tx : {"I", "T", "E"}, skip : BOOLEAN, copying : BOOLEAN, up : BOOLEAN]
  BY DEF Typed, ServerTyped
<1>3. ASSUME NEW t, Takes(t)
      PROVE  /\ server.up /\ Requested /\ Skipping /\ Copies /\ Owed
             /\ requests # <<>> /\ Head(requests).type = t /\ t \in Types
             /\ \A u : Has(requests, u) <=> u = t \/ Has(requests', u)
             /\ Requested' /\ OneCopy(requests')
             /\ t \in Extended => /\ requests' = <<>> => pc = "describe"
                                  /\ requests' # <<>> => Head(requests').type # "query"
             /\ t = "copydone" =>
                  Has(requests', "sync") /\ ~Has(requests', "copydata") /\ ~Has(requests', "copydone")
             /\ server.skip => t # "query" /\ t \notin OfCopy
             /\ server.skip /\ t \notin Extended => t \in {"sync", "terminate"}
  <2>1. server.up /\ Requested /\ Skipping /\ Copies /\ Owed
    BY <1>3, TakeIs DEF Flow
  <2>2. t \in Types
    BY <1>3, TakeIs DEF Asks, Types
  <2>. QED
    BY <1>3, <2>1, <2>2, TakeIs, TakeFlow
<1> USE <1>1, <1>2
(* Nothing is answered. *)
<1>4. ASSUME NEW t, Takes(t), ~server.skip, ~server.copying, UNCHANGED <<server, replies>>,
             t \in {"parse", "describe", "bind", "close", "copydata", "copydone"}
      PROVE  (Requested /\ Skipping /\ Copies /\ Owed)'
  <2> USE <1>3, <1>4
  <2>1. Skipping'
    BY DEF Skipping
  <2>2. Copies'
    BY DEF Copies
  <2>3. Owed'
    BY DEF Owed, InCopy, OfCopy
  <2>. QED
    BY <2>1, <2>2, <2>3
(* An error, after which the server skips. *)
<1>5. ASSUME NEW t, Works(t), t \in {"parse", "describe", "bind", "execute"}, Refuses
      PROVE  (Requested /\ Skipping /\ Copies /\ Owed)'
  <2> USE <1>5 DEF Works
  <2>1. /\ server'.skip /\ server'.copying = server.copying
        /\ \A d : Got(replies', d) <=> Got(replies, d) \/ d = "error"
        /\ OneAnswer(replies) => OneAnswer(replies')
    BY RefusesIs
  <2> USE <1>3
  <2>2. Skipping'
    BY <2>1 DEF Skipping, Extended
  <2>3. Copies'
    BY <2>1 DEF Copies
  <2>4. Owed'
    BY <2>1 DEF Owed
  <2>. QED
    BY <2>2, <2>3, <2>4
(* A statement is executed. *)
<1>6. ASSUME NEW t, Works(t), t \in {"query", "execute"},
             NEW over \in BOOLEAN, over <=> t = "query",
             NEW s, NEW c \in {"complete", "copyin", "error"}, Answer(c, s, over)
      PROVE  (Requested /\ Skipping /\ Copies /\ Owed)'
  <2> USE <1>3, <1>6 DEF Works
  <2>1. ~Got(replies, "copyin") /\ ~Has(requests, "copydata") /\ ~Has(requests, "copydone") /\ OneAnswer(replies)
    BY DEF Copies
  <2>2. /\ \A d : Got(replies', d) <=> Got(replies, d) \/ d = c \/ (d = "ready" /\ t = "query" /\ c # "copyin")
        /\ OneAnswer(replies')
    BY <2>1 DEF Answer
  <2>3. /\ server'.copying <=> c = "copyin"
        /\ server'.skip <=> c = "error" /\ t # "query"
    BY DEF Answer
  <2>4. Skipping'
    BY <2>3 DEF Skipping, Extended
  <2>5. Copies'
    BY <2>1, <2>2, <2>3 DEF Copies
  <2>6. Owed'
    BY <2>2, <2>3 DEF Owed
  <2>. QED
    BY <2>4, <2>5, <2>6
<1>7. CASE DoQuery
  <2>1. Works("query") /\ Executes(Message.op, Message.op.statement, <<"ready">>)
    BY <1>7 DEF DoQuery
  <2>2. Message.op.statement \in Statements \cup {"none"}
    BY <2>1, TakeIs DEF Works, Op
  <2>3. PICK c \in {"complete", "copyin", "error"} : Answer(c, Message.op.statement, TRUE)
    <3> DEFINE s == Message.op.statement   ending == <<"ready">>
    <3>1. s \in Statements \cup {"none"} /\ ending = (IF TRUE THEN <<"ready">> ELSE <<>>)
          /\ Executes(Message.op, s, ending)
      BY <2>1, <2>2
    <3> HIDE DEF s, ending
    <3>2. \E c \in {"complete", "copyin", "error"} : Answer(c, s, TRUE)
      BY <2>1, <3>1, ExecutesIs DEF Works
    <3>. QED
      BY <3>2 DEF s
  <2>. QED
    BY <1>6, <2>1, <2>3
<1>8. CASE DoParse
  BY <1>4, <1>5, <1>8 DEF DoParse, Works
<1>9. CASE DoDescribe
  BY <1>4, <1>5, <1>9 DEF DoDescribe, Works, backend
<1>10. CASE DoBind
  BY <1>4, <1>5, <1>10 DEF DoBind, Works
<1>11. CASE DoExecute
  <2>1. CASE portal = Nothing
    BY <1>5, <1>11, <2>1 DEF DoExecute
  <2>2. CASE portal # Nothing
    <3>1. Works("execute") /\ Executes(Message.op, portal.statement, <<>>)
      BY <1>11, <2>2 DEF DoExecute
    <3> DEFINE s == portal.statement   ending == <<>>
    <3>2. s \in Statements \cup {"none"} /\ ending = (IF FALSE THEN <<"ready">> ELSE <<>>)
          /\ Executes(Message.op, s, ending)
      BY <3>1 DEF Typed, ServerTyped, Kept
    <3> HIDE DEF s, ending
    <3>3. \E c \in {"complete", "copyin", "error"} : Answer(c, s, FALSE)
      BY <3>1, <3>2, ExecutesIs DEF Works
    <3>4. "execute" \in {"query", "execute"} /\ FALSE \in BOOLEAN /\ (FALSE <=> "execute" = "query")
      OBVIOUS
    <3>5. PICK c \in {"complete", "copyin", "error"} : Answer(c, s, FALSE)
      BY <3>3
    <3>6. Works("execute")
      BY <3>1
    <3>. QED
      BY ONLY <1>6, <3>4, <3>5, <3>6, Zenon
  <2>. QED
    BY <2>1, <2>2
<1>12. CASE DoClose
  BY <1>4, <1>12 DEF DoClose, Works
<1>13. CASE DoSync
  <2>1. Takes("sync") /\ ~server.copying /\ server' = [server EXCEPT !.skip = FALSE]
        /\ Reply(Message.op, <<"ready">>, server.tx)
    BY <1>13 DEF DoSync
  <2> DEFINE c == "ready"   codes == <<"ready">>
  <2>2. /\ c \in Codes /\ codes \in {<<c>>, <<c>> \o <<>>} /\ server.tx \in {"I", "T", "E"}
        /\ Reply(Message.op, codes, server.tx) /\ replies \in Seq(Answers) /\ Message.op \in Op
    BY <2>1, TakeIs DEF Codes, Typed, QueuesTyped
  <2> HIDE DEF codes
  <2>3. /\ \A d : Got(replies', d) <=> Got(replies, d) \/ d = c
        /\ OneAnswer(replies) /\ (c = "copyin" => ~Got(replies, "copyin")) => OneAnswer(replies')
    BY ONLY <2>2, OneReply, Zenon
  <2> USE <1>3, <2>1
  <2>4. server'.skip = FALSE /\ server'.copying = FALSE
    OBVIOUS
  <2>5. Skipping'
    BY <2>4 DEF Skipping
  <2>6. Copies'
    BY <2>3, <2>4 DEF Copies
  <2>7. Owed'
    BY <2>3, <2>4 DEF Owed
  <2>. QED
    BY <2>5, <2>6, <2>7
<1>14. CASE Skip
  <2>1. PICK t \in Types \ {"sync", "terminate"} : Takes(t)
    BY <1>14 DEF Skip
  <2>2. server.skip /\ server' = server /\ replies' = replies
    BY <1>14 DEF Skip, backend
  <2> USE <1>3, <2>1, <2>2
  <2>3. Skipping'
    BY DEF Skipping
  <2>4. Copies'
    BY DEF Copies
  <2>5. Owed'
    BY DEF Owed, Skipping
  <2>. QED
    BY <2>3, <2>4, <2>5
<1>15. CASE CopyMore
  <2>1. server' = server /\ replies' = replies
    BY <1>15 DEF CopyMore, backend
  <2>2. CASE server.copying /\ (Takes("copydata") \/ Takes("sync"))
    <3> USE <1>3, <2>1, <2>2
    <3>1. Skipping'
      BY DEF Skipping
    <3>2. Copies'
      BY DEF Copies
    <3>3. Owed'
      BY DEF Owed, InCopy, OfCopy
    <3>. QED
      BY <3>1, <3>2, <3>3
  <2>3. CASE Works("copydata") \/ Works("copydone")
    BY <1>4, <2>1, <2>3 DEF Works
  <2>. QED
    BY <1>15, <2>2, <2>3 DEF CopyMore
<1>16. CASE CopyEnds
  <2>1. server.copying /\ Takes("copydone")
    BY <1>16 DEF CopyEnds
  <2>2. PICK c \in {"complete", "error"}, tx \in {"I", "T", "E"} :
          /\ Reply(Message.op, <<c>>, tx)
          /\ server'.copying = FALSE /\ (c = "complete" => server'.skip = server.skip)
    <3>1. AfterFailure("other") \in {"I", "T", "E"}
      BY DEF AfterFailure
    <3>. QED
      BY <1>16, <3>1 DEF CopyEnds
  <2> DEFINE codes == <<c>>
  <2>3. /\ c \in Codes /\ codes \in {<<c>>, <<c>> \o <<>>}
        /\ Reply(Message.op, codes, tx) /\ replies \in Seq(Answers) /\ Message.op \in Op
    BY <2>1, <2>2, TakeIs DEF Codes, Typed, QueuesTyped
  <2> HIDE DEF codes
  <2>4. /\ \A d : Got(replies', d) <=> Got(replies, d) \/ d = c
        /\ OneAnswer(replies) /\ (c = "copyin" => ~Got(replies, "copyin")) => OneAnswer(replies')
    BY ONLY <2>3, OneReply, Zenon
  <2> USE <1>3, <2>1, <2>2
  <2>5. Skipping'
    BY DEF Skipping, Extended
  <2>6. Copies'
    BY <2>4 DEF Copies
  <2>7. Owed'
    BY <2>4 DEF Owed
  <2>. QED
    BY <2>5, <2>6, <2>7
<1>17. CASE CopyInterrupted
  BY <1>17 DEF CopyInterrupted
<1>18. CASE Terminate
  BY <1>18 DEF Terminate
<1>. QED
  BY <1>7, <1>8, <1>9, <1>10, <1>11, <1>12, <1>13, <1>14, <1>15, <1>16, <1>17, <1>18 DEF Serve

LEMMA ServeTyped ==
  ASSUME Typed, Serve
  PROVE  Typed'
<1>1. UNCHANGED <<caller, buffer, causes>>
  BY DEF Serve
<1>2. CallerTyped'
  BY <1>1 DEF Typed, CallerTyped, caller, NextId
<1> DEFINE Servers == [tx : {"I", "T", "E"}, skip : BOOLEAN, copying : BOOLEAN, up : BOOLEAN]
<1>3. /\ server \in Servers /\ unnamed \in Kept /\ portal \in Kept /\ named \in [Names -> Kept]
      /\ undone \in Ids \cup {0} /\ replies \in Seq(Answers) /\ buffer \in Seq(Asks)
  BY DEF Typed, ServerTyped, QueuesTyped
<1>4. Nothing \in Kept /\ \A o \in Op : Parsed(o) \in Kept /\ o.statement \in Statements
  BY DEF Nothing, Kept, Parsed, Op
<1> SUFFICES ASSUME NEW t, Takes(t)
             PROVE  ServerTyped' /\ replies' \in Seq(Answers)
  <2>1. \E t : Takes(t)
    BY DEF Serve, Works, DoQuery, DoParse, DoDescribe, DoBind, DoExecute, DoClose, DoSync, Skip,
           CopyMore, CopyEnds, CopyInterrupted, Terminate
  <2>2. PICK t : Takes(t)
    BY <2>1
  <2>3. requests' \in Seq(Asks)
    BY <2>2, TakeIs
  <2>. QED
    BY <1>1, <1>2, <1>3, <2>2, <2>3 DEF Typed, QueuesTyped
<1>5. ASSUME UNCHANGED <<server, unnamed, portal, undone, replies>>, named' \in [Names -> Kept]
      PROVE  ServerTyped' /\ replies' \in Seq(Answers)
  BY <1>3, <1>5 DEF ServerTyped
<1>6. ASSUME UNCHANGED <<unnamed, named, undone>>, portal' \in Kept, server' \in Servers,
             NEW c \in Codes, NEW tx \in {"I", "T", "E"}, NEW u, u # "terminate", Takes(u),
             Reply(Message.op, <<c>>, tx)
      PROVE  ServerTyped' /\ replies' \in Seq(Answers)
  <2> DEFINE codes == <<c>>   o == Message.op
  <2>1. codes \in {<<c>>, <<c>> \o <<>>} /\ o \in Op /\ Reply(o, codes, tx)
    BY <1>6, TakeIs
  <2> HIDE DEF codes, o
  <2>2. replies' \in Seq(Answers)
    <3>1. replies \in Seq(Answers) /\ c \in Codes /\ tx \in {"I", "T", "E"}
      BY <1>3, <1>6
    <3>2. replies' \in Seq(Answers)
      BY ONLY <2>1, <3>1, OneReply, Zenon
    <3>. QED
      BY <3>2
  <2>. QED
    BY <1>3, <1>6, <2>2 DEF ServerTyped
<1>7. ASSUME NEW u, u # "terminate", Takes(u), Refuses
      PROVE  ServerTyped' /\ replies' \in Seq(Answers)
  <2>1. server' \in Servers
    BY <1>3, <1>7, RefusesIs
  <2>. QED
    BY <1>3, <1>7, <2>1, RefusesIs DEF ServerTyped
<1>8. ASSUME NEW u, u # "terminate", Takes(u), NEW s \in Statements \cup {"none"}, NEW over \in BOOLEAN,
             NEW ending, ending = (IF over THEN <<"ready">> ELSE <<>>), Executes(Message.op, s, ending),
             UNCHANGED <<unnamed, named, portal>>
      PROVE  ServerTyped' /\ replies' \in Seq(Answers)
  <2>1. \E c \in {"complete", "copyin", "error"} : Answer(c, s, over)
    BY <1>8, ExecutesIs
  <2>2. server' \in Servers /\ undone' \in Ids \cup {0}
    BY <1>8, ExecutesIs
  <2>. QED
    BY <1>3, <1>8, <2>1, <2>2 DEF ServerTyped, Answer
<1>9. CASE DoQuery
  <2> DEFINE s == Message.op.statement   ending == <<"ready">>
  <2>1. /\ s \in Statements \cup {"none"} /\ Takes("query") /\ ending = (IF TRUE THEN <<"ready">> ELSE <<>>)
        /\ Executes(Message.op, s, ending) /\ UNCHANGED <<unnamed, named, portal>>
    BY <1>4, <1>9, TakeIs DEF DoQuery, Works
  <2> HIDE DEF s, ending
  <2>. QED
    BY <1>8, <2>1
<1>10. CASE DoParse
  <2>1. Takes("parse") /\ Message.op \in Op
    BY <1>10, TakeIs DEF DoParse, Works
  <2>2. CASE Refuses
    BY <1>7, <2>1, <2>2
  <2>3. CASE ~Refuses
    <3>1. /\ UNCHANGED <<server, portal, undone, replies>>
          /\ \/ unnamed' = Parsed(Message.op) /\ UNCHANGED named
             \/ named' = [named EXCEPT ![Message.op.name] = Parsed(Message.op)] /\ UNCHANGED unnamed
      BY <1>10, <2>3 DEF DoParse
    <3>2. unnamed' \in Kept /\ named' \in [Names -> Kept]
      BY <1>3, <1>4, <2>1, <3>1
    <3>. QED
      BY <1>3, <3>1, <3>2 DEF ServerTyped
  <2>. QED
    BY <2>2, <2>3
<1>11. CASE DoDescribe
  BY <1>3, <1>5, <1>7, <1>11 DEF DoDescribe, Works, backend
<1>12. CASE DoBind
  <2>1. Takes("bind") /\ Message.op \in Op
    BY <1>12, TakeIs DEF DoBind, Works
  <2>2. CASE Refuses
    BY <1>7, <2>1, <2>2
  <2>3. CASE ~Refuses
    <3>1. portal' = Target /\ UNCHANGED <<server, unnamed, named, undone, replies>>
      BY <1>12, <2>3 DEF DoBind
    <3>2. Target \in Kept
      BY <1>3, <2>1 DEF Target, Op
    <3>. QED
      BY <1>3, <3>1, <3>2 DEF ServerTyped
  <2>. QED
    BY <2>2, <2>3
<1>13. CASE DoExecute
  <2>1. CASE portal = Nothing
    BY <1>7, <1>13, <2>1 DEF DoExecute, Works
  <2>2. CASE portal # Nothing
    <3> DEFINE s == portal.statement   ending == <<>>
    <3>1. /\ s \in Statements \cup {"none"} /\ Takes("execute") /\ ending = (IF FALSE THEN <<"ready">> ELSE <<>>)
          /\ Executes(Message.op, s, ending) /\ UNCHANGED <<unnamed, named, portal>>
      BY <1>3, <1>13, <2>2 DEF DoExecute, Works, Kept
    <3> HIDE DEF s, ending
    <3>. QED
      BY <1>8, <3>1
  <2>. QED
    BY <2>1, <2>2
<1>14. CASE DoClose
  <2>1. /\ UNCHANGED <<server, unnamed, portal, undone, replies>>
        /\ named' = [named EXCEPT ![Message.op.name] = Nothing]
    BY <1>14 DEF DoClose
  <2>2. named' \in [Names -> Kept]
    BY <1>3, <1>4, <2>1
  <2>. QED
    BY <1>5, <2>1, <2>2
<1>15. CASE DoSync
  <2>1. /\ Takes("sync") /\ Reply(Message.op, <<"ready">>, server.tx)
        /\ server' = [server EXCEPT !.skip = FALSE] /\ UNCHANGED <<unnamed, named, undone>>
        /\ portal' = IF server.tx = "T" THEN portal ELSE Nothing
    BY <1>15 DEF DoSync
  <2>2. server' \in Servers /\ portal' \in Kept /\ "ready" \in Codes /\ server.tx \in {"I", "T", "E"}
    BY <1>3, <1>4, <2>1 DEF Codes
  <2>. QED
    BY <1>6, <2>1, <2>2
<1>16. CASE Skip
  BY <1>3, <1>5, <1>16 DEF Skip, backend
<1>17. CASE CopyMore
  BY <1>3, <1>5, <1>17 DEF CopyMore, backend
<1>18. CASE CopyEnds
  <2>1. Takes("copydone") /\ UNCHANGED <<unnamed, named, portal, undone>>
    BY <1>18 DEF CopyEnds
  <2>2. \E c \in Codes, tx \in {"I", "T", "E"} : Reply(Message.op, <<c>>, tx) /\ server' \in Servers
    BY <1>3, <1>18 DEF CopyEnds, AfterFailure, Codes
  <2>. QED
    BY <1>3, <1>6, <2>1, <2>2
<1>19. CASE CopyInterrupted
  <2>1. UNCHANGED <<unnamed, named, portal, undone>> /\ Reply(Message.op, <<"error">>, server.tx)
        /\ server' = [server EXCEPT !.up = FALSE]
    BY <1>19 DEF CopyInterrupted
  <2>2. PICK u \in Types \ {"copydata", "copydone", "sync", "terminate"} : Takes(u)
    BY <1>19 DEF CopyInterrupted
  <2>3. server' \in Servers /\ "error" \in Codes /\ server.tx \in {"I", "T", "E"} /\ portal' \in Kept
    BY <1>3, <2>1 DEF Codes
  <2>4. u # "terminate"
    BY <2>2
  <2>. QED
    BY <1>6, <2>1, <2>2, <2>3, <2>4
<1>20. CASE Terminate
  BY <1>3, <1>20 DEF Terminate, ServerTyped
<1>. QED
  BY <1>9, <1>10, <1>11, <1>12, <1>13, <1>14, <1>15, <1>16, <1>17, <1>18, <1>19, <1>20 DEF Serve

-----------------------------------------------------------------------------
(* The client writes messages, after what it has not flushed.                  *)

LEMMA FlushIs ==
  ASSUME Typed, NEW o \in Op, NEW types \in Wholes \cup {<<"bind">>, <<"copydata">>}, Flush(o, types)
  PROVE  /\ requests' \in Seq(Asks) /\ requests' # <<>> /\ buffer' = <<>>
         /\ \A u : Has(requests', u) <=> Has(requests, u) \/ Has(buffer, u) \/ Has(Messages(o, types), u)
         /\ requests # <<>> => Head(requests') = Head(requests)
         /\ requests = <<>> /\ buffer = <<>> => requests' = Messages(o, types) /\ Head(requests').type = types[1]
         /\ \A b, d : /\ Followed(requests, b) /\ (\A i \in DOMAIN buffer : buffer[i].type = "bind")
                      /\ types # <<"bind">> \/ d
                      /\ types[1] # "query" \/ (buffer = <<>> /\ ~b)
                      => Followed(requests', d)
         /\ /\ OneCopy(requests) /\ (\A i \in DOMAIN buffer : buffer[i].type = "bind")
            /\ Has(requests, "copydone") => types[1] # "copydata"
            => OneCopy(requests')
<1> DEFINE m == Messages(o, types)   J == requests \o buffer
<1>1. requests \in Seq(Asks) /\ buffer \in Seq(Asks)
  BY DEF Typed, QueuesTyped
<1>2. requests' = J \o m /\ buffer' = <<>>
  BY DEF Flush
<1>3. m = Messages(o, types)
  OBVIOUS
<1> HIDE DEF m
<1>4. /\ m \in Seq(Asks) /\ m # <<>> /\ m[1].type = types[1]
      /\ \A u : Has(m, u) <=> (u = types[1] \/ (Len(types) > 1 /\ u = types[2])
                                           \/ (Len(types) > 2 /\ u = types[3]))
      /\ \A b : types # <<"bind">> \/ b => Followed(m, b)
      /\ OneCopy(m)
  BY ONLY <1>3, o \in Op, types \in Wholes \cup {<<"bind">>, <<"copydata">>}, BatchIs
<1>5. /\ J \in Seq(Asks) /\ (buffer = <<>> => J = requests) /\ (requests = <<>> => J = buffer)
      /\ requests # <<>> => J # <<>> /\ J[1] = requests[1]
  <2>1. J \in Seq(Asks) /\ Len(requests) \in Nat /\ Len(buffer) \in Nat /\ Len(J) = Len(requests) + Len(buffer)
        /\ \A i \in 1 .. Len(requests) : J[i] = requests[i]
    BY <1>1, ConcatIs
  <2>2. (requests = <<>> <=> Len(requests) = 0) /\ (J = <<>> <=> Len(J) = 0)
    BY <1>1, <2>1, QueueIs
  <2>3. (buffer = <<>> => J = requests) /\ (requests = <<>> => J = buffer)
    BY <1>1, ConcatEmptySeq
  <2> HIDE DEF J
  <2>4. requests # <<>> => 1 \in 1 .. Len(requests)
    BY <2>1, <2>2
  <2>. QED
    BY <2>1, <2>2, <2>3, <2>4
<1>6. /\ \A u : Has(J, u) <=> Has(requests, u) \/ Has(buffer, u)
      /\ \A b, d : Followed(requests, b) /\ Followed(buffer, d) /\ buffer # <<>> /\ (b => buffer[1].type # "query")
                    => Followed(J, d)
      /\ OneCopy(requests) /\ OneCopy(buffer)
           /\ (Has(requests, "copydone") => ~Has(buffer, "copydata") /\ ~Has(buffer, "copydone")) => OneCopy(J)
  BY <1>1, JoinedTo
<1>7. DOMAIN buffer = 1 .. Len(buffer) /\ Len(buffer) \in Nat /\ (buffer # <<>> => 1 \in DOMAIN buffer)
  BY <1>1, QueueIs
<1> HIDE DEF J
<1>8. /\ J \o m \in Seq(Asks) /\ Len(J \o m) = Len(J) + Len(m) /\ Len(J) \in Nat /\ Len(m) \in Nat \ {0}
      /\ (J = <<>> => J \o m = m) /\ (J # <<>> => (J \o m)[1] = J[1]) /\ J \o m # <<>>
  <2>1. /\ J \o m \in Seq(Asks) /\ Len(J \o m) = Len(J) + Len(m) /\ Len(J) \in Nat /\ Len(m) \in Nat
        /\ \A i \in 1 .. Len(J) : (J \o m)[i] = J[i]
    BY <1>4, <1>5, ConcatIs
  <2>2. (J = <<>> <=> Len(J) = 0) /\ (m = <<>> <=> Len(m) = 0) /\ (J \o m = <<>> <=> Len(J \o m) = 0)
    BY <1>4, <1>5, <2>1, QueueIs
  <2>3. J = <<>> => J \o m = m
    BY <1>4, ConcatEmptySeq
  <2>4. J # <<>> => 1 \in 1 .. Len(J)
    BY <2>1, <2>2
  <2>. QED
    BY <1>4, <2>1, <2>2, <2>3, <2>4
<1>9. /\ \A u : Has(J \o m, u) <=> Has(J, u) \/ Has(m, u)
      /\ \A b, d : Followed(J, b) /\ Followed(m, d) /\ m # <<>> /\ (b => m[1].type # "query")
                    => Followed(J \o m, d)
      /\ OneCopy(J) /\ OneCopy(m)
           /\ (Has(J, "copydone") => ~Has(m, "copydata") /\ ~Has(m, "copydone")) => OneCopy(J \o m)
  BY <1>4, <1>5, JoinedTo
<1>10. requests # <<>> => Head(requests') = Head(requests)
  BY <1>2, <1>5, <1>8 DEF Head
<1>11. requests = <<>> /\ buffer = <<>> => requests' = m /\ Head(requests').type = types[1]
  BY <1>2, <1>4, <1>5, <1>8 DEF Head
<1>12. ASSUME \A i \in DOMAIN buffer : buffer[i].type = "bind"
       PROVE  /\ OneCopy(buffer) /\ Followed(buffer, TRUE) /\ (buffer # <<>> => buffer[1].type = "bind")
              /\ ~Has(buffer, "copydata") /\ ~Has(buffer, "copydone")
  <2>1. OneCopy(buffer) /\ (buffer # <<>> => buffer[1].type = "bind")
        /\ ~Has(buffer, "copydata") /\ ~Has(buffer, "copydone")
    BY <1>7, <1>12 DEF OneCopy, Has, OfCopy
  <2>2. \A i \in DOMAIN buffer : i # Len(buffer) => i + 1 \in DOMAIN buffer
    BY <1>7
  <2>3. Followed(buffer, TRUE)
    BY <1>12, <2>2 DEF Followed
  <2>. QED
    BY <2>1, <2>3
<1>13. ASSUME NEW b, NEW d, Followed(requests, b), \A i \in DOMAIN buffer : buffer[i].type = "bind",
              types # <<"bind">> \/ d, types[1] # "query" \/ (buffer = <<>> /\ ~b)
       PROVE  Followed(requests', d)
  <2>1. Followed(m, d)
    BY <1>4, <1>13
  <2>2. CASE buffer = <<>>
    BY <1>2, <1>4, <1>5, <1>9, <1>13, <2>1, <2>2
  <2>3. CASE buffer # <<>>
    <3>1. Followed(J, TRUE)
      BY <1>6, <1>12, <1>13, <2>3
    <3>. QED
      BY <1>2, <1>4, <1>9, <1>13, <2>1, <2>3, <3>1
  <2>. QED
    BY <2>2, <2>3
<1>14. ASSUME OneCopy(requests), \A i \in DOMAIN buffer : buffer[i].type = "bind",
              Has(requests, "copydone") => types[1] # "copydata"
       PROVE  OneCopy(requests')
  <2>1. types[1] # "copydata" => ~Has(m, "copydata") /\ ~Has(m, "copydone")
    BY <1>4 DEF Wholes
  <2>2. OneCopy(J)
    BY <1>6, <1>12, <1>14
  <2>. QED
    BY <1>2, <1>4, <1>6, <1>9, <1>12, <1>14, <2>1, <2>2
<1>15. \A b, d : /\ Followed(requests, b) /\ (\A i \in DOMAIN buffer : buffer[i].type = "bind")
                 /\ types # <<"bind">> \/ d
                 /\ types[1] # "query" \/ (buffer = <<>> /\ ~b)
                 => Followed(requests', d)
  BY <1>13
<1>16. \A u : Has(requests', u) <=> Has(requests, u) \/ Has(buffer, u) \/ Has(m, u)
  BY <1>2, <1>6, <1>9
<1>17. requests' \in Seq(Asks) /\ requests' # <<>> /\ buffer' = <<>>
  BY <1>2, <1>8
<1> USE DEF m
<1>. QED
  BY ONLY <1>3, <1>10, <1>11, <1>14, <1>15, <1>16, <1>17

(* A name that is free is free among those there are. *)
LEMMA LowestIs ==
  ASSUME Typed, NextId \in Ids, nums \subseteq 1 .. ended.ops
  PROVE  LowestFree(nums) \in 1 .. NextId
<1> DEFINE T == Names \ nums   R == {ss \in Nat \X Nat : ss[1] < ss[2]}
<1>1. ended.ops \in Nat /\ MaxOps \in Nat /\ NextId = ended.ops + 1
  BY ConstantsAssumption DEF Typed, CallerTyped, NextId
<1>2. T \subseteq Nat /\ NextId \in T
  BY <1>1 DEF Ids, Names
<1>3. IsWellFoundedOn(R, Nat)
  BY NatLessThanWellFounded DEF OpToRel
<1> HIDE DEF R
<1>4. PICK n \in T : \A y \in T : <<y, n>> \notin R
  BY <1>2, <1>3, WFMin
<1>5. ASSUME NEW y \in T PROVE n <= y
  <2>1. <<y, n>> \notin R /\ y \in Nat /\ n \in Nat
    BY <1>2, <1>4
  <2>2. ~(y < n)
    BY <2>1 DEF R
  <2>. QED
    BY <2>1, <2>2
<1>6. LowestFree(nums) \in T /\ \A y \in T : LowestFree(nums) <= y
  BY <1>5 DEF LowestFree
<1>. QED
  BY <1>1, <1>2, <1>6 DEF Names

LEMMA WholeHas ==
  ASSUME NEW o \in Op, NEW types \in Wholes
  PROVE  LET m == Messages(o, types) IN
         /\ Has(m, types[1]) /\ (Has(m, "sync") \/ types[1] = "query") /\ types[1] \in Types
         /\ types[1] # "query" => ~Has(m, "query")
         /\ types[1] = "copydata" => Has(m, "copydone") /\ Has(m, "sync")
         /\ types[1] # "copydata" => types[1] \notin InCopy /\ ~Has(m, "copydata") /\ ~Has(m, "copydone")
<1> DEFINE m == Messages(o, types)
<1>1. CASE types = <<"query">>
  BY <1>1, BatchHas DEF Types, InCopy, OfCopy
<1>2. CASE types = <<"parse", "sync">>
  BY <1>2, BatchHas DEF Types, InCopy, OfCopy
<1>3. CASE types = <<"close", "sync">>
  BY <1>3, BatchHas DEF Types, InCopy, OfCopy
<1>4. CASE types = <<"describe", "sync">>
  BY <1>4, BatchHas DEF Types, InCopy, OfCopy
<1>5. CASE types = <<"execute", "sync">>
  BY <1>5, BatchHas DEF Types, InCopy, OfCopy
<1>6. CASE types = <<"parse", "describe", "sync">>
  BY <1>6, BatchHas DEF Types, InCopy, OfCopy
<1>7. CASE types = <<"bind", "execute", "sync">>
  BY <1>7, BatchHas DEF Types, InCopy, OfCopy
<1>8. CASE types = <<"copydata", "copydone", "sync">>
  BY <1>8, BatchHas DEF Types, InCopy, OfCopy
<1>. QED
  BY <1>1, <1>2, <1>3, <1>4, <1>5, <1>6, <1>7, <1>8 DEF Wholes

LEMMA BeginKeeps ==
  ASSUME Typed, Flow, NEW o \in Op, NEW types \in Wholes, types[1] # "copydata", Begin(o, types),
         o.id = NextId, o.name = 0 <=> o.kind \in {"simple", "unnamed"}, o.stream => o.kind = "unnamed",
         o.kind = "prepare" => o.of = o.id, nums' \subseteq 1 .. NextId
  PROVE  Typed' /\ Flow'
<1>1. /\ pc = "idle" /\ op' = o /\ pc' = (IF o.kind = "unnamed" THEN "parse" ELSE o.kind) /\ error' = FALSE
      /\ Flush(o, types) /\ UNCHANGED <<status, prepared, ended, replies, backend, causes>>
  BY DEF Begin, CanBegin
<1>2. o.kind \in Kinds
  BY DEF Op
<1>3. pc' \in PCs \ (Resting \cup {"binding", "describe", "execute"})
      /\ o.kind = (IF pc' \in Unnamed THEN "unnamed" ELSE pc')
  BY <1>1, <1>2 DEF Kinds, PCs, Reading, Resting, Unnamed
<1>4. types \in Wholes \cup {<<"bind">>, <<"copydata">>} /\ types # <<"bind">>
  BY DEF Wholes
<1> DEFINE m == Messages(o, types)
<1>5. /\ requests' \in Seq(Asks) /\ requests' # <<>> /\ buffer' = <<>>
      /\ \A u : Has(requests', u) <=> Has(requests, u) \/ Has(buffer, u) \/ Has(m, u)
      /\ requests # <<>> => Head(requests') = Head(requests)
      /\ \A b, d : /\ Followed(requests, b) /\ (\A i \in DOMAIN buffer : buffer[i].type = "bind")
                   /\ types # <<"bind">> \/ d
                   /\ types[1] # "query" \/ (buffer = <<>> /\ ~b)
                   => Followed(requests', d)
      /\ /\ OneCopy(requests) /\ (\A i \in DOMAIN buffer : buffer[i].type = "bind")
         /\ Has(requests, "copydone") => types[1] # "copydata"
         => OneCopy(requests')
  BY <1>1, <1>4, FlushIs
<1>6. /\ Has(m, types[1]) /\ (Has(m, "sync") \/ types[1] = "query") /\ types[1] \in Types
      /\ types[1] \notin InCopy /\ ~Has(m, "copydata") /\ ~Has(m, "copydone")
  BY WholeHas
<1> HIDE DEF m
<1>7. Typed'
  <2>1. ServerTyped'
    BY <1>1 DEF Typed, ServerTyped, backend
  <2>2. QueuesTyped'
    BY <1>1, <1>5, EmptySeq DEF Typed, QueuesTyped
  <2>3. ended' = ended /\ NextId' = NextId /\ ended'.ops + 1 = NextId /\ pc' \notin Resting /\ pc' \in PCs
    BY <1>1, <1>3 DEF NextId
  <2>4. CallerTyped'
    BY <1>1, <1>3, <2>3 DEF Typed, CallerTyped
  <2>. QED
    BY <2>1, <2>2, <2>4 DEF Typed
<1>8. Flow'
  <2> SUFFICES ASSUME server.up, "staleBind" \notin causes PROVE (Requested /\ Skipping /\ Copies /\ Owed)'
    BY <1>1 DEF Flow, backend
  <2>1. /\ Requested /\ Skipping /\ Copies /\ buffer = <<>> /\ server' = server /\ pc' # "describe"
    BY <1>1, <1>3 DEF Flow, Requested, backend
  <2>2. DOMAIN buffer = {} /\ \A u : ~Has(buffer, u)
    BY <2>1 DEF Has
  <2>3. Followed(requests', FALSE)
    <3>1. Followed(requests, FALSE)
      BY <1>1, <2>1 DEF Requested
    <3>. QED
      BY <1>4, <1>5, <2>1, <2>2, <3>1
  <2>4. Requested'
    BY <1>5, <2>1, <2>3 DEF Requested
  <2>5. Skipping'
    BY <1>1, <1>5, <2>1 DEF Skipping
  <2>6. Copies'
    BY <1>1, <1>5, <1>6, <2>1, <2>2 DEF Copies
  <2>7. Owed'
    BY <1>5, <1>6, <2>1, <2>2 DEF Owed
  <2>. QED
    BY <2>4, <2>5, <2>6, <2>7
<1>. QED
  BY <1>7, <1>8

LEMMA HeardIs ==
  ASSUME Typed, NEW c, Receives(c)
  PROVE  /\ pc \in Reading /\ pc \notin Resting /\ replies # <<>> /\ Tail(replies) \in Seq(Answers)
         /\ Head(replies) = replies[1] /\ Head(replies) \in Answers /\ replies[1].code = c
         /\ 1 \in DOMAIN replies
         /\ \A d : Got(replies, d) <=> d = c \/ Got(Tail(replies), d)
         /\ OneAnswer(replies) => OneAnswer(Tail(replies))
         /\ OneAnswer(replies) /\ c = "copyin" => ~Got(Tail(replies), "copyin")
<1> DEFINE r == Tail(replies)   n == Len(replies)
<1>1. pc \in Reading /\ replies # <<>> /\ Head(replies).code = c /\ replies \in Seq(Answers)
  BY DEF Receives, Typed, QueuesTyped
<1>2. pc \notin Resting
  BY <1>1 DEF Reading, Resting
<1>3. /\ r \in Seq(Answers) /\ Head(replies) = replies[1] /\ Head(replies) \in Answers /\ n \in Nat \ {0}
      /\ \A i \in 1 .. n - 1 : r[i] = replies[i + 1]
      /\ DOMAIN replies = 1 .. n /\ DOMAIN r = 1 .. n - 1
  BY <1>1, TailIs
<1>4. /\ \A d : Got(replies, d) <=> replies[1].code = d \/ Got(r, d)
      /\ OneAnswer(replies) => OneAnswer(r)
  BY <1>1, TakenFrom
<1> HIDE DEF r, n
<1>5. ASSUME OneAnswer(replies), c = "copyin" PROVE ~Got(r, "copyin")
  <2> SUFFICES ASSUME NEW i \in 1 .. n - 1, r[i].code = "copyin" PROVE FALSE
    BY <1>3 DEF Got
  <2>1. replies[i + 1].code = "copyin" /\ i + 1 \in DOMAIN replies /\ 1 \in DOMAIN replies /\ i + 1 # 1
    BY <1>3
  <2>. QED
    BY <1>1, <1>3, <1>5, <2>1 DEF OneAnswer
<1>6. 1 \in DOMAIN replies
  BY <1>3
<1>. QED
  BY <1>1, <1>2, <1>3, <1>4, <1>5, <1>6 DEF r

(* An operation ends. *)
LEMMA FinishTyped ==
  ASSUME Typed, pc \notin Resting, NEW n \in {0, 1}, ended.raises + n <= MaxRaises, Finish(n),
         UNCHANGED backend, status' \in {"none", "I", "T", "E"},
         causes' \subseteq {"handler", "params", "staleBind", "lost"},
         requests' \in Seq(Asks), buffer' \in Seq(Asks), replies' \in Seq(Answers),
         prepared' \subseteq prepared \cup (IF pc = "prepare" THEN {op} ELSE {}), nums' \subseteq nums
  PROVE  Typed'
<1>1. MaxOps \in Nat /\ MaxRaises \in Nat
  BY ConstantsAssumption
<1>2. /\ op \in Op /\ op.id = NextId /\ nums \subseteq 1 .. NextId
      /\ op.kind = (IF pc \in Unnamed THEN "unnamed" ELSE pc)
      /\ op.name = 0 <=> op.kind \in {"simple", "unnamed"}
      /\ op.stream => op.kind = "unnamed"
      /\ \A p \in prepared : p \in Op /\ p.name \in Names /\ ~p.stream
      /\ ended \in [ops : 0..MaxOps, raises : 0..MaxRaises]
  BY DEF Typed, CallerTyped, NextId
<1>3. /\ ended' = [ops |-> ended.ops + 1, raises |-> ended.raises + n]
      /\ pc' = "idle" /\ op' = NoOp /\ error' = FALSE
  BY DEF Finish
<1>4. NextId \in Ids /\ NextId = ended.ops + 1
  BY <1>2 DEF Op, NextId
<1>5. ended' \in [ops : 0..MaxOps, raises : 0..MaxRaises] /\ ended'.ops = NextId
  BY <1>1, <1>2, <1>3, <1>4 DEF Ids
<1>6. pc = "prepare" => op.name \in Names /\ ~op.stream
  BY <1>2 DEF Op, Unnamed
<1>7. \A p \in prepared' : p \in Op /\ p.name \in Names /\ ~p.stream
  BY <1>2, <1>6
<1>8. CallerTyped'
  BY <1>2, <1>3, <1>5, <1>7 DEF CallerTyped, PCs, Resting
<1>. QED
  BY <1>8 DEF Typed, ServerTyped, QueuesTyped, backend

LEMMA RaiseKeeps ==
  ASSUME Typed, Flow, pc \notin Resting, NEW why \in {"handler", "params", "lost"}, Raise(why),
         UNCHANGED <<buffer, requests, backend>>,
         \/ replies' = replies
         \/ replies # <<>> /\ replies' = Tail(replies)
  PROVE  Typed' /\ Flow'
<1>1. /\ Finish(1) /\ causes' = causes \cup {why} \cup StaleBind /\ UNCHANGED <<status, nums, prepared>>
      /\ ended.raises < MaxRaises
  BY DEF Raise
<1>2. /\ replies' \in Seq(Answers)
      /\ Got(replies', "copyin") => Got(replies, "copyin")
      /\ OneAnswer(replies) => OneAnswer(replies')
  <2>1. replies \in Seq(Answers)
    BY DEF Typed, QueuesTyped
  <2>2. ASSUME replies # <<>>
        PROVE  /\ Tail(replies) \in Seq(Answers)
               /\ \A c : Got(replies, c) <=> replies[1].code = c \/ Got(Tail(replies), c)
               /\ OneAnswer(replies) => OneAnswer(Tail(replies))
    BY <2>1, <2>2, TailIs, TakenFrom
  <2>. QED
    BY <2>1, <2>2
<1>3. Typed'
  <2>1. /\ requests \in Seq(Asks) /\ buffer \in Seq(Asks) /\ status \in {"none", "I", "T", "E"}
        /\ causes \subseteq {"handler", "params", "staleBind", "lost"}
        /\ ended \in [ops : 0..MaxOps, raises : 0..MaxRaises]
    BY DEF Typed, QueuesTyped, CallerTyped
  <2>2. ended.raises + 1 <= MaxRaises
    BY <1>1, <2>1, ConstantsAssumption
  <2>3. causes' \subseteq {"handler", "params", "staleBind", "lost"}
    BY <1>1, <2>1 DEF StaleBind
  <2>. QED
    BY <1>1, <1>2, <2>1, <2>2, <2>3, FinishTyped
<1>4. Flow'
  <2>1. pc' = "idle"
    BY <1>1 DEF Finish
  <2> SUFFICES ASSUME server.up, "staleBind" \notin causes' PROVE (Requested /\ Skipping /\ Copies /\ Owed)'
    BY <1>1 DEF Flow, backend
  <2>2. pc # "describe" /\ "staleBind" \notin causes
    BY <1>1 DEF StaleBind
  <2>3. Requested /\ Skipping /\ Copies /\ server' = server
    BY <2>2 DEF Flow, backend, Resting
  <2>. QED
    BY <1>2, <2>1, <2>2, <2>3 DEF Requested, Skipping, Copies, Owed
<1>. QED
  BY <1>3, <1>4

(* An operation goes on: another reply has been read, or more has been asked. *)
LEMMA GoesOn ==
  ASSUME Typed, pc \notin Resting, pc' \in PCs \ Resting,
         (IF pc' \in Unnamed THEN "unnamed" ELSE pc') = (IF pc \in Unnamed THEN "unnamed" ELSE pc),
         UNCHANGED <<op, ended, nums, prepared, backend, causes>>, error' \in BOOLEAN,
         status' \in {"none", "I", "T", "E"},
         requests' \in Seq(Asks), buffer' \in Seq(Asks), replies' \in Seq(Answers)
  PROVE  Typed'
BY DEF Typed, ServerTyped, QueuesTyped, CallerTyped, backend, NextId

LEMMA ReadKeeps ==
  ASSUME Typed, Flow, NEW c \in {"error", "complete"}, Receives(c), Ignore \/ Complain
  PROVE  Typed' /\ Flow'
<1>1. /\ replies' = Tail(replies) /\ error' \in BOOLEAN
      /\ UNCHANGED <<pc, op, status, nums, prepared, ended, buffer, requests, backend, causes>>
  BY DEF Ignore, Complain, caller, Typed, CallerTyped
<1>2. /\ pc \notin Resting /\ replies' \in Seq(Answers)
      /\ \A d : Got(replies, d) <=> d = c \/ Got(replies', d)
      /\ OneAnswer(replies) => OneAnswer(replies')
  BY <1>1, HeardIs
<1>3. Typed'
  <2>1. /\ pc \in PCs /\ status \in {"none", "I", "T", "E"} /\ requests \in Seq(Asks) /\ buffer \in Seq(Asks)
    BY DEF Typed, QueuesTyped, CallerTyped
  <2>. QED
    BY <1>1, <1>2, <2>1, GoesOn
<1>4. Flow'
  <2> SUFFICES ASSUME server.up, "staleBind" \notin causes PROVE (Requested /\ Skipping /\ Copies /\ Owed)'
    BY <1>1 DEF Flow, backend
  <2>1. Requested /\ Skipping /\ Copies /\ Owed /\ server' = server
    BY <1>1, <1>2 DEF Flow, backend, Resting
  <2>. QED
    BY <1>1, <1>2, <2>1 DEF Requested, Skipping, Copies, Owed
<1>. QED
  BY <1>3, <1>4

(* The messages of a round are sent. *)
LEMMA AskKeeps ==
  ASSUME Typed, Flow, pc \notin Resting, NEW types \in Wholes, types[1] # "query", Flush(op, types),
         types[1] = "copydata" => Got(replies, "copyin") /\ ~Got(replies', "copyin"),
         pc' \in PCs \ (Resting \cup {"describe"}), UNCHANGED <<op, ended, nums, prepared, backend, causes>>,
         (IF pc' \in Unnamed THEN "unnamed" ELSE pc') = (IF pc \in Unnamed THEN "unnamed" ELSE pc),
         error' \in BOOLEAN, status' \in {"none", "I", "T", "E"},
         replies' \in Seq(Answers),
         Got(replies', "copyin") => Got(replies, "copyin"), OneAnswer(replies) => OneAnswer(replies')
  PROVE  Typed' /\ Flow'
<1>1. types \in Wholes \cup {<<"bind">>, <<"copydata">>} /\ types # <<"bind">> /\ op \in Op
  BY DEF Wholes, Typed, CallerTyped
<1> DEFINE m == Messages(op, types)
<1>2. /\ requests' \in Seq(Asks) /\ requests' # <<>> /\ buffer' = <<>>
      /\ \A u : Has(requests', u) <=> Has(requests, u) \/ Has(buffer, u) \/ Has(m, u)
      /\ requests # <<>> => Head(requests') = Head(requests)
      /\ \A b, d : /\ Followed(requests, b) /\ (\A i \in DOMAIN buffer : buffer[i].type = "bind")
                   /\ types # <<"bind">> \/ d
                   /\ types[1] # "query" \/ (buffer = <<>> /\ ~b)
                   => Followed(requests', d)
      /\ /\ OneCopy(requests) /\ (\A i \in DOMAIN buffer : buffer[i].type = "bind")
         /\ Has(requests, "copydone") => types[1] # "copydata"
         => OneCopy(requests')
  BY <1>1, FlushIs
<1>3. /\ Has(m, types[1]) /\ Has(m, "sync") /\ types[1] \in Types
      /\ types[1] = "copydata" => Has(m, "copydone")
      /\ types[1] # "copydata" => types[1] \notin InCopy /\ ~Has(m, "copydata") /\ ~Has(m, "copydone")
  BY <1>1, WholeHas
<1>8. ~Has(m, "query")
  BY <1>1, WholeHas
<1> HIDE DEF m
<1>4. Typed'
  BY <1>2, EmptySeq, GoesOn
<1>5. Flow'
  <2> SUFFICES ASSUME server.up, "staleBind" \notin causes PROVE (Requested /\ Skipping /\ Copies /\ Owed)'
    BY DEF Flow, backend
  <2>1. Requested /\ Skipping /\ Copies /\ Owed /\ server' = server
    BY DEF Flow, backend, Resting
  <2>2. /\ \A i \in DOMAIN buffer : buffer[i].type = "bind"
        /\ ~Has(buffer, "copydata") /\ ~Has(buffer, "copydone") /\ ~Has(buffer, "query")
    BY <2>1 DEF Requested, Has
  <2>3. Requested'
    <3>1. Followed(requests, pc = "describe")
      BY <2>1 DEF Requested
    <3>2. Followed(requests', FALSE)
      BY <1>1, <1>2, <2>2, <3>1
    <3>3. (pc' = "describe") = FALSE
      OBVIOUS
    <3>4. Followed(requests', pc' = "describe")
      BY <3>2, <3>3
    <3>5. buffer' = <<>> /\ \A i \in DOMAIN buffer' : buffer'[i].type = "bind"
      BY <1>2
    <3>. QED
      BY <3>4, <3>5 DEF Requested
  <2>4. Skipping'
    <3> SUFFICES ASSUME server.skip, requests = <<>>, Head(requests').type = "query" PROVE FALSE
      BY <1>2, <2>1 DEF Skipping
    <3>1. Head(requests') = requests'[1] /\ 1 \in DOMAIN requests'
      BY <1>2, TailIs
    <3>2. Has(requests', "query")
      BY <3>1 DEF Has
    <3>3. ~Has(requests, "query")
      BY DEF Has
    <3>. QED
      BY <1>2, <1>8, <2>2, <3>2, <3>3
  <2>5. Copies'
    BY <1>2, <1>3, <2>1, <2>2 DEF Copies
  <2>6. Owed'
    BY <1>2, <1>3, <2>1 DEF Owed
  <2>. QED
    BY <2>3, <2>4, <2>5, <2>6
<1>. QED
  BY <1>4, <1>5

LEMMA BeginsKeep ==
  ASSUME Typed, Flow,
         \/ \E s \in Statements : ExecuteSimple(s) \/ PrepareStatement(s)
         \/ \E s \in Statements : \E stream \in {FALSE, s = "copyin"} : ExecuteUnnamed(s, stream)
         \/ \E p \in prepared : ExecuteNamed(p) \/ ClosePreparedStatement(p)
  PROVE  Typed' /\ Flow'
<1>0. ASSUME NEW o, NEW types, Begin(o, types) PROVE pc = "idle" /\ NextId \in Ids
  BY <1>0 DEF Begin, CanBegin
<1>1. pc = "idle" /\ NextId \in Ids
  <2>1. \A s : ExecuteSimple(s) \/ PrepareStatement(s) => pc = "idle" /\ NextId \in Ids
    BY <1>0 DEF ExecuteSimple, PrepareStatement
  <2>2. \A s, stream : ExecuteUnnamed(s, stream) => pc = "idle" /\ NextId \in Ids
    BY <1>0 DEF ExecuteUnnamed
  <2>3. \A p : ExecuteNamed(p) \/ ClosePreparedStatement(p) => pc = "idle" /\ NextId \in Ids
    BY <1>0, Zenon DEF ExecuteNamed, ClosePreparedStatement
  <2>. QED
    BY <2>1, <2>2, <2>3
<1>2. /\ nums \subseteq 1 .. ended.ops /\ ended.ops \in Nat /\ NextId = ended.ops + 1
      /\ \A p \in prepared : p \in Op /\ p.name \in Names /\ ~p.stream
  BY <1>1, ConstantsAssumption DEF Typed, CallerTyped, Resting, NextId
<1>3. nums \subseteq 1 .. NextId
  BY <1>2
<1>4. Names \subseteq Ids /\ 0 \notin Names /\ Ids \subseteq Names
  BY DEF Names, Ids
<1>5. ASSUME NEW s \in Statements, ExecuteSimple(s) PROVE Typed' /\ Flow'
  <2> DEFINE o == [id |-> NextId, kind |-> "simple", statement |-> s, stream |-> FALSE, name |-> 0, of |-> 0]
             types == <<"query">>
  <2>1. /\ o \in Op /\ o.id = NextId /\ o.kind = "simple" /\ o.name = 0 /\ ~o.stream
        /\ types \in Wholes /\ types[1] # "copydata"
    BY <1>1 DEF Op, Kinds, Wholes
  <2>2. Begin(o, types) /\ nums' = nums
    BY <1>5 DEF ExecuteSimple
  <2> HIDE DEF o, types
  <2>. QED
    BY <1>3, <2>1, <2>2, BeginKeeps
<1>6. ASSUME NEW s \in Statements, NEW stream \in BOOLEAN, ExecuteUnnamed(s, stream) PROVE Typed' /\ Flow'
  <2> DEFINE o == [id |-> NextId, kind |-> "unnamed", statement |-> s, stream |-> stream, name |-> 0, of |-> 0]
             types == <<"parse", "sync">>
  <2>1. /\ o \in Op /\ o.id = NextId /\ o.kind = "unnamed" /\ o.name = 0
        /\ types \in Wholes /\ types[1] # "copydata"
    BY <1>1 DEF Op, Kinds, Wholes
  <2>2. Begin(o, types) /\ nums' = nums
    BY <1>6 DEF ExecuteUnnamed
  <2> HIDE DEF o, types
  <2>. QED
    BY <1>3, <2>1, <2>2, BeginKeeps
<1>7. ASSUME NEW s \in Statements, PrepareStatement(s) PROVE Typed' /\ Flow'
  <2> DEFINE n == LowestFree(nums)   types == <<"parse", "describe", "sync">>
             o == [id |-> NextId, kind |-> "prepare", statement |-> s, stream |-> FALSE, name |-> n, of |-> NextId]
  <2>1. Begin(o, types) /\ nums' = nums \cup {n}
    BY <1>7 DEF PrepareStatement
  <2>2. n \in 1 .. NextId /\ n \in Names
    <3>1. LowestFree(nums) \in 1 .. NextId
      BY <1>1, <1>2, LowestIs
    <3>. QED
      BY <1>1, <1>2, <3>1, ConstantsAssumption DEF Ids, Names
  <2> HIDE DEF n
  <2>3. /\ o \in Op /\ o.id = NextId /\ o.kind = "prepare" /\ o.name # 0 /\ ~o.stream /\ o.of = o.id
        /\ types \in Wholes /\ types[1] # "copydata"
    BY <1>1, <1>4, <2>2 DEF Op, Kinds, Wholes
  <2>4. nums' \subseteq 1 .. NextId
    BY <1>3, <2>1, <2>2
  <2> HIDE DEF o, types
  <2>. QED
    BY <2>1, <2>3, <2>4, BeginKeeps
<1>8. ASSUME NEW p \in prepared, NEW k \in {"named", "close"}, NEW types \in Wholes, types[1] # "copydata",
             Begin([p EXCEPT !.id = NextId, !.kind = k], types), UNCHANGED nums
      PROVE  Typed' /\ Flow'
  <2> DEFINE o == [p EXCEPT !.id = NextId, !.kind = k]
  <2>1. /\ o \in Op /\ o.id = NextId /\ o.kind = k /\ o.name # 0 /\ ~o.stream
    BY <1>1, <1>2, <1>4 DEF Op, Kinds
  <2>2. Begin(o, types) /\ nums' = nums
    BY <1>8
  <2> HIDE DEF o
  <2>. QED
    BY <1>3, <1>8, <2>1, <2>2, BeginKeeps
<1>9. ASSUME NEW p \in prepared, ExecuteNamed(p) PROVE Typed' /\ Flow'
  <2>1. <<"bind", "execute", "sync">> \in Wholes /\ <<"bind", "execute", "sync">>[1] # "copydata"
    BY DEF Wholes
  <2>2. "named" \in {"named", "close"} /\ Begin([p EXCEPT !.id = NextId, !.kind = "named"], <<"bind", "execute", "sync">>) /\ UNCHANGED nums
    BY <1>9, Zenon DEF ExecuteNamed
  <2>. QED
    BY ONLY <1>8, p \in prepared, <2>1, <2>2, Zenon
<1>10. ASSUME NEW p \in prepared, ClosePreparedStatement(p) PROVE Typed' /\ Flow'
  <2>1. <<"close", "sync">> \in Wholes /\ <<"close", "sync">>[1] # "copydata"
    BY DEF Wholes
  <2>2. "close" \in {"named", "close"} /\ Begin([p EXCEPT !.id = NextId, !.kind = "close"], <<"close", "sync">>) /\ UNCHANGED nums
    BY <1>10, Zenon DEF ClosePreparedStatement
  <2>. QED
    BY ONLY <1>8, p \in prepared, <2>1, <2>2, Zenon
<1>. QED
  BY <1>5, <1>6, <1>7, <1>9, <1>10

LEMMA BindKeeps ==
  ASSUME Typed, Flow, SendBind
  PROVE  Typed' /\ Flow'
<1>1. /\ pc = "binding" /\ pc' = "describe" /\ op \in Op /\ op.kind = "unnamed"
      /\ UNCHANGED <<op, error, status, nums, prepared, ended, replies, backend, causes>>
  BY DEF SendBind, Typed, CallerTyped, Resting, Unnamed
<1> DEFINE m == Messages(op, <<"bind">>)
<1>2. /\ m \in Seq(Asks) /\ DOMAIN m = 1 .. 1 /\ m[1].type = "bind" /\ \A u : Has(m, u) <=> u = "bind"
  <2> DEFINE types == <<"bind">>   n == Messages(op, types)
  <2>1. types \in Wholes \cup {<<"bind">>, <<"copydata">>} /\ n = Messages(op, types) /\ Len(types) = 1
        /\ types[1] = "bind"
    OBVIOUS
  <2> HIDE DEF types, n
  <2>2. n \in Seq(Asks) /\ n[1].type = types[1] /\ DOMAIN n = 1 .. Len(types)
    BY <1>1, <2>1, BatchIs
  <2>3. n = m
    BY DEF n, types
  <2>. QED
    BY <1>1, <2>1, <2>2, <2>3, BatchHas
<1>3. requests \in Seq(Asks) /\ buffer \in Seq(Asks) /\ replies \in Seq(Answers) /\ error \in BOOLEAN
      /\ status \in {"none", "I", "T", "E"}
  BY DEF Typed, QueuesTyped, CallerTyped
<1>4. \/ buffer' = buffer \o m /\ UNCHANGED requests
      \/ Flush(op, <<"bind">>)
  BY DEF SendBind
<1> HIDE DEF m
<1>5. ASSUME requests' \in Seq(Asks), buffer' \in Seq(Asks) PROVE Typed'
  BY <1>1, <1>3, <1>5, GoesOn DEF PCs, Reading, Resting, Unnamed
<1>6. ASSUME server.up, "staleBind" \notin causes
      PROVE  Requested /\ Skipping /\ Copies /\ Owed /\ server' = server /\ buffer = <<>>
             /\ Followed(requests, FALSE)
  <2>1. Requested /\ Skipping /\ Copies /\ Owed /\ server' = server
    BY <1>1, <1>6 DEF Flow, backend
  <2>2. (pc = "describe") = FALSE
    BY <1>1
  <2>. QED
    BY <1>1, <2>1, <2>2 DEF Requested
<1>7. ASSUME NEW r, Followed(r, FALSE) PROVE Followed(r, TRUE)
  BY <1>7 DEF Followed
<1>8. (pc' = "describe") = TRUE
  BY <1>1
<1>9. CASE buffer' = buffer \o m /\ UNCHANGED requests
  <2>1. buffer' \in Seq(Asks) /\ requests' \in Seq(Asks)
    BY <1>2, <1>3, <1>9, ConcatIs
  <2>2. Flow'
    <3> SUFFICES ASSUME server.up, "staleBind" \notin causes PROVE (Requested /\ Skipping /\ Copies /\ Owed)'
      BY <1>1 DEF Flow, backend
    <3>1. Requested /\ Skipping /\ Copies /\ Owed /\ server' = server /\ buffer = <<>> /\ Followed(requests, FALSE)
      BY <1>6
    <3>2. buffer' = m
      BY <1>2, <1>9, <3>1, ConcatEmptySeq
    <3>3. Followed(requests', pc' = "describe")
      BY <1>7, <1>8, <1>9, <3>1
    <3>4. \A i \in DOMAIN buffer' : buffer'[i].type = "bind"
      BY <1>2, <3>2
    <3>. QED
      BY <1>1, <1>9, <3>1, <3>3, <3>4 DEF Requested, Skipping, Copies, Owed
  <2>. QED
    BY <1>5, <2>1, <2>2
<1>10. CASE Flush(op, <<"bind">>)
  <2> DEFINE types == <<"bind">>
  <2>1. types \in Wholes \cup {<<"bind">>, <<"copydata">>} /\ types[1] = "bind" /\ Flush(op, types)
        /\ types[1] # "copydata" /\ types[1] # "query" /\ m = Messages(op, types)
    BY <1>10 DEF m
  <2> HIDE DEF types
  <2>2. /\ requests' \in Seq(Asks) /\ requests' # <<>> /\ buffer' = <<>>
        /\ \A u : Has(requests', u) <=> Has(requests, u) \/ Has(buffer, u) \/ Has(m, u)
        /\ requests # <<>> => Head(requests') = Head(requests)
        /\ \A b, d : /\ Followed(requests, b) /\ (\A i \in DOMAIN buffer : buffer[i].type = "bind")
                     /\ types # <<"bind">> \/ d
                     /\ types[1] # "query" \/ (buffer = <<>> /\ ~b)
                     => Followed(requests', d)
        /\ /\ OneCopy(requests) /\ (\A i \in DOMAIN buffer : buffer[i].type = "bind")
           /\ Has(requests, "copydone") => types[1] # "copydata"
           => OneCopy(requests')
    BY <1>1, <2>1, FlushIs
  <2>3. Flow'
    <3> SUFFICES ASSUME server.up, "staleBind" \notin causes PROVE (Requested /\ Skipping /\ Copies /\ Owed)'
      BY <1>1 DEF Flow, backend
    <3>1. Requested /\ Skipping /\ Copies /\ Owed /\ server' = server /\ buffer = <<>> /\ Followed(requests, FALSE)
      BY <1>6
    <3>2. DOMAIN buffer = {} /\ \A u : ~Has(buffer, u)
      BY <3>1 DEF Has
    <3>3. Followed(requests', TRUE) /\ OneCopy(requests')
      BY <2>1, <2>2, <3>1, <3>2 DEF Copies
    <3>8. Followed(requests', pc' = "describe")
      BY <1>8, <3>3
    <3>9. \A i \in DOMAIN buffer' : buffer'[i].type = "bind"
      BY <2>2
    <3>4. Followed(requests', pc' = "describe") /\ \A i \in DOMAIN buffer' : buffer'[i].type = "bind"
      BY <3>8, <3>9
    <3>5. Requested'
      BY <2>2, <3>4 DEF Requested
    <3>6. Skipping'
      BY <1>1, <2>2, <3>1 DEF Skipping
    <3>7. Copies' /\ Owed'
      BY <1>1, <1>2, <2>2, <3>1, <3>2, <3>3 DEF Copies, Owed
    <3>. QED
      BY <3>5, <3>6, <3>7
  <2>4. buffer' \in Seq(Asks)
    BY <2>2, EmptySeq
  <2>. QED
    BY <1>5, <2>2, <2>3, <2>4
<1>. QED
  BY <1>4, <1>9, <1>10

LEMMA CopyInKeeps ==
  ASSUME Typed, Flow, HandleCopyIn
  PROVE  Typed' /\ Flow'
<1>1. Receives("copyin")
  BY DEF HandleCopyIn
<1>2. /\ pc \in Reading /\ pc \notin Resting /\ replies # <<>> /\ Tail(replies) \in Seq(Answers)
      /\ \A d : Got(replies, d) <=> d = "copyin" \/ Got(Tail(replies), d)
      /\ OneAnswer(replies) => OneAnswer(Tail(replies)) /\ ~Got(Tail(replies), "copyin")
  BY <1>1, HeardIs
<1>3. /\ pc \in PCs /\ op \in Op /\ op.kind = (IF pc \in Unnamed THEN "unnamed" ELSE pc)
      /\ op.stream => op.kind = "unnamed"
      /\ error \in BOOLEAN /\ status \in {"none", "I", "T", "E"}
      /\ causes \subseteq {"handler", "params", "staleBind", "lost"}
      /\ ended \in [ops : 0..MaxOps, raises : 0..MaxRaises]
  BY <1>2 DEF Typed, CallerTyped
<1>4. CASE /\ op.stream /\ Flush(op, <<"copydata", "copydone", "sync">>)
           /\ replies' = Tail(replies) /\ UNCHANGED <<caller, backend, causes>>
  <2> DEFINE types == <<"copydata", "copydone", "sync">>   m == Messages(op, types)
  <2>1. /\ types \in Wholes /\ types[1] = "copydata" /\ Flush(op, types)
        /\ types \in Wholes \cup {<<"bind">>, <<"copydata">>} /\ types # <<"bind">>
    BY <1>4 DEF Wholes
  <2> HIDE DEF types
  <2>2. /\ requests' \in Seq(Asks) /\ requests' # <<>> /\ buffer' = <<>>
        /\ \A u : Has(requests', u) <=> Has(requests, u) \/ Has(buffer, u) \/ Has(m, u)
        /\ requests # <<>> => Head(requests') = Head(requests)
        /\ \A b, d : /\ Followed(requests, b) /\ (\A i \in DOMAIN buffer : buffer[i].type = "bind")
                     /\ types # <<"bind">> \/ d
                     /\ types[1] # "query" \/ (buffer = <<>> /\ ~b)
                     => Followed(requests', d)
        /\ /\ OneCopy(requests) /\ (\A i \in DOMAIN buffer : buffer[i].type = "bind")
           /\ Has(requests, "copydone") => types[1] # "copydata"
           => OneCopy(requests')
    BY <1>3, <2>1, FlushIs
  <2>3. Has(m, "copydone") /\ Has(m, "sync")
    BY <1>3, <2>1, WholeHas
  <2> HIDE DEF m
  <2>4. Typed'
    <3>1. buffer' \in Seq(Asks)
      BY <2>2, EmptySeq
    <3>. QED
      BY <1>2, <1>3, <1>4, <2>2, <3>1, GoesOn DEF caller
  <2>5. Flow'
    <3> SUFFICES ASSUME server.up, "staleBind" \notin causes PROVE (Requested /\ Skipping /\ Copies /\ Owed)'
      BY <1>4 DEF Flow, backend
    <3>1. Requested /\ Skipping /\ Copies /\ Owed /\ server' = server /\ pc' = pc
      BY <1>2, <1>4 DEF Flow, backend, Resting, caller
    <3>2. server.copying /\ ~Has(requests, "copydone") /\ ~Got(replies', "copyin") /\ OneAnswer(replies')
      BY <1>2, <1>4, <3>1 DEF Copies
    <3>3. \A i \in DOMAIN buffer : buffer[i].type = "bind"
      BY <3>1 DEF Requested
    <3>4. Followed(requests', pc = "describe")
      BY <2>1, <2>2, <3>1, <3>3 DEF Requested
    <3>5. Requested'
      <4>1. \A i \in DOMAIN buffer' : buffer'[i].type = "bind"
        BY <2>2
      <4>. QED
        BY <2>2, <3>1, <3>4, <4>1 DEF Requested
    <3>6. Skipping'
      BY <3>1, <3>2 DEF Skipping
    <3>7. Copies'
      BY <2>1, <2>2, <3>1, <3>2, <3>3 DEF Copies
    <3>8. Owed'
      BY <2>2, <2>3, <3>1, <3>2 DEF Owed
    <3>. QED
      BY <3>5, <3>6, <3>7, <3>8
  <2>. QED
    BY <2>4, <2>5
<1>5. CASE op.stream /\ Raise("handler") /\ Flush(op, <<"copydata">>) /\ replies' = Tail(replies) /\ UNCHANGED backend
  <2> DEFINE types == <<"copydata">>   m == Messages(op, types)
  <2>1. /\ types[1] = "copydata" /\ Flush(op, types)
        /\ types \in Wholes \cup {<<"bind">>, <<"copydata">>} /\ types # <<"bind">>
    BY <1>5
  <2>2. \A u : Has(m, u) <=> u = "copydata"
    BY <1>3, BatchHas
  <2> HIDE DEF types, m
  <2>3. /\ requests' \in Seq(Asks) /\ requests' # <<>> /\ buffer' = <<>>
        /\ \A u : Has(requests', u) <=> Has(requests, u) \/ Has(buffer, u) \/ Has(m, u)
        /\ requests # <<>> => Head(requests') = Head(requests)
        /\ \A b, d : /\ Followed(requests, b) /\ (\A i \in DOMAIN buffer : buffer[i].type = "bind")
                     /\ types # <<"bind">> \/ d
                     /\ types[1] # "query" \/ (buffer = <<>> /\ ~b)
                     => Followed(requests', d)
        /\ /\ OneCopy(requests) /\ (\A i \in DOMAIN buffer : buffer[i].type = "bind")
           /\ Has(requests, "copydone") => types[1] # "copydata"
           => OneCopy(requests')
    BY <1>3, <2>1, FlushIs DEF m
  <2>4. /\ Finish(1) /\ causes' = causes \cup {"handler"} \cup StaleBind /\ UNCHANGED <<status, nums, prepared>>
        /\ ended.raises < MaxRaises
    BY <1>5 DEF Raise
  <2>5. Typed'
    <3>1. ended.raises + 1 <= MaxRaises
      BY <1>3, <2>4, ConstantsAssumption
    <3>2. causes' \subseteq {"handler", "params", "staleBind", "lost"} /\ buffer' \in Seq(Asks)
          /\ replies' \in Seq(Answers)
      BY <1>2, <1>3, <1>5, <2>3, <2>4, EmptySeq DEF StaleBind
    <3>. QED
      BY <1>2, <1>3, <1>5, <2>3, <2>4, <3>1, <3>2, FinishTyped
  <2>6. Flow'
    <3>0. pc' = "idle"
      BY <2>4 DEF Finish
    <3> SUFFICES ASSUME server.up, "staleBind" \notin causes' PROVE (Requested /\ Skipping /\ Copies /\ Owed)'
      BY <1>5 DEF Flow, backend
    <3>9. pc # "describe" /\ "staleBind" \notin causes
      BY <2>4 DEF StaleBind
    <3>1. Requested /\ Skipping /\ Copies /\ server' = server
      BY <1>2, <1>5, <3>9 DEF Flow, backend, Resting
    <3>2. server.copying /\ ~Has(requests, "copydone") /\ ~Got(replies', "copyin") /\ OneAnswer(replies')
      BY <1>2, <1>5, <3>1 DEF Copies
    <3>3. \A i \in DOMAIN buffer : buffer[i].type = "bind"
      BY <3>1 DEF Requested
    <3>4. Followed(requests', FALSE)
      BY <2>1, <2>3, <3>1, <3>3 DEF Requested
    <3>5. Requested'
      <4>1. \A i \in DOMAIN buffer' : buffer'[i].type = "bind"
        BY <2>3
      <4>2. (pc' = "describe") = FALSE
        BY <3>0
      <4>3. Followed(requests', pc' = "describe")
        BY <3>4, <4>2
      <4>. QED
        BY <2>3, <4>1, <4>3 DEF Requested
    <3>6. Skipping'
      BY <3>1, <3>2 DEF Skipping
    <3>7. Copies'
      BY <2>1, <2>3, <3>1, <3>2, <3>3 DEF Copies
    <3>8. Owed'
      BY <3>0 DEF Owed
    <3>. QED
      BY <3>5, <3>6, <3>7, <3>8
  <2>. QED
    BY <2>5, <2>6
<1>6. CASE ~op.stream /\ Break
  <2>1. Raise("handler") /\ replies' = Tail(replies) /\ UNCHANGED <<buffer, requests, backend>>
    BY <1>6 DEF Break
  <2>. QED
    BY <1>2, <2>1, RaiseKeeps
<1>. QED
  BY <1>4, <1>5, <1>6 DEF HandleCopyIn

LEMMA CompleteKeeps ==
  ASSUME Typed, Flow, HandleCommandComplete
  PROVE  Typed' /\ Flow'
<1>1. Receives("complete") /\ (Ignore \/ Break \/ Complain)
  BY DEF HandleCommandComplete
<1>2. pc \notin Resting /\ replies # <<>>
  BY <1>1, HeardIs
<1>3. CASE Break
  <2>1. Raise("handler") /\ replies' = Tail(replies) /\ UNCHANGED <<buffer, requests, backend>>
    BY <1>3 DEF Break
  <2>. QED
    BY <1>2, <2>1, RaiseKeeps
<1>. QED
  BY <1>1, <1>3, ReadKeeps

LEMMA ReadyKeeps ==
  ASSUME Typed, Flow, HandleReady
  PROVE  Typed' /\ Flow'
<1>1. Receives("ready") /\ status' = Head(replies).tx /\ replies' = Tail(replies) /\ UNCHANGED backend
  BY DEF HandleReady
<1>2. /\ pc \in Reading /\ pc \notin Resting /\ replies' \in Seq(Answers)
      /\ \A d : Got(replies, d) <=> d = "ready" \/ Got(replies', d)
      /\ OneAnswer(replies) => OneAnswer(replies')
      /\ status' \in {"none", "I", "T", "E"}
  BY <1>1, HeardIs DEF Answers
<1>3. /\ pc \in PCs /\ op \in Op /\ op.kind = (IF pc \in Unnamed THEN "unnamed" ELSE pc)
      /\ error \in BOOLEAN /\ requests \in Seq(Asks) /\ buffer \in Seq(Asks)
      /\ causes \subseteq {"handler", "params", "staleBind", "lost"}
      /\ ended \in [ops : 0..MaxOps, raises : 0..MaxRaises]
  BY <1>2 DEF Typed, CallerTyped, QueuesTyped
<1>4. ASSUME Finish(0), UNCHANGED <<buffer, requests>>, nums' \subseteq nums,
             prepared' \subseteq prepared \cup (IF pc = "prepare" THEN {op} ELSE {}),
             \/ causes' = causes \cup StaleBind
             \/ causes' = causes /\ pc # "describe"
      PROVE  Typed' /\ Flow'
  <2>1. Typed'
    <3>1. ended.raises + 0 <= MaxRaises
      BY <1>3, ConstantsAssumption
    <3>2. causes' \subseteq {"handler", "params", "staleBind", "lost"}
      BY <1>3, <1>4 DEF StaleBind
    <3>. QED
      BY <1>1, <1>2, <1>3, <1>4, <3>1, <3>2, FinishTyped
  <2>2. Flow'
    <3>1. pc' = "idle"
      BY <1>4 DEF Finish
    <3> SUFFICES ASSUME server.up, "staleBind" \notin causes' PROVE (Requested /\ Skipping /\ Copies /\ Owed)'
      BY <1>1 DEF Flow, backend
    <3>2. pc # "describe" /\ "staleBind" \notin causes
      BY <1>4 DEF StaleBind
    <3>3. Requested /\ Skipping /\ Copies /\ server' = server
      BY <1>1, <1>2, <3>2 DEF Flow, backend, Resting
    <3>. QED
      BY <1>2, <1>4, <3>1, <3>2, <3>3 DEF Requested, Skipping, Copies, Owed
  <2>. QED
    BY <2>1, <2>2
<1>5. ASSUME NEW types \in Wholes, types[1] \in {"describe", "execute"}, NEW next \in {"binding", "execute"},
             NextRound(next, types), pc \in Unnamed, UNCHANGED causes
      PROVE  Typed' /\ Flow'
  <2>1. /\ Flush(op, types) /\ pc' = next /\ UNCHANGED <<op, error, ended, nums, prepared>>
        /\ types[1] # "query" /\ types[1] # "copydata"
    BY <1>5 DEF NextRound
  <2>2. /\ pc' \in PCs \ (Resting \cup {"describe"}) /\ pc' \in Unnamed
    BY <1>5, <2>1 DEF PCs, Resting, Unnamed, Reading
  <2>3. UNCHANGED <<op, ended, nums, prepared, backend, causes>> /\ error' \in BOOLEAN
        /\ (Got(replies', "copyin") => Got(replies, "copyin"))
        /\ (IF pc' \in Unnamed THEN "unnamed" ELSE pc') = (IF pc \in Unnamed THEN "unnamed" ELSE pc)
    BY <1>1, <1>2, <1>3, <1>5, <2>1, <2>2
  <2>. QED
    BY <1>2, <1>5, <2>1, <2>2, <2>3, AskKeeps
<1>6. CASE error
  BY <1>4, <1>6 DEF HandleReady
<1>7. CASE ~error
  <2>1. Continue /\ UNCHANGED causes
    BY <1>7 DEF HandleReady
  <2>2. CASE pc = "parse"
    <3>1. NextRound("binding", <<"describe", "sync">>)
      BY <2>1, <2>2 DEF Continue
    <3> DEFINE types == <<"describe", "sync">>
    <3>2. types \in Wholes /\ types[1] \in {"describe", "execute"} /\ NextRound("binding", types)
          /\ "binding" \in {"binding", "execute"} /\ pc \in Unnamed
      BY <2>2, <3>1 DEF Wholes, Unnamed
    <3> HIDE DEF types
    <3>. QED
      BY <1>5, <2>1, <3>2
  <2>3. CASE pc = "describe"
    <3>1. NextRound("execute", <<"execute", "sync">>)
      BY <2>1, <2>3 DEF Continue
    <3> DEFINE types == <<"execute", "sync">>
    <3>2. types \in Wholes /\ types[1] \in {"describe", "execute"} /\ NextRound("execute", types)
          /\ "execute" \in {"binding", "execute"} /\ pc \in Unnamed
      BY <2>3, <3>1 DEF Wholes, Unnamed
    <3> HIDE DEF types
    <3>. QED
      BY <1>5, <2>1, <3>2
  <2>4. CASE pc \in {"simple", "execute", "named"}
    BY <1>4, <2>1, <2>4 DEF Continue
  <2>5. CASE pc = "prepare"
    BY <1>4, <2>1, <2>5 DEF Continue
  <2>6. CASE pc = "close"
    BY <1>4, <2>1, <2>6 DEF Continue
  <2>. QED
    BY <1>2, <2>2, <2>3, <2>4, <2>5, <2>6 DEF Reading
<1>. QED
  BY <1>6, <1>7

LEMMA CloseKeeps ==
  ASSUME Typed, Close
  PROVE  Typed' /\ Flow'
<1>1. /\ pc = "idle" /\ pc' = "closed" /\ Flush(NoOp, <<"terminate">>)
      /\ UNCHANGED <<op, error, status, nums, prepared, ended, replies, backend, causes>>
  BY DEF Close
<1> DEFINE types == <<"terminate">>   m == Messages(NoOp, types)
<1>2. types \in Seq({"terminate"}) /\ Len(types) = 1 /\ types[1] = "terminate"
  OBVIOUS
<1> HIDE DEF types
<1>3. /\ Len(m) = 1 /\ DOMAIN m = 1 .. 1 /\ m \in Seq([type : {"terminate"}, op : {NoOp}])
  BY <1>2, MessagesAre
<1> HIDE DEF m
<1>4. m \in Seq(Asks)
  <2>1. [type : {"terminate"}, op : {NoOp}] \subseteq Asks
    BY DEF Asks
  <2>. QED
    BY <1>3, <2>1, SeqMonotonic
<1>5. requests \in Seq(Asks) /\ buffer \in Seq(Asks)
  BY DEF Typed, QueuesTyped
<1>6. requests' = (requests \o buffer) \o m /\ buffer' = <<>>
  BY <1>1 DEF Flush, m, types
<1>7. requests \o buffer \in Seq(Asks)
  BY <1>5, ConcatIs
<1>8. requests' \in Seq(Asks) /\ buffer' \in Seq(Asks)
  BY <1>4, <1>6, <1>7, ConcatIs, EmptySeq
<1>9. Typed'
  BY <1>1, <1>8 DEF Typed, ServerTyped, QueuesTyped, CallerTyped, backend, NextId, Resting, PCs
<1>10. Flow'
  BY <1>1 DEF Flow
<1>. QED
  BY <1>9, <1>10

LEMMA NextKeeps ==
  ASSUME Typed, Flow, [Next]_vars
  PROVE  Typed' /\ Flow'
<1>1. CASE HandleError
  BY <1>1, ReadKeeps DEF HandleError
<1>2. CASE ReadFails
  <2>1. Raise("lost") /\ UNCHANGED <<buffer, requests, replies, backend>> /\ pc \in Reading
    BY <1>2 DEF ReadFails
  <2>. QED
    BY <2>1, RaiseKeeps DEF Reading, Resting
<1>3. CASE MakeParamsRaises
  <2>1. Raise("params") /\ UNCHANGED <<buffer, requests, replies, backend>> /\ pc = "binding"
    BY <1>3 DEF MakeParamsRaises
  <2>. QED
    BY <2>1, RaiseKeeps DEF Resting
<1>4. CASE HandlerRaises
  <2>1. Raise("handler") /\ UNCHANGED <<buffer, requests, replies, backend>> /\ pc \in Reading
    BY <1>4 DEF HandlerRaises
  <2>. QED
    BY <2>1, RaiseKeeps DEF Reading, Resting
<1>5. CASE UNCHANGED vars
  BY <1>5 DEF vars, caller, backend, Typed, ServerTyped, QueuesTyped, CallerTyped, NextId,
              Flow, Requested, Skipping, Copies, Owed
<1>6. CASE Next
  BY <1>1, <1>2, <1>3, <1>4, <1>6, BeginsKeep, BindKeeps, CopyInKeeps, CompleteKeeps, ReadyKeeps,
     CloseKeeps, ServeTyped, ServeFlow DEF Next, Handle
<1>. QED
  BY <1>5, <1>6

-----------------------------------------------------------------------------
(* The two sides in step: the server takes a message.                          *)

LEMMA NothingMore ==
  ASSUME Typed, Round, NEW q, q \in Seq(Asks), q # <<>>, Linked(q, pc = "describe"),
         \A i \in DOMAIN q : q[i].type \in RoundTypes
  PROVE  /\ q[1].type = "query" => Tail(q) = <<>>
         /\ pc = "describe" /\ q[1].type = "bind" => Tail(q) = <<>>
         /\ q[1].type = "sync" /\ ~Has(q, "copydata") /\ Tail(q) # <<>> =>
              /\ pc = "describe" /\ Len(q) = 2 /\ q[2].type = "bind"
              /\ Len(Tail(q)) = 1 /\ Tail(q)[1].type = "bind"
<1> DEFINE r == Tail(q)   n == Len(q)
<1>1. /\ r \in Seq(Asks) /\ n \in Nat \ {0} /\ Len(r) = n - 1
      /\ \A i \in 1 .. n - 1 : r[i] = q[i + 1]
      /\ DOMAIN q = 1 .. n /\ DOMAIN r = 1 .. n - 1
  BY TailIs
<1>2. r = <<>> <=> n = 1
  <2> HIDE DEF r, n
  <2>. QED
    BY <1>1, QueueIs
<1> HIDE DEF r
<1>3. n > 1 => q[1].type \in Precedes(q[2].type, pc = "describe") /\ q[2].type \in RoundTypes /\ r[1] = q[2]
  <2> SUFFICES ASSUME n > 1 PROVE q[1].type \in Precedes(q[2].type, pc = "describe") /\ q[2].type \in RoundTypes /\ r[1] = q[2]
    OBVIOUS
  <2>1. 2 \in DOMAIN q /\ 2 > 1 /\ 2 - 1 = 1 /\ 1 \in 1 .. n - 1 /\ 1 + 1 = 2
    BY <1>1
  <2>2. r[1] = q[1 + 1]
    BY <1>1, <2>1
  <2>. QED
    BY <2>1, <2>2 DEF Linked
<1>4. q[1].type = "query" => n = 1
  BY <1>1, <1>3 DEF Precedes, Extended
<1>5. ASSUME pc = "describe", q[1].type = "bind" PROVE n = 1
  BY <1>1, <1>3, <1>5 DEF Precedes, RoundTypes
<1>6. ASSUME q[1].type = "sync", ~Has(q, "copydata"), n > 1
      PROVE  pc = "describe" /\ n = 2 /\ q[2].type = "bind" /\ r[1].type = "bind"
  <2>1. q[2].type # "copydata"
    BY <1>1, <1>6 DEF Has
  <2>2. pc = "describe" /\ q[2].type = "bind" /\ r[1].type = "bind"
    BY <1>3, <1>6, <2>1 DEF Precedes, Extended
  <2>3. ASSUME n > 2 PROVE FALSE
    <3>1. 3 \in DOMAIN q /\ 3 > 1 /\ 3 - 1 = 2
      BY <1>1, <2>3
    <3>2. q[2].type \in Precedes(q[3].type, pc = "describe") /\ q[3].type \in RoundTypes
      BY <3>1 DEF Linked
    <3>. QED
      BY <2>2, <3>2 DEF Precedes, RoundTypes
  <2>. QED
    BY <1>1, <1>6, <2>2, <2>3
<1>7. ASSUME q[1].type = "sync", ~Has(q, "copydata"), r # <<>>
      PROVE  pc = "describe" /\ Len(q) = 2 /\ q[2].type = "bind" /\ Len(r) = 1 /\ r[1].type = "bind"
  BY <1>1, <1>2, <1>6, <1>7
<1>. QED
  BY <1>2, <1>4, <1>5, <1>7 DEF r

(* When ReadyForQuery is there nothing has been asked since but an early Bind. *)
LEMMA ReadyIsLast ==
  ASSUME Typed, Requested, Copies, Round, RoundEnd, Got(replies, "ready"), requests # <<>>
  PROVE  pc = "describe" /\ Len(requests) = 1 /\ requests[1].type = "bind" /\ Tail(requests) = <<>>
<1> DEFINE n == Len(requests)
<1>1. requests \in Seq(Asks)
  BY DEF Typed, QueuesTyped
<1>2. n \in Nat \ {0} /\ DOMAIN requests = 1 .. n /\ Len(Tail(requests)) = n - 1 /\ Tail(requests) \in Seq(Asks)
  BY <1>1, TailIs
<1>3. ~Has(requests, "sync") /\ ~Has(requests, "query") /\ ~server.copying
  BY DEF Got, RoundEnd
<1>4. ~Has(requests, "copydata")
  BY <1>3 DEF Copies
<1>5. n \in DOMAIN requests /\ requests[n].type \in RoundTypes
  BY <1>2 DEF Round
<1>6. requests[n].type \notin {"sync", "query", "copydata"}
  BY <1>3, <1>4, <1>5 DEF Has
<1>7. requests[n].type \in Extended
  BY <1>5, <1>6 DEF RoundTypes, Extended, InCopy, OfCopy
<1>8. pc = "describe" /\ requests[n].type = "bind"
  BY <1>5, <1>7 DEF Requested, Followed
<1>9. ASSUME n > 1 PROVE FALSE
  <2>1. n - 1 \in DOMAIN requests /\ requests[n - 1].type \in Precedes(requests[n].type, pc = "describe")
    BY <1>2, <1>5, <1>9 DEF Round, Linked
  <2>2. requests[n - 1].type = "sync"
    BY <1>8, <2>1 DEF Precedes
  <2>. QED
    BY <1>3, <2>1, <2>2 DEF Has
<1>10. n = 1
  BY <1>2, <1>9
<1>11. Tail(requests) = <<>>
  <2>1. Len(Tail(requests)) = 0
    BY <1>2, <1>10
  <2>. QED
    BY <1>2, <2>1, QueueIs
<1>. QED
  BY <1>8, <1>10, <1>11

(* The server takes a message while the two are in step. *)
LEMMA TakeStep ==
  ASSUME Typed, Flow, InStep, causes = {}, pc # "closed", NEW t, Takes(t), UNCHANGED <<caller, buffer>>
  PROVE  /\ Requested /\ Skipping /\ Copies /\ Round /\ RoundEnd /\ Knows /\ Stores /\ Undone
         /\ pc \notin Resting /\ op \in Op /\ op.id = NextId /\ Message.op = op /\ t \in RoundTypes
         /\ \A u : Has(requests, u) <=> u = t \/ Has(requests', u)
         /\ \A i \in DOMAIN requests' : requests'[i].op = op /\ requests'[i].type \in RoundTypes
         /\ Linked(requests', pc = "describe")
         /\ t = "query" => requests' = <<>>
         /\ pc = "describe" /\ t = "bind" => requests' = <<>>
         /\ t = "sync" /\ ~server.copying => requests' = <<>> \/ (pc = "describe" /\ Len(requests') = 1 /\ requests'[1].type = "bind")
         /\ ~Has(requests', "query") /\ ~Has(requests', "parse") /\ ~Has(requests', "close")
         /\ pc # "describe" => ~Has(requests', "bind") /\ (t # "bind" => ~Has(requests', "execute"))
         /\ Got(replies, "ready") => t = "bind" /\ pc = "describe" /\ requests' = <<>>
<1>1. /\ server.up /\ requests # <<>> /\ requests' = Tail(requests) /\ requests[1].type = t
      /\ Message = requests[1] /\ 1 \in DOMAIN requests
      /\ \A i \in DOMAIN requests' : \E j \in DOMAIN requests : requests'[i] = requests[j]
      /\ \A u : Has(requests, u) <=> u = t \/ Has(requests', u)
  BY TakeIs
<1>2. Requested /\ Skipping /\ Copies /\ Round /\ RoundEnd /\ Knows /\ Stores /\ Undone /\ Rest
  BY <1>1 DEF Flow, InStep
<1>3. pc \notin Resting /\ op \in Op /\ op.id = NextId
  BY <1>1, <1>2 DEF Rest, Resting, Typed, CallerTyped
<1>4. Message.op = op /\ t \in RoundTypes
  BY <1>1, <1>2 DEF Round
<1>5. \A i \in DOMAIN requests' : requests'[i].op = op /\ requests'[i].type \in RoundTypes
  BY <1>1, <1>2 DEF Round
<1>6. requests \in Seq(Asks) /\ Linked(requests, pc = "describe")
  BY <1>2 DEF Typed, QueuesTyped, Round
<1>7. Linked(requests', pc = "describe")
  BY <1>1, <1>6, TakenFrom
<1>8. \A i \in DOMAIN requests : requests[i].type \in RoundTypes
  BY <1>2 DEF Round
<1>9. /\ t = "query" => requests' = <<>>
      /\ pc = "describe" /\ t = "bind" => requests' = <<>>
      /\ t = "sync" /\ ~Has(requests, "copydata") /\ requests' # <<>> =>
              /\ pc = "describe" /\ Len(requests') = 1 /\ requests'[1].type = "bind"
  BY <1>1, <1>2, <1>6, <1>8, NothingMore
<1>10. ~server.copying => ~Has(requests, "copydata")
  BY <1>2 DEF Copies
<1>11. /\ ~Has(requests', "query") /\ ~Has(requests', "parse") /\ ~Has(requests', "close")
       /\ pc # "describe" => ~Has(requests', "bind") /\ (t # "bind" => ~Has(requests', "execute"))
  BY <1>1, <1>6, FirstIs
<1>12. Got(replies, "ready") => t = "bind" /\ pc = "describe" /\ requests' = <<>>
  BY <1>1, <1>2, ReadyIsLast
<1>. QED
  BY <1>1, <1>2, <1>3, <1>4, <1>5, <1>7, <1>9, <1>10, <1>11, <1>12

LEMMA ServeRound ==
  ASSUME Typed, Flow, InStep, causes = {}, pc # "closed", NEW t, Takes(t), UNCHANGED <<caller, buffer>>,
         server'.copying => server.copying \/ t \in {"query", "execute"}
  PROVE  Round' /\ Rest'
<1>1. /\ Round /\ pc \notin Resting /\ t \in RoundTypes
      /\ \A u : Has(requests, u) <=> u = t \/ Has(requests', u)
      /\ \A i \in DOMAIN requests' : requests'[i].op = op /\ requests'[i].type \in RoundTypes
      /\ Linked(requests', pc = "describe")
      /\ t = "query" => requests' = <<>>
      /\ pc = "describe" /\ t = "bind" => requests' = <<>>
      /\ pc # "describe" => ~Has(requests', "bind") /\ (t # "bind" => ~Has(requests', "execute"))
      /\ \A i \in DOMAIN requests' : \E j \in DOMAIN requests : requests'[i] = requests[j]
  BY TakeStep, TakeIs
<1>2. pc' = pc /\ op' = op /\ buffer' = buffer
  BY DEF caller
<1>3. requests' = <<>> => \A u : ~Has(requests', u)
  BY DEF Has
<1>4. /\ (\A i \in DOMAIN requests : requests[i].op = op /\ requests[i].type \in RoundTypes)'
      /\ Linked(requests, pc = "describe")'
  BY <1>1, <1>2 DEF RoundTypes
<1>5. pc = "describe" /\ buffer = <<>> /\ (Has(requests', "describe") \/ Has(requests', "sync"))
        => Has(requests', "bind")
  BY <1>1, <1>3 DEF Round
<1>6. (buffer # <<>> => ~Has(requests, "bind") /\ buffer = Messages(op, <<"bind">>))'
  <2>1. buffer # <<>> => ~Has(requests, "bind") /\ buffer = Messages(op, <<"bind">>)
    BY <1>1 DEF Round
  <2>. QED
    BY <1>1, <1>2, <2>1
<1>7. ASSUME server'.copying
      PROVE  pc \in {"simple", "execute", "named"} /\ \A i \in DOMAIN requests' : requests'[i].type \in InCopy
  <2>1. CASE server.copying
    BY <1>1, <2>1 DEF Round
  <2>2. CASE t = "query"
    BY <1>1, <2>2 DEF RoundTypes
  <2>3. CASE t = "execute"
    <3>1. pc \in {"execute", "named"}
      BY <1>1, <2>3 DEF RoundTypes, InCopy, OfCopy
    <3>2. \A i \in DOMAIN requests' : requests'[i].type # "bind" /\ requests'[i].type # "execute"
      BY <1>1, <2>3, <3>1 DEF Has
    <3>. QED
      BY <1>1, <3>1, <3>2 DEF RoundTypes, InCopy
  <2>. QED
    BY <1>7, <2>1, <2>2, <2>3
<1>8. Round'
  BY <1>2, <1>4, <1>5, <1>6, <1>7 DEF Round
<1>. QED
  BY <1>1, <1>2, <1>8 DEF Rest, Resting

(* Nothing is answered. *)
LEMMA ServeQuietly ==
  ASSUME Typed, Flow, InStep, causes = {}, pc # "closed", NEW t, Takes(t), UNCHANGED <<caller, buffer>>,
         UNCHANGED <<server, replies, undone>>
  PROVE  (server.up /\ Round /\ RoundEnd /\ Knows /\ Undone /\ Rest)'
<1>1. /\ Round /\ RoundEnd /\ Knows /\ Undone /\ pc \notin Resting
      /\ \A u : Has(requests, u) <=> u = t \/ Has(requests', u)
      /\ server.up
  BY TakeStep, TakeIs
<1>2. /\ pc' = pc /\ op' = op /\ buffer' = buffer /\ status' = status /\ ended' = ended /\ error' = error
      /\ server' = server /\ replies' = replies /\ undone' = undone
  BY DEF caller
<1>3. Round' /\ Rest'
  BY <1>2, ServeRound
<1>4. RoundEnd'
  BY <1>1, <1>2 DEF RoundEnd
<1>5. Knows'
  BY <1>1, <1>2 DEF Knows, Failed, Known
<1>6. Undone'
  BY <1>1, <1>2 DEF Undone, Failed
<1>. QED
  BY <1>1, <1>2, <1>3, <1>4, <1>5, <1>6

(* A message is refused. *)
LEMMA ServeRefusal ==
  ASSUME Typed, Flow, InStep, causes = {}, pc # "closed", NEW t, UNCHANGED <<caller, buffer>>,
         t \in {"parse", "describe", "bind", "execute"}, Works(t), Refuses
  PROVE  (server.up /\ Round /\ RoundEnd /\ Knows /\ Stores /\ Undone /\ Rest)'
<1>0. Takes(t) /\ ~server.skip /\ ~server.copying /\ t # "terminate"
  BY DEF Works
<1>1. /\ Round /\ RoundEnd /\ Knows /\ Stores /\ Undone /\ pc \notin Resting /\ t \in RoundTypes
      /\ \A u : Has(requests, u) <=> u = t \/ Has(requests', u)
      /\ Got(replies, "ready") => t = "bind" /\ pc = "describe" /\ requests' = <<>>
      /\ server.up
      /\ ~Has(requests', "parse") /\ ~Has(requests', "close")
  BY <1>0, TakeStep, TakeIs
<1>2. /\ pc' = pc /\ op' = op /\ buffer' = buffer /\ status' = status /\ ended' = ended /\ error' = error
      /\ prepared' = prepared
  BY DEF caller
<1>3. /\ server'.skip /\ server'.copying = server.copying /\ server'.up = server.up
      /\ Len(replies) \in Nat /\ DOMAIN replies = 1 .. Len(replies)
      /\ Len(replies') = Len(replies) + 1 /\ DOMAIN replies' = 1 .. Len(replies) + 1
      /\ \A i \in 1 .. Len(replies) : replies'[i] = replies[i]
      /\ replies'[Len(replies) + 1].code = "error"
      /\ \A d : Got(replies', d) <=> Got(replies, d) \/ d = "error"
      /\ UNCHANGED <<unnamed, named, portal, undone>>
  BY <1>0, RefusesIs
<1>4. Round' /\ Rest'
  BY <1>0, <1>3, ServeRound
<1>5. RoundEnd'
  <2> SUFFICES ASSUME NEW i \in 1 .. Len(replies) + 1, replies'[i].code = "ready"
               PROVE  /\ ~Has(requests', "sync") /\ ~Has(requests', "query") /\ ~server'.copying
                      /\ i # Len(replies) + 1
                      /\ pc = "describe" /\ i + 1 = Len(replies) + 1 /\ replies'[i + 1].code = "error"
                      /\ server'.skip
    BY <1>2, <1>3 DEF RoundEnd
  <2>1. i # Len(replies) + 1 /\ i \in DOMAIN replies /\ replies[i].code = "ready"
    BY <1>3
  <2>2. Got(replies, "ready")
    BY <2>1 DEF Got
  <2>3. i = Len(replies)
    BY <1>0, <1>1, <2>1 DEF RoundEnd
  <2>4. requests' = <<>> /\ pc = "describe"
    BY <1>1, <2>2
  <2>5. i + 1 = Len(replies) + 1 /\ replies'[i + 1].code = "error"
    BY <1>3, <2>3
  <2>6. ~Has(requests', "sync") /\ ~Has(requests', "query")
    BY <2>4 DEF Has
  <2>. QED
    BY <1>0, <1>3, <2>1, <2>4, <2>5, <2>6
<1>6. Failed'
  BY <1>3 DEF Failed
<1>7. Knows'
  <2>1. pc # "close"
    BY <1>1 DEF RoundTypes
  <2>. QED
    BY <1>2, <1>3, <1>6, <2>1 DEF Knows
<1>8. Stores'
  BY <1>1, <1>2, <1>3, <1>6 DEF Stores
<1>9. Undone'
  BY <1>1, <1>2, <1>3, <1>6 DEF Undone
<1>. QED
  BY <1>1, <1>3, <1>4, <1>5, <1>7, <1>8, <1>9

(* A statement is executed. *)
LEMMA ServeStatement ==
  ASSUME Typed, Flow, InStep, causes = {}, pc # "closed", NEW t, UNCHANGED <<caller, buffer>>,
         t \in {"query", "execute"}, Works(t), UNCHANGED <<unnamed, named, portal>>,
         NEW s, s = op.statement, NEW over \in BOOLEAN, over <=> t = "query",
         NEW c \in {"complete", "copyin", "error"}, Answer(c, s, over), undone' \in Ids \cup {0}
  PROVE  (server.up /\ Round /\ RoundEnd /\ Knows /\ Stores /\ Undone /\ Rest)'
<1>0. Takes(t) /\ ~server.skip /\ ~server.copying /\ t # "terminate"
  BY DEF Works
<1>1. /\ Round /\ RoundEnd /\ Knows /\ Stores /\ Undone /\ pc \notin Resting /\ t \in RoundTypes
      /\ \A u : Has(requests, u) <=> u = t \/ Has(requests', u)
      /\ ~Got(replies, "ready")
      /\ server.up /\ Message.op = op /\ op \in Op /\ op.id = NextId
      /\ t = "query" => requests' = <<>>
      /\ ~Has(requests', "query") /\ ~Has(requests', "parse") /\ ~Has(requests', "close")
      /\ pc # "describe" => ~Has(requests', "bind") /\ (t # "bind" => ~Has(requests', "execute"))
  BY <1>0, TakeStep, TakeIs
<1>2. /\ pc' = pc /\ op' = op /\ buffer' = buffer /\ status' = status /\ ended' = ended /\ error' = error
      /\ prepared' = prepared
  BY DEF caller
<1>3. pc \in {"simple", "execute", "named"} /\ ~Has(requests', "execute") /\ ~Has(requests', "query")
  BY <1>1 DEF RoundTypes, InCopy, OfCopy
<1>4. /\ Len(replies) \in Nat /\ DOMAIN replies = 1 .. Len(replies)
      /\ \A i \in 1 .. Len(replies) : replies'[i] = replies[i]
      /\ replies'[Len(replies) + 1].code = c
      /\ \A d : Got(replies, d) \/ d = c => Got(replies', d)
      /\ IF over /\ c # "copyin"
         THEN /\ Len(replies') = Len(replies) + 2 /\ DOMAIN replies' = 1 .. Len(replies) + 2
              /\ replies'[Len(replies) + 2].tx = server'.tx
         ELSE /\ Len(replies') = Len(replies) + 1 /\ DOMAIN replies' = 1 .. Len(replies) + 1
      /\ server'.up = server.up
      /\ server'.copying <=> c = "copyin"
      /\ server'.skip <=> c = "error" /\ ~over
  BY <1>0 DEF Answer
<1>5. Round' /\ Rest'
  BY <1>0, ServeRound
<1>6. RoundEnd'
  <2> SUFFICES ASSUME NEW i \in DOMAIN replies', replies'[i].code = "ready"
               PROVE  /\ ~Has(requests', "sync") /\ ~Has(requests', "query") /\ ~server'.copying
                      /\ i = Len(replies') /\ ~server'.skip /\ replies'[i].tx = server'.tx
    BY DEF RoundEnd
  <2>1. i \notin 1 .. Len(replies)
    BY <1>1, <1>4 DEF Got
  <2>2. i # Len(replies) + 1
    BY <1>4
  <2>3. over /\ c # "copyin" /\ i = Len(replies) + 2
    BY <1>4, <2>1, <2>2
  <2>4. requests' = <<>>
    BY <1>1, <2>3
  <2>. QED
    BY <1>4, <2>3, <2>4 DEF Has
<1>7. Failed \/ c = "error" => Failed'
  BY <1>2, <1>4 DEF Failed
<1>8. Knows'
  <2>1. server'.skip => Failed'
    BY <1>4, <1>7
  <2>. QED
    BY <1>2, <1>3, <2>1 DEF Knows
<1>9. Stores'
  BY <1>1, <1>2, <1>3, <1>7 DEF Stores
<1>10. Undone'
  <2>1. undone' \in {0, op.id} /\ op.id \in Ids /\ op.id # 0 /\ op.id = ended.ops + 1
    BY <1>1 DEF Answer, Op, Ids, NextId
  <2>2. undone' <= ended.ops + 1
    BY <2>1, ConstantsAssumption DEF Ids
  <2>3. ASSUME undone' = op.id
        PROVE  Failed' \/ (Got(replies', "complete") /\ status = "E" /\ op.statement = "commit")
    <3>1. CASE c = "complete"
      <4>1. s = "commit" /\ server.tx = "E"
        BY <2>1, <2>3, <3>1 DEF Answer
      <4>2. status = "E"
        BY <1>0, <1>1, <4>1 DEF Knows, Known
      <4>. QED
        BY <1>4, <3>1, <4>1, <4>2
    <3>2. CASE c = "copyin"
      BY <2>1, <2>3, <3>2 DEF Answer
    <3>. QED
      BY <1>7, <3>1, <3>2
  <2>. QED
    BY <1>2, <1>3, <2>1, <2>2, <2>3 DEF Undone
<1>. QED
  BY <1>1, <1>4, <1>5, <1>6, <1>8, <1>9, <1>10

LEMMA ServeSync ==
  ASSUME Typed, Flow, InStep, causes = {}, pc # "closed", UNCHANGED <<caller, buffer>>, DoSync
  PROVE  (server.up /\ Round /\ RoundEnd /\ Knows /\ Stores /\ Undone /\ Rest)'
<1>0. /\ Takes("sync") /\ ~server.copying /\ server' = [server EXCEPT !.skip = FALSE]
      /\ portal' = (IF server.tx = "T" THEN portal ELSE Nothing)
      /\ Reply(Message.op, <<"ready">>, server.tx) /\ UNCHANGED <<unnamed, named, undone>>
  BY DEF DoSync
<1>1. /\ Round /\ RoundEnd /\ Knows /\ Stores /\ Undone /\ pc \notin Resting
      /\ \A u : Has(requests, u) <=> u = "sync" \/ Has(requests', u)
      /\ ~Got(replies, "ready")
      /\ server.up /\ Message.op = op /\ op \in Op
      /\ requests' = <<>> \/ (pc = "describe" /\ Len(requests') = 1 /\ requests'[1].type = "bind")
      /\ requests' \in Seq(Asks)
  BY <1>0, TakeStep, TakeIs
<1>2. /\ pc' = pc /\ op' = op /\ buffer' = buffer /\ status' = status /\ ended' = ended /\ error' = error
      /\ prepared' = prepared
  BY DEF caller
<1>3. /\ server'.up = server.up /\ server'.skip = FALSE /\ server'.copying = FALSE /\ server'.tx = server.tx
      /\ server.tx \in {"I", "T", "E"}
  BY <1>0 DEF Typed, ServerTyped
<1>4. /\ Len(replies) \in Nat /\ DOMAIN replies = 1 .. Len(replies)
      /\ Len(replies') = Len(replies) + 1 /\ DOMAIN replies' = 1 .. Len(replies) + 1
      /\ \A i \in 1 .. Len(replies) : replies'[i] = replies[i]
      /\ replies'[Len(replies) + 1] = [code |-> "ready", op |-> op, tx |-> server.tx]
      /\ \A d : Got(replies', d) <=> Got(replies, d) \/ d = "ready"
  <2> DEFINE c == "ready"   codes == <<"ready">>
  <2>1. /\ c \in Codes /\ codes \in {<<c>>, <<c>> \o <<>>} /\ Reply(op, codes, server.tx) /\ replies \in Seq(Answers)
        /\ op \in Op /\ server.tx \in {"I", "T", "E"}
    BY <1>0, <1>1, <1>3 DEF Codes, Typed, QueuesTyped
  <2> HIDE DEF codes
  <2>2. /\ replies' \in Seq(Answers)
        /\ Len(replies) \in Nat /\ DOMAIN replies = 1 .. Len(replies)
        /\ Len(replies') = Len(replies) + 1 /\ DOMAIN replies' = 1 .. Len(replies) + 1
        /\ \A i \in 1 .. Len(replies) : replies'[i] = replies[i]
        /\ replies'[Len(replies) + 1] = [code |-> c, op |-> op, tx |-> server.tx]
        /\ \A d : Got(replies', d) <=> Got(replies, d) \/ d = c
        /\ OneAnswer(replies) /\ (c = "copyin" => ~Got(replies, "copyin")) => OneAnswer(replies')
    BY ONLY <2>1, OneReply, Zenon
  <2>. QED
    BY ONLY <2>2
<1>5. Round' /\ Rest'
  BY <1>0, <1>3, ServeRound
<1>6. \A u : Has(requests', u) => pc = "describe" /\ u = "bind"
  <2>1. requests' = <<>> => \A u : ~Has(requests', u)
    BY DEF Has
  <2>2. Len(requests') = 1 => DOMAIN requests' = 1 .. 1
    BY <1>1, QueueIs
  <2>. QED
    BY <1>1, <2>1, <2>2 DEF Has
<1>7. RoundEnd'
  <2> SUFFICES ASSUME NEW i \in 1 .. Len(replies) + 1, replies'[i].code = "ready"
               PROVE  /\ ~Has(requests', "sync") /\ ~Has(requests', "query") /\ ~server'.copying
                      /\ i = Len(replies') /\ ~server'.skip /\ replies'[i].tx = server'.tx
    BY <1>4 DEF RoundEnd
  <2>1. i \notin 1 .. Len(replies)
    BY <1>1, <1>4 DEF Got
  <2>2. i = Len(replies) + 1
    BY <1>4, <2>1
  <2>3. replies'[i].tx = server.tx
    BY <1>4, <2>2
  <2>. QED
    BY <1>3, <1>4, <1>6, <2>2, <2>3
<1>8. Failed' <=> Failed
  BY <1>2, <1>4 DEF Failed
<1>9. Knows'
  BY <1>1, <1>2, <1>3, <1>6, <1>8 DEF Knows
<1>10. Stores'
  <2>1. pc = "describe" /\ buffer = <<>> => Has(requests', "bind")
    BY <1>1 DEF Round
  <2>2. ~Has(requests', "execute") /\ ~Has(requests', "close")
    BY <1>6
  <2>. QED
    BY <1>0, <1>1, <1>2, <1>8, <2>1, <2>2 DEF Stores
<1>11. Undone'
  BY <1>0, <1>1, <1>2, <1>4, <1>8 DEF Undone
<1>. QED
  BY <1>1, <1>3, <1>5, <1>7, <1>9, <1>10, <1>11

LEMMA ServeCopyEnd ==
  ASSUME Typed, Flow, InStep, causes = {}, pc # "closed", UNCHANGED <<caller, buffer>>, CopyEnds
  PROVE  (server.up /\ Round /\ RoundEnd /\ Knows /\ Stores /\ Undone /\ Rest)'
<1>0. /\ Takes("copydone") /\ server.copying /\ UNCHANGED <<unnamed, named, portal, undone>>
  BY DEF CopyEnds
<1>1. /\ Skipping /\ Round /\ RoundEnd /\ Knows /\ Stores /\ Undone /\ pc \notin Resting
      /\ \A u : Has(requests, u) <=> u = "copydone" \/ Has(requests', u)
      /\ ~Got(replies, "ready")
      /\ server.up /\ Message.op = op /\ op \in Op
      /\ ~Has(requests', "query") /\ ~Has(requests', "parse") /\ ~Has(requests', "close")
  BY <1>0, TakeStep, TakeIs
<1>2. /\ pc' = pc /\ op' = op /\ buffer' = buffer /\ status' = status /\ ended' = ended /\ error' = error
      /\ prepared' = prepared
  BY DEF caller
<1>3. PICK c \in {"complete", "error"}, tx \in {"I", "T", "E"} :
        /\ Reply(op, <<c>>, tx)
        /\ server'.copying = FALSE /\ server'.up = server.up
        /\ c = "complete" => server'.skip = server.skip /\ server'.tx = server.tx
        /\ c = "error" => server'.skip = TRUE
  <2>1. AfterFailure("other") \in {"I", "T", "E"} /\ server.tx \in {"I", "T", "E"}
    BY DEF AfterFailure, Typed, ServerTyped
  <2>2. server \in [tx : {"I", "T", "E"}, skip : BOOLEAN, copying : BOOLEAN, up : BOOLEAN]
    BY DEF Typed, ServerTyped
  <2>. QED
    BY <1>1, <2>1, <2>2 DEF CopyEnds
<1>4. /\ Len(replies) \in Nat /\ DOMAIN replies = 1 .. Len(replies)
      /\ Len(replies') = Len(replies) + 1 /\ DOMAIN replies' = 1 .. Len(replies) + 1
      /\ \A i \in 1 .. Len(replies) : replies'[i] = replies[i]
      /\ replies'[Len(replies) + 1] = [code |-> c, op |-> op, tx |-> tx]
      /\ \A d : Got(replies', d) <=> Got(replies, d) \/ d = c
  <2> DEFINE codes == <<c>>
  <2>1. /\ c \in Codes /\ codes \in {<<c>>, <<c>> \o <<>>} /\ Reply(op, codes, tx) /\ replies \in Seq(Answers)
        /\ op \in Op /\ tx \in {"I", "T", "E"}
    BY <1>1, <1>3 DEF Codes, Typed, QueuesTyped
  <2> HIDE DEF codes
  <2>2. /\ replies' \in Seq(Answers)
        /\ Len(replies) \in Nat /\ DOMAIN replies = 1 .. Len(replies)
        /\ Len(replies') = Len(replies) + 1 /\ DOMAIN replies' = 1 .. Len(replies) + 1
        /\ \A i \in 1 .. Len(replies) : replies'[i] = replies[i]
        /\ replies'[Len(replies) + 1] = [code |-> c, op |-> op, tx |-> tx]
        /\ \A d : Got(replies', d) <=> Got(replies, d) \/ d = c
        /\ OneAnswer(replies) /\ (c = "copyin" => ~Got(replies, "copyin")) => OneAnswer(replies')
    BY ONLY <2>1, OneReply, Zenon
  <2>. QED
    BY ONLY <2>2
<1>5. Round' /\ Rest'
  BY <1>0, <1>3, ServeRound
<1>6. pc \in {"simple", "execute", "named"} /\ \A u : Has(requests, u) => u \in InCopy
  BY <1>0, <1>1 DEF Round, Has
<1>7. RoundEnd'
  <2>1. ASSUME NEW i \in 1 .. Len(replies) + 1, replies'[i].code = "ready" PROVE FALSE
    <3>1. i \notin 1 .. Len(replies)
      BY <1>1, <1>4, <2>1 DEF Got
    <3>2. i = Len(replies) + 1
      BY <1>4, <3>1
    <3>3. replies'[i].code = c
      BY <1>4, <3>2
    <3>. QED
      BY <2>1, <3>3
  <2>. QED
    BY <1>4, <2>1 DEF RoundEnd
<1>8. ~Has(requests', "execute") /\ ~Has(requests', "bind") /\ ~server.skip
  BY <1>0, <1>1, <1>6 DEF InCopy, OfCopy, Skipping
<1>9. (Failed => Failed') /\ (server'.skip => Failed')
  BY <1>2, <1>3, <1>4, <1>8 DEF Failed
<1>10. Knows'
  BY <1>1, <1>2, <1>6, <1>8, <1>9 DEF Knows
<1>11. Stores'
  BY <1>0, <1>1, <1>2, <1>6, <1>8 DEF Stores
<1>12. Undone'
  BY <1>0, <1>1, <1>2, <1>4, <1>8, <1>9 DEF Undone
<1>. QED
  BY <1>1, <1>3, <1>5, <1>7, <1>10, <1>11, <1>12

LEMMA ParsedIs ==
  ASSUME NEW o \in Op, NEW p \in Op
  PROVE  /\ Parsed(o) # Nothing /\ Parsed(o).statement = o.statement
         /\ Parsed(o) = Parsed(p) => o.of = p.of /\ o.statement = p.statement
<1>1. o.statement # "none"
  BY DEF Op, Statements
<1>. QED
  BY <1>1 DEF Parsed, Nothing

LEMMA ServeInStep ==
  ASSUME Typed, Flow, InStep, Serve
  PROVE  InStep'
<1> DEFINE Now == server.up /\ Round /\ RoundEnd /\ Knows /\ Stores /\ Undone /\ Rest
<1> SUFFICES ASSUME causes = {}, pc # "closed", UNCHANGED <<caller, buffer>>
             PROVE  Now'
  <2>1. UNCHANGED <<caller, buffer, causes>>
    BY DEF Serve
  <2>. QED
    BY <2>1 DEF InStep, caller
<1>2. /\ pc' = pc /\ op' = op /\ buffer' = buffer /\ error' = error /\ prepared' = prepared
  BY DEF caller
<1>3. /\ server \in [tx : {"I", "T", "E"}, skip : BOOLEAN, copying : BOOLEAN, up : BOOLEAN]
      /\ named \in [Names -> Kept]
  BY DEF Typed, ServerTyped
<1>4. ASSUME NEW t, Takes(t), UNCHANGED <<server, replies, undone>>, Stores' PROVE Now'
  <2>1. (server.up /\ Round /\ RoundEnd /\ Knows /\ Undone /\ Rest)'
    BY <1>4, ServeQuietly
  <2>. QED
    BY <1>4, <2>1
<1>5. ASSUME NEW t, t \in {"parse", "describe", "bind", "execute"}, Works(t), Refuses PROVE Now'
  BY <1>5, ServeRefusal
<1>6. ASSUME NEW t, Takes(t)
      PROVE  /\ Requested /\ Skipping /\ Copies /\ Round /\ Knows /\ Stores
             /\ pc \notin Resting /\ op \in Op /\ op.id = NextId /\ Message.op = op /\ t \in RoundTypes
             /\ \A u : Has(requests, u) <=> u = t \/ Has(requests', u)
             /\ pc = "describe" /\ t = "bind" => requests' = <<>>
             /\ ~Has(requests', "query") /\ ~Has(requests', "parse") /\ ~Has(requests', "close")
             /\ pc # "describe" => ~Has(requests', "bind") /\ (t # "bind" => ~Has(requests', "execute"))
  BY <1>6, TakeStep
<1>7. ASSUME NEW t, Takes(t)
      PROVE  /\ op.name = 0 <=> op.kind \in {"simple", "unnamed"}
             /\ op.kind = (IF pc \in Unnamed THEN "unnamed" ELSE pc)
             /\ op.name \in Names \cup {0}
             /\ \A p \in prepared : p \in Op /\ p.name \in Names
             /\ t # "terminate"
  BY <1>6, <1>7 DEF Typed, CallerTyped, Op, RoundTypes, InCopy, OfCopy
<1> HIDE DEF Now
<1>8. CASE DoQuery
  <2> DEFINE s == Message.op.statement   ending == <<"ready">>
  <2>1. /\ Takes("query") /\ Works("query") /\ ending = (IF TRUE THEN <<"ready">> ELSE <<>>)
        /\ Executes(Message.op, s, ending) /\ UNCHANGED <<unnamed, named, portal>>
    BY <1>8 DEF DoQuery, Works
  <2>2. s = op.statement /\ s \in Statements \cup {"none"}
    BY <1>6, <2>1 DEF Op
  <2> HIDE DEF s, ending
  <2>3. (\E c \in {"complete", "copyin", "error"} : Answer(c, s, TRUE)) /\ undone' \in Ids \cup {0}
    BY <2>1, <2>2, ExecutesIs
  <2>. QED
    BY <2>1, <2>2, <2>3, ServeStatement DEF Now
<1>9. CASE DoParse
  <2>1. Works("parse") /\ Takes("parse")
    BY <1>9 DEF DoParse, Works
  <2>2. CASE Refuses
    BY <1>5, <2>1, <2>2
  <2>3. CASE ~Refuses
    <3>1. /\ op.name # 0 => named[op.name] = Nothing
          /\ IF op.name = 0 THEN unnamed' = Parsed(op) /\ UNCHANGED named
             ELSE named' = [named EXCEPT ![op.name] = Parsed(op)] /\ UNCHANGED unnamed
          /\ UNCHANGED <<server, portal, undone, replies>>
      BY <1>6, <1>9, <2>1, <2>3 DEF DoParse
    <3>2. Failed' <=> Failed
      BY <1>2, <3>1 DEF Failed
    <3>3. pc \in {"parse", "prepare"} /\ (pc = "parse" <=> op.name = 0) /\ op.name \in Names \cup {0}
      BY <1>6, <1>7, <2>1 DEF RoundTypes, InCopy, OfCopy, Unnamed
    <3>4. ~Has(requests', "bind") /\ ~Has(requests', "execute") /\ ~Has(requests', "close")
      BY <1>6, <2>1, <3>3
    <3>5. \A p \in prepared' : named'[p.name] = Parsed(p)
      <4> SUFFICES ASSUME NEW p \in prepared PROVE named'[p.name] = Parsed(p)
        BY <1>2
      <4>1. named[p.name] = Parsed(p) /\ Parsed(p) # Nothing /\ p.name # 0
        BY <1>6, <1>7, <2>1, <3>3, ParsedIs DEF Stores, Names
      <4>2. p.name \in Names
        BY <1>7, <2>1
      <4>3. CASE op.name = 0
        BY <3>1, <4>1, <4>3
      <4>4. CASE op.name # 0
        <5>1. p.name # op.name /\ named' = [named EXCEPT ![op.name] = Parsed(op)]
          BY <3>1, <4>1, <4>4
        <5>2. named'[p.name] = named[p.name]
          BY <1>3, <4>2, <5>1
        <5>. QED
          BY <4>1, <5>2
      <4>. QED
        BY <4>3, <4>4
    <3>6. Stores'
      BY <1>2, <1>3, <3>1, <3>2, <3>3, <3>4, <3>5 DEF Stores
    <3>. QED
      BY <1>4, <2>1, <3>1, <3>6
  <2>. QED
    BY <2>2, <2>3
<1>10. CASE DoDescribe
  <2>1. Works("describe") /\ Takes("describe")
    BY <1>10 DEF DoDescribe, Works
  <2>2. CASE Refuses
    BY <1>5, <2>1, <2>2
  <2>3. CASE ~Refuses
    <3>1. UNCHANGED <<backend, replies>>
      BY <1>10, <2>3 DEF DoDescribe
    <3>2. Failed' <=> Failed
      BY <1>2, <3>1 DEF Failed
    <3>3. pc = "describe" /\ buffer = <<>> => Has(requests', "bind")
      BY <1>6, <2>1 DEF Round
    <3>4. Stores'
      BY <1>2, <1>6, <2>1, <3>1, <3>2, <3>3 DEF Stores, backend
    <3>. QED
      BY <1>4, <2>1, <3>1, <3>4 DEF backend
  <2>. QED
    BY <2>2, <2>3
<1>11. CASE DoBind
  <2>1. Works("bind") /\ Takes("bind")
    BY <1>11 DEF DoBind, Works
  <2>2. CASE Refuses
    BY <1>5, <2>1, <2>2
  <2>3. CASE ~Refuses
    <3>1. portal' = Target /\ UNCHANGED <<server, unnamed, named, undone, replies>>
      BY <1>11, <2>3 DEF DoBind
    <3>2. Failed' <=> Failed
      BY <1>2, <3>1 DEF Failed
    <3>3. pc \in {"describe", "named", "execute"} /\ (op.name = 0 <=> pc # "named")
      BY <1>6, <1>7, <2>1 DEF RoundTypes, InCopy, OfCopy, Unnamed
    <3>4. Target = Parsed(op)
      BY <1>6, <2>1, <3>3 DEF Stores, Target
    <3>5. Stores'
      BY <1>2, <1>6, <2>1, <3>1, <3>2, <3>3, <3>4 DEF Stores
    <3>. QED
      BY <1>4, <2>1, <3>1, <3>5
  <2>. QED
    BY <2>2, <2>3
<1>12. CASE DoExecute
  <2>1. Works("execute") /\ Takes("execute")
    BY <1>12 DEF DoExecute, Works
  <2>2. CASE portal = Nothing
    BY <1>5, <1>12, <2>1, <2>2 DEF DoExecute
  <2>3. CASE portal # Nothing
    <3> DEFINE s == portal.statement   ending == <<>>
    <3>1. /\ Executes(Message.op, s, ending) /\ UNCHANGED <<unnamed, named, portal>>
          /\ ending = (IF FALSE THEN <<"ready">> ELSE <<>>)
      BY <1>12, <2>3 DEF DoExecute
    <3>2. pc \in {"execute", "named"}
      BY <1>6, <2>1 DEF RoundTypes, InCopy, OfCopy
    <3>3. portal = Parsed(op)
      BY <1>6, <2>1, <3>2 DEF Stores, Works
    <3>4. s = op.statement /\ s \in Statements \cup {"none"}
      BY <1>6, <2>1, <3>3, ParsedIs DEF Op
    <3> HIDE DEF s, ending
    <3>5. (\E c \in {"complete", "copyin", "error"} : Answer(c, s, FALSE)) /\ undone' \in Ids \cup {0}
      BY <2>1, <3>1, <3>4, ExecutesIs
    <3>6. PICK c \in {"complete", "copyin", "error"} : Answer(c, s, FALSE)
      BY <3>5
    <3>7. "execute" \in {"query", "execute"} /\ FALSE \in BOOLEAN /\ (FALSE <=> "execute" = "query")
      OBVIOUS
    <3>. QED
      BY <2>1, <3>1, <3>4, <3>5, <3>6, <3>7, ServeStatement, Zenon DEF Now
  <2>. QED
    BY <2>2, <2>3
<1>13. CASE DoClose
  <2>1. /\ Works("close") /\ Takes("close") /\ named' = [named EXCEPT ![Message.op.name] = Nothing]
        /\ UNCHANGED <<server, unnamed, portal, undone, replies>>
    BY <1>13 DEF DoClose, Works
  <2>2. Failed' <=> Failed
    BY <1>2, <2>1 DEF Failed
  <2>3. pc = "close" /\ named[op.name] = Parsed(op) /\ Message.op = op
    BY <1>6, <2>1 DEF RoundTypes, InCopy, OfCopy, Stores
  <2>4. ASSUME NEW p \in prepared PROVE named'[p.name] = Parsed(p) \/ p.of = op.of
    <3>1. named[p.name] = Parsed(p) \/ p.of = op.of
      BY <1>6, <2>1 DEF Stores
    <3>2. p.name = op.name /\ named[p.name] = Parsed(p) => p.of = op.of
      <4>1. p \in Op /\ op \in Op
        BY <1>6, <1>7, <2>1
      <4>2. Parsed(op) = Parsed(p) => op.of = p.of
        BY <4>1, ParsedIs
      <4>. QED
        BY <2>3, <4>2
    <3>. QED
      BY <1>3, <1>7, <2>1, <2>3, <3>1, <3>2
  <2>5. ~Has(requests', "bind") /\ ~Has(requests', "execute") /\ ~Has(requests', "close")
    BY <1>6, <2>1, <2>3
  <2>6. Stores'
    BY <1>2, <2>1, <2>3, <2>4, <2>5 DEF Stores
  <2>. QED
    BY <1>4, <2>1, <2>6
<1>14. CASE DoSync
  BY <1>14, ServeSync DEF Now
<1>15. CASE Skip
  <2>1. PICK t \in Types \ {"sync", "terminate"} : Takes(t)
    BY <1>15 DEF Skip
  <2>2. server.skip /\ UNCHANGED <<backend, replies>>
    BY <1>15 DEF Skip
  <2>3. Failed
    BY <1>6, <2>1, <2>2 DEF Knows
  <2>4. Failed' <=> Failed
    BY <1>2, <2>2 DEF Failed
  <2>5. Stores'
    BY <1>2, <1>6, <2>1, <2>2, <2>3, <2>4 DEF Stores, backend
  <2>. QED
    BY <1>4, <2>1, <2>2, <2>5 DEF backend
<1>16. CASE CopyMore
  <2>1. /\ UNCHANGED <<backend, replies>>
        /\ \/ server.copying /\ (Takes("copydata") \/ Takes("sync"))
           \/ Works("copydata") \/ Works("copydone")
    BY <1>16 DEF CopyMore
  <2>2. ASSUME NEW t, t \in {"copydata", "copydone", "sync"}, Takes(t), t = "sync" => server.copying
        PROVE  Now'
    <3>1. Failed' <=> Failed
      BY <1>2, <2>1 DEF Failed
    <3>2. pc # "describe"
      BY <1>6, <2>2 DEF Round, RoundTypes
    <3>3. Stores'
      BY <1>2, <1>6, <2>1, <2>2, <3>1, <3>2 DEF Stores, backend
    <3>. QED
      BY <1>4, <2>1, <2>2, <3>3 DEF backend
  <2>. QED
    BY <2>1, <2>2 DEF Works
<1>17. CASE CopyEnds
  BY <1>17, ServeCopyEnd DEF Now
<1>18. CASE CopyInterrupted
  <2>1. server.copying /\ \E t \in Types \ {"copydata", "copydone", "sync", "terminate"} : Takes(t)
    BY <1>18 DEF CopyInterrupted
  <2>2. PICK t \in Types \ {"copydata", "copydone", "sync", "terminate"} : Takes(t)
    BY <2>1
  <2>3. t \in InCopy
    BY <1>6, <2>1, <2>2, TakeIs DEF Round
  <2>. QED
    BY <2>2, <2>3 DEF InCopy, OfCopy
<1>19. CASE Terminate
  BY <1>7, <1>19 DEF Terminate
<1>. QED
  BY <1>8, <1>9, <1>10, <1>11, <1>12, <1>13, <1>14, <1>15, <1>16, <1>17, <1>18, <1>19 DEF Serve

-----------------------------------------------------------------------------
(* The two sides in step: the client.                                          *)

LEMMA BatchFits ==
  ASSUME NEW o \in Op, NEW types \in Wholes \cup {<<"bind">>, <<"copydata">>}, NEW m, m = Messages(o, types)
  PROVE  /\ m \in Seq(Asks) /\ m # <<>> /\ m[1].type = types[1] /\ (\A b : Linked(m, b))
         /\ \A i \in DOMAIN m : m[i].op = o /\ Has(m, m[i].type)
<1>1. /\ m \in Seq(Asks) /\ m # <<>> /\ m[1].type = types[1]
      /\ \A i \in DOMAIN m : m[i].op = o /\ m[i].type = types[i]
      /\ \A b : Linked(m, b)
  BY BatchIs
<1>. QED
  BY <1>1 DEF Has

LEMMA BeginInStep ==
  ASSUME Typed, Flow, InStep, NEW o \in Op, NEW types \in Wholes, Begin(o, types), o.id = NextId,
         \/ o.kind = "simple" /\ types = <<"query">>
         \/ o.kind = "unnamed" /\ types = <<"parse", "sync">>
         \/ o.kind = "prepare" /\ types = <<"parse", "describe", "sync">>
         \/ o.kind = "named" /\ types = <<"bind", "execute", "sync">>
         \/ o.kind = "close" /\ types = <<"close", "sync">>,
         o.kind \in {"named", "close"} => \E p \in prepared : p.name = o.name /\ Parsed(p) = Parsed(o)
  PROVE  InStep'
<1>1. /\ pc = "idle" /\ op' = o /\ pc' = (IF o.kind = "unnamed" THEN "parse" ELSE o.kind) /\ error' = FALSE
      /\ Flush(o, types) /\ UNCHANGED <<status, prepared, ended, replies, backend, causes>>
  BY DEF Begin, CanBegin
<1> SUFFICES ASSUME causes = {}
             PROVE  (server.up /\ Round /\ RoundEnd /\ Knows /\ Stores /\ Undone /\ Rest)'
  BY <1>1 DEF InStep
<1>2. /\ server.up /\ Stores /\ Undone
      /\ requests = <<>> /\ replies = <<>> /\ buffer = <<>> /\ ~server.skip /\ ~server.copying /\ Known
  BY <1>1 DEF InStep, Rest
<1> DEFINE m == Messages(o, types)
<1>3. m = Messages(o, types) /\ types \in Wholes \cup {<<"bind">>, <<"copydata">>}
  OBVIOUS
<1>4. \A u : Has(m, u) =>
        \/ o.kind = "simple" /\ u = "query"
        \/ o.kind = "unnamed" /\ u \in {"parse", "sync"}
        \/ o.kind = "prepare" /\ u \in {"parse", "describe", "sync"}
        \/ o.kind = "named" /\ u \in {"bind", "execute", "sync"}
        \/ o.kind = "close" /\ u \in {"close", "sync"}
  BY BatchHas
<1>5. /\ o.kind \in {"unnamed", "prepare"} => Has(m, "parse")
      /\ o.kind = "named" => Has(m, "bind")
  BY BatchHas
<1> HIDE DEF m
<1>6. /\ m \in Seq(Asks) /\ m # <<>> /\ (\A b : Linked(m, b))
      /\ \A i \in DOMAIN m : m[i].op = o /\ Has(m, m[i].type)
  BY <1>3, BatchFits
<1>7. requests' = m /\ buffer' = <<>>
  <2>1. /\ buffer' = <<>>
        /\ requests = <<>> /\ buffer = <<>> => requests' = Messages(o, types) /\ Head(requests').type = types[1]
    BY <1>1, <1>3, FlushIs
  <2>. QED
    BY <1>2, <1>3, <2>1
<1>8. server' = server /\ named' = named /\ status' = status /\ prepared' = prepared /\ ended' = ended
      /\ undone' = undone /\ replies' = <<>> /\ op' = o
  BY <1>1, <1>2 DEF backend
<1>9. /\ pc' \in {"simple", "parse", "prepare", "named", "close"}
      /\ pc' = "parse" <=> o.kind = "unnamed"
      /\ pc' # "parse" => pc' = o.kind
  BY <1>1
<1>10. Round'
  <2>1. \A u : Has(m, u) => u \in RoundTypes'
    BY <1>4, <1>9 DEF RoundTypes
  <2>2. \A i \in DOMAIN m : m[i].op = o /\ m[i].type \in RoundTypes'
    BY <1>6, <2>1
  <2>3. Linked(m, pc' = "describe")
    BY <1>6
  <2>4. pc' # "describe" /\ buffer' = <<>> /\ ~server'.copying
    BY <1>2, <1>7, <1>8, <1>9
  <2>. QED
    BY <1>7, <1>8, <2>2, <2>3, <2>4 DEF Round
<1>11. RoundEnd'
  BY <1>8 DEF RoundEnd
<1>12. ~Failed'
  BY <1>1, <1>8 DEF Failed, Got
<1>13. Knows'
  BY <1>2, <1>8, <1>12 DEF Knows, Known
<1>14. Stores'
  <2>1. \A p \in prepared : named[p.name] = Parsed(p)
    BY <1>1, <1>2 DEF Stores
  <2>2. o.kind \in {"named", "close"} => named[o.name] = Parsed(o)
    BY <2>1
  <2>3. /\ pc' = "parse" => Has(requests', "parse")
        /\ pc' = "prepare" => Has(requests', "parse")
        /\ pc' = "named" => Has(requests', "bind")
        /\ Has(requests', "execute") => pc' = "named"
        /\ Has(requests', "close") => pc' = "close"
    BY <1>4, <1>5, <1>7, <1>9
  <2>. QED
    BY <1>8, <1>9, <2>1, <2>2, <2>3 DEF Stores
<1>15. Undone'
  <2>1. undone <= ended.ops /\ undone \in Nat /\ ended.ops \in Nat /\ o.id = ended.ops + 1
    BY <1>1, <1>2, ConstantsAssumption DEF Undone, Typed, ServerTyped, CallerTyped, NextId, Ids
  <2>2. undone' <= ended'.ops + 1 /\ undone' # op'.id
    BY <1>8, <2>1
  <2>. QED
    BY <1>9, <2>2 DEF Undone
<1>. QED
  BY <1>2, <1>8, <1>9, <1>10, <1>11, <1>13, <1>14, <1>15 DEF Rest

LEMMA BeginsInStep ==
  ASSUME Typed, Flow, InStep,
         \/ \E s \in Statements : ExecuteSimple(s) \/ PrepareStatement(s)
         \/ \E s \in Statements : \E stream \in {FALSE, s = "copyin"} : ExecuteUnnamed(s, stream)
         \/ \E p \in prepared : ExecuteNamed(p) \/ ClosePreparedStatement(p)
  PROVE  InStep'
<1>0. ASSUME NEW o, NEW types, Begin(o, types) PROVE pc = "idle" /\ NextId \in Ids
  BY <1>0 DEF Begin, CanBegin
<1>1. pc = "idle" /\ NextId \in Ids
  <2>1. \A s : ExecuteSimple(s) \/ PrepareStatement(s) => pc = "idle" /\ NextId \in Ids
    BY <1>0 DEF ExecuteSimple, PrepareStatement
  <2>2. \A s, stream : ExecuteUnnamed(s, stream) => pc = "idle" /\ NextId \in Ids
    BY <1>0 DEF ExecuteUnnamed
  <2>3. \A p : ExecuteNamed(p) \/ ClosePreparedStatement(p) => pc = "idle" /\ NextId \in Ids
    BY <1>0, Zenon DEF ExecuteNamed, ClosePreparedStatement
  <2>. QED
    BY <2>1, <2>2, <2>3
<1>2. /\ nums \subseteq 1 .. ended.ops /\ ended.ops \in Nat /\ NextId = ended.ops + 1
      /\ \A p \in prepared : p \in Op
  BY <1>1, ConstantsAssumption DEF Typed, CallerTyped, Resting, NextId
<1>5. ASSUME NEW s \in Statements, ExecuteSimple(s) PROVE InStep'
  <2> DEFINE o == [id |-> NextId, kind |-> "simple", statement |-> s, stream |-> FALSE, name |-> 0, of |-> 0]
             types == <<"query">>
  <2>1. /\ o \in Op /\ o.id = NextId /\ o.kind = "simple" /\ types = <<"query">> /\ types \in Wholes
    BY <1>1 DEF Op, Kinds, Wholes
  <2>2. Begin(o, types)
    BY <1>5 DEF ExecuteSimple
  <2> HIDE DEF o, types
  <2>. QED
    BY <2>1, <2>2, BeginInStep
<1>6. ASSUME NEW s \in Statements, NEW stream \in BOOLEAN, ExecuteUnnamed(s, stream) PROVE InStep'
  <2> DEFINE o == [id |-> NextId, kind |-> "unnamed", statement |-> s, stream |-> stream, name |-> 0, of |-> 0]
             types == <<"parse", "sync">>
  <2>1. /\ o \in Op /\ o.id = NextId /\ o.kind = "unnamed" /\ types = <<"parse", "sync">> /\ types \in Wholes
    BY <1>1 DEF Op, Kinds, Wholes
  <2>2. Begin(o, types)
    BY <1>6 DEF ExecuteUnnamed
  <2> HIDE DEF o, types
  <2>. QED
    BY <2>1, <2>2, BeginInStep
<1>7. ASSUME NEW s \in Statements, PrepareStatement(s) PROVE InStep'
  <2> DEFINE n == LowestFree(nums)   types == <<"parse", "describe", "sync">>
             o == [id |-> NextId, kind |-> "prepare", statement |-> s, stream |-> FALSE, name |-> n, of |-> NextId]
  <2>1. Begin(o, types)
    BY <1>7 DEF PrepareStatement
  <2>2. n \in Names
    <3>1. LowestFree(nums) \in 1 .. NextId
      BY <1>1, <1>2, LowestIs
    <3>. QED
      BY <1>1, <1>2, <3>1, ConstantsAssumption DEF Ids, Names
  <2> HIDE DEF n
  <2>3. /\ o \in Op /\ o.id = NextId /\ o.kind = "prepare"
        /\ types = <<"parse", "describe", "sync">> /\ types \in Wholes
    BY <1>1, <2>2 DEF Op, Kinds, Wholes
  <2> HIDE DEF o, types
  <2>. QED
    BY <2>1, <2>3, BeginInStep
<1>8. ASSUME NEW p \in prepared, NEW k \in {"named", "close"}, NEW types \in Wholes,
             \/ k = "named" /\ types = <<"bind", "execute", "sync">>
             \/ k = "close" /\ types = <<"close", "sync">>,
             Begin([p EXCEPT !.id = NextId, !.kind = k], types)
      PROVE  InStep'
  <2> DEFINE o == [p EXCEPT !.id = NextId, !.kind = k]
  <2>1. /\ o \in Op /\ o.id = NextId /\ o.kind = k /\ o.name = p.name /\ o.of = p.of /\ o.statement = p.statement
    BY <1>1, <1>2 DEF Op, Kinds
  <2>2. Begin(o, types)
    BY <1>8
  <2> HIDE DEF o
  <2>3. p.name = o.name /\ Parsed(p) = Parsed(o)
    BY <2>1 DEF Parsed
  <2>. QED
    BY <1>8, <2>1, <2>2, <2>3, BeginInStep
<1>9. ASSUME NEW p \in prepared, ExecuteNamed(p) PROVE InStep'
  <2> DEFINE types == <<"bind", "execute", "sync">>
  <2>1. types \in Wholes /\ types = <<"bind", "execute", "sync">> /\ "named" \in {"named", "close"} /\ "named" = "named"
    BY DEF Wholes
  <2>2. Begin([p EXCEPT !.id = NextId, !.kind = "named"], types)
    BY <1>9, Zenon DEF ExecuteNamed
  <2> HIDE DEF types
  <2>. QED
    BY ONLY <1>8, p \in prepared, <2>1, <2>2, Zenon
<1>10. ASSUME NEW p \in prepared, ClosePreparedStatement(p) PROVE InStep'
  <2> DEFINE types == <<"close", "sync">>
  <2>1. types \in Wholes /\ types = <<"close", "sync">> /\ "close" \in {"named", "close"} /\ "close" = "close"
    BY DEF Wholes
  <2>2. Begin([p EXCEPT !.id = NextId, !.kind = "close"], types)
    BY <1>10, Zenon DEF ClosePreparedStatement
  <2> HIDE DEF types
  <2>. QED
    BY ONLY <1>8, p \in prepared, <2>1, <2>2, Zenon
<1>. QED
  BY <1>5, <1>6, <1>7, <1>9, <1>10

LEMMA BindInStep ==
  ASSUME Typed, Flow, InStep, SendBind
  PROVE  InStep'
<1>1. /\ pc = "binding" /\ pc' = "describe" /\ op \in Op
      /\ UNCHANGED <<op, error, status, nums, prepared, ended, replies, backend, causes>>
  BY DEF SendBind, Typed, CallerTyped, Resting
<1> SUFFICES ASSUME causes = {}
             PROVE  (server.up /\ Round /\ RoundEnd /\ Knows /\ Stores /\ Undone /\ Rest)'
  BY <1>1 DEF InStep
<1>2. /\ server.up /\ Round /\ RoundEnd /\ Knows /\ Stores /\ Undone /\ Requested /\ buffer = <<>>
  BY <1>1 DEF InStep, Flow, Requested
<1>3. /\ server' = server /\ named' = named /\ unnamed' = unnamed /\ status' = status /\ prepared' = prepared
      /\ ended' = ended /\ undone' = undone /\ replies' = replies /\ op' = op /\ error' = error /\ pc' = "describe"
  BY <1>1 DEF backend
<1> DEFINE types == <<"bind">>   m == Messages(op, types)
<1>4. m = Messages(op, types) /\ types \in Wholes \cup {<<"bind">>, <<"copydata">>} /\ types[1] = "bind"
      /\ types = <<"bind">> /\ Len(types) = 1
  OBVIOUS
<1>5. \A u : Has(m, u) <=> u = "bind"
  BY <1>1, BatchHas
<1> HIDE DEF m, types
<1>6. /\ m \in Seq(Asks) /\ m # <<>> /\ m[1].type = "bind" /\ (\A b : Linked(m, b))
      /\ \A i \in DOMAIN m : m[i].op = op /\ m[i].type = "bind"
  BY <1>1, <1>4, <1>5, BatchFits
<1>7. /\ requests \in Seq(Asks) /\ Linked(requests, FALSE) /\ ~server.copying /\ Followed(requests, FALSE)
      /\ \A i \in DOMAIN requests : requests[i].op = op /\ requests[i].type \in {"describe", "sync"}
  <2>1. (pc = "describe") = FALSE
    BY <1>1
  <2>2. RoundTypes = {"describe", "sync"}
    BY <1>1 DEF RoundTypes
  <2>3. Linked(requests, FALSE) /\ Followed(requests, FALSE)
    BY <1>2, <2>1 DEF Round, Requested
  <2>4. ~server.copying
    BY <1>1, <1>2 DEF Round
  <2>. QED
    BY <1>2, <2>2, <2>3, <2>4 DEF Round, Typed, QueuesTyped
<1>8. Linked(requests, TRUE)
  BY <1>7 DEF Linked, Precedes
<1>9. \/ buffer' = m /\ requests' = requests
      \/ buffer' = <<>> /\ requests' = requests \o m
  <2>1. CASE buffer' = buffer \o Messages(op, <<"bind">>) /\ UNCHANGED requests
    BY <1>2, <1>4, <1>6, <2>1, ConcatEmptySeq
  <2>2. CASE Flush(op, <<"bind">>)
    <3>1. buffer' = <<>> /\ requests' = requests \o <<>> \o m
      BY <1>2, <1>4, <2>2 DEF Flush
    <3>. QED
      BY <1>7, <3>1, ConcatEmptySeq
  <2>. QED
    BY <2>1, <2>2 DEF SendBind
<1>10. \A u : Has(requests, u) => u \in {"describe", "sync"}
  BY <1>7 DEF Has
<1>11. /\ \A u : Has(requests', u) => Has(requests, u) \/ u = "bind"
       /\ buffer' = <<>> => Has(requests', "bind")
       /\ buffer' # <<>> => buffer' = m /\ ~Has(requests', "bind")
       /\ Linked(requests', TRUE)
       /\ \A i \in DOMAIN requests' : requests'[i].op = op /\ requests'[i].type \in {"describe", "sync", "bind"}
  <2>1. CASE buffer' = m /\ requests' = requests
    BY <1>6, <1>7, <1>8, <1>10, <2>1
  <2>2. CASE buffer' = <<>> /\ requests' = requests \o m
    <3>1. /\ \A u : Has(requests \o m, u) <=> Has(requests, u) \/ Has(m, u)
          /\ \A b : Linked(requests, b) /\ Linked(m, b)
                    /\ (requests # <<>> /\ m # <<>> => requests[Len(requests)].type \in Precedes(m[1].type, b))
                    => Linked(requests \o m, b)
      BY <1>6, <1>7, JoinedTo
    <3>2. requests # <<>> => requests[Len(requests)].type = "sync"
      <4>1. requests # <<>> => Len(requests) \in DOMAIN requests
        BY <1>7, QueueIs
      <4>. QED
        BY <1>7, <4>1 DEF Followed, Extended
    <3>3. Linked(requests', TRUE)
      BY <1>6, <1>8, <2>2, <3>1, <3>2 DEF Precedes
    <3>4. /\ Len(requests) \in Nat /\ Len(m) \in Nat
          /\ DOMAIN requests = 1 .. Len(requests) /\ DOMAIN m = 1 .. Len(m)
          /\ DOMAIN (requests \o m) = 1 .. Len(requests) + Len(m)
          /\ \A i \in 1 .. Len(requests) : (requests \o m)[i] = requests[i]
          /\ \A i \in 1 .. Len(m) : (requests \o m)[Len(requests) + i] = m[i]
      BY <1>6, <1>7, ConcatIs
    <3>5. ASSUME NEW i \in DOMAIN requests'
          PROVE  requests'[i].op = op /\ requests'[i].type \in {"describe", "sync", "bind"}
      <4>1. CASE i \in 1 .. Len(requests)
        BY <1>7, <2>2, <3>4, <4>1
      <4>2. CASE i \notin 1 .. Len(requests)
        <5>1. PICK j \in 1 .. Len(m) : i = Len(requests) + j
          <6>1. i - Len(requests) \in 1 .. Len(m) /\ i = Len(requests) + (i - Len(requests))
            BY <2>2, <3>4, <4>2
          <6>. QED
            BY <6>1
        <5>2. (requests \o m)[Len(requests) + j] = m[j]
          BY <3>4
        <5>. QED
          BY <1>6, <2>2, <3>4, <5>1, <5>2
      <4>. QED
        BY <4>1, <4>2
    <3>. QED
      BY <1>5, <2>2, <3>1, <3>3, <3>5
  <2>. QED
    BY <1>9, <2>1, <2>2
<1>12. Round'
  <2>1. Linked(requests', pc' = "describe")
    <3>1. (pc' = "describe") = TRUE
      BY <1>3
    <3>. QED
      BY <1>11, <3>1
  <2>2. RoundTypes' = {"describe", "sync", "bind"}
    BY <1>3 DEF RoundTypes
  <2>. QED
    BY <1>3, <1>4, <1>7, <1>11, <2>1, <2>2 DEF Round, types
<1>13. RoundEnd'
  BY <1>1, <1>2, <1>3, <1>11 DEF RoundEnd
<1>14. Failed' <=> Failed
  BY <1>3 DEF Failed
<1>15. Knows'
  BY <1>2, <1>3, <1>10, <1>11, <1>14 DEF Knows
<1>16. Stores'
  BY <1>1, <1>2, <1>3, <1>10, <1>11, <1>14 DEF Stores
<1>17. Undone'
  BY <1>1, <1>2, <1>3 DEF Undone
<1>. QED
  BY <1>2, <1>3, <1>12, <1>13, <1>15, <1>16, <1>17 DEF Rest

(* The client takes a reply. *)
LEMMA HearStep ==
  ASSUME Typed, Flow, InStep, causes = {}, NEW c, Receives(c), replies' = Tail(replies), UNCHANGED backend
  PROVE  /\ server.up /\ Round /\ RoundEnd /\ Knows /\ Stores /\ Undone
         /\ Requested /\ Skipping /\ Copies
         /\ pc \in Reading /\ pc \notin Resting /\ op \in Op /\ op.id = NextId /\ ended.ops \in Nat
         /\ op.kind = (IF pc \in Unnamed THEN "unnamed" ELSE pc)
         /\ \A d : Got(replies, d) <=> d = c \/ Got(replies', d)
         /\ UNCHANGED pc /\ requests' = requests => RoundEnd'
         /\ c = "ready" =>
              /\ ~server.copying /\ ~Got(replies', "ready")
              /\ requests = <<>> \/ (pc = "describe" /\ Len(requests) = 1 /\ requests[1].type = "bind")
              /\ IF replies' = <<>> THEN ~server.skip /\ Head(replies).tx = server.tx
                 ELSE pc = "describe" /\ server.skip /\ Got(replies', "error")
<1>1. /\ pc \in Reading /\ pc \notin Resting /\ replies # <<>> /\ Head(replies) = replies[1] /\ replies[1].code = c
      /\ 1 \in DOMAIN replies
      /\ \A d : Got(replies, d) <=> d = c \/ Got(replies', d)
  BY HeardIs
<1>2. /\ op \in Op /\ op.id = NextId /\ ended.ops \in Nat
      /\ op.kind = (IF pc \in Unnamed THEN "unnamed" ELSE pc)
  BY <1>1, ConstantsAssumption DEF Typed, CallerTyped
<1>3. /\ server.up /\ Round /\ RoundEnd /\ Knows /\ Stores /\ Undone
  BY <1>1 DEF InStep, Resting
<1>4. Requested /\ Skipping /\ Copies
  BY <1>1, <1>3 DEF Flow, Resting
<1> DEFINE n == Len(replies)
<1>5. /\ n \in Nat \ {0} /\ DOMAIN replies = 1 .. n /\ DOMAIN replies' = 1 .. n - 1 /\ Len(replies') = n - 1
      /\ \A i \in 1 .. n - 1 : replies'[i] = replies[i + 1]
      /\ replies' = <<>> <=> n = 1
  <2>1. replies \in Seq(Answers)
    BY DEF Typed, QueuesTyped
  <2>2. /\ Tail(replies) \in Seq(Answers) /\ Len(replies) \in Nat \ {0} /\ Len(Tail(replies)) = Len(replies) - 1
        /\ \A i \in 1 .. Len(replies) - 1 : Tail(replies)[i] = replies[i + 1]
        /\ DOMAIN replies = 1 .. Len(replies) /\ DOMAIN Tail(replies) = 1 .. Len(replies) - 1
    BY <1>1, <2>1, TailIs
  <2>3. Tail(replies) = <<>> <=> Len(Tail(replies)) = 0
    BY <2>2, QueueIs
  <2>. QED
    BY <2>2, <2>3
<1> HIDE DEF n
<1>6. ASSUME UNCHANGED pc, requests' = requests PROVE RoundEnd'
  <2> SUFFICES ASSUME NEW i \in 1 .. n - 1, replies'[i].code = "ready"
               PROVE  /\ ~Has(requests, "sync") /\ ~Has(requests, "query") /\ ~server.copying
                      /\ IF i = n - 1 THEN ~server.skip /\ replies'[i].tx = server.tx
                         ELSE pc = "describe" /\ i + 1 = n - 1 /\ replies'[i + 1].code = "error" /\ server.skip
    BY <1>5, <1>6 DEF RoundEnd, backend
  <2>1. i + 1 \in DOMAIN replies /\ replies'[i] = replies[i + 1] /\ n = Len(replies)
    BY <1>5 DEF n
  <2>2. /\ ~Has(requests, "sync") /\ ~Has(requests, "query") /\ ~server.copying
        /\ IF i + 1 = n THEN ~server.skip /\ replies[i + 1].tx = server.tx
           ELSE pc = "describe" /\ (i + 1) + 1 = n /\ replies[(i + 1) + 1].code = "error" /\ server.skip
    BY <1>3, <2>1 DEF RoundEnd
  <2>3. CASE i + 1 = n
    BY <1>5, <2>1, <2>2, <2>3
  <2>4. CASE i + 1 # n
    <3>1. i + 1 \in 1 .. n - 1
      BY <1>5, <2>4
    <3>2. replies'[i + 1] = replies[(i + 1) + 1]
      BY <1>5, <3>1
    <3>. QED
      BY <1>5, <2>2, <2>4, <3>1, <3>2
  <2>. QED
    BY <2>3, <2>4
<1>7. ASSUME c = "ready"
      PROVE  /\ ~server.copying /\ ~Got(replies', "ready")
             /\ requests = <<>> \/ (pc = "describe" /\ Len(requests) = 1 /\ requests[1].type = "bind")
             /\ IF replies' = <<>> THEN ~server.skip /\ Head(replies).tx = server.tx
                ELSE pc = "describe" /\ server.skip /\ Got(replies', "error")
  <2>1. /\ ~server.copying
        /\ IF 1 = n THEN ~server.skip /\ replies[1].tx = server.tx
           ELSE pc = "describe" /\ 2 = n /\ replies[2].code = "error" /\ server.skip
    <3>1. /\ ~server.copying
          /\ IF 1 = n THEN ~server.skip /\ replies[1].tx = server.tx
             ELSE pc = "describe" /\ 1 + 1 = n /\ replies[1 + 1].code = "error" /\ server.skip
      BY <1>1, <1>3, <1>7 DEF RoundEnd, n
    <3>2. 1 + 1 = 2
      OBVIOUS
    <3>. QED
      BY <3>1, <3>2
  <2>2. Got(replies, "ready")
    BY <1>1, <1>7 DEF Got
  <2>3. requests = <<>> \/ (pc = "describe" /\ Len(requests) = 1 /\ requests[1].type = "bind")
    BY <1>3, <1>4, <2>2, ReadyIsLast
  <2>4. n = 2 => replies'[1] = replies[2] /\ DOMAIN replies' = 1 .. 1
    <3>1. n = 2 => 1 \in 1 .. n - 1 /\ 1 + 1 = 2 /\ n - 1 = 1
      OBVIOUS
    <3>2. n = 2 => replies'[1] = replies[1 + 1]
      BY <1>5, <3>1
    <3>. QED
      BY <1>5, <3>1, <3>2
  <2>5. CASE n = 1
    BY <1>1, <1>5, <2>1, <2>3, <2>5 DEF Got
  <2>6. CASE n # 1
    BY <1>5, <2>1, <2>3, <2>4, <2>6 DEF Got
  <2>. QED
    BY <2>5, <2>6
<1>. QED
  BY <1>1, <1>2, <1>3, <1>4, <1>6, <1>7

LEMMA RaiseEndsIt ==
  ASSUME NEW why, Raise(why)
  PROVE  causes' # {}
BY DEF Raise

LEMMA ErrorInStep ==
  ASSUME Typed, Flow, InStep, NEW c \in {"error", "complete"}, Receives(c),
         \/ Complain /\ pc # "close"
         \/ Ignore /\ c = "complete" /\ (Failed \/ status # "E" \/ op.statement # "commit")
  PROVE  InStep'
<1>1. /\ replies' = Tail(replies)
      /\ UNCHANGED <<pc, op, status, nums, prepared, ended, buffer, requests, backend, causes>>
      /\ error' = TRUE \/ (error' = error /\ c = "complete")
  BY DEF Ignore, Complain, caller
<1> SUFFICES ASSUME causes = {}
             PROVE  (server.up /\ Round /\ RoundEnd /\ Knows /\ Stores /\ Undone /\ Rest)'
  BY <1>1 DEF InStep
<1>2. /\ server.up /\ Round /\ RoundEnd' /\ Knows /\ Stores /\ Undone
      /\ pc \notin Resting /\ \A d : Got(replies, d) <=> d = c \/ Got(replies', d)
  BY <1>1, HearStep
<1>3. /\ server' = server /\ named' = named /\ unnamed' = unnamed /\ portal' = portal /\ status' = status
      /\ prepared' = prepared /\ ended' = ended /\ undone' = undone /\ op' = op /\ pc' = pc
      /\ requests' = requests /\ buffer' = buffer
  BY <1>1 DEF backend
<1>4. /\ Failed => Failed'
      /\ pc = "close" => ~Failed'
  BY <1>1, <1>2 DEF Failed, Knows, Ignore, Complain, caller
<1>5. Round'
  BY <1>2, <1>3 DEF Round, RoundTypes
<1>6. Knows'
  BY <1>2, <1>3, <1>4 DEF Knows, Known
<1>7. Stores'
  BY <1>2, <1>3, <1>4 DEF Stores
<1>8. Complain => Failed'
  BY DEF Complain, Failed
<1>9. Undone'
  BY <1>2, <1>3, <1>4, <1>8 DEF Undone
<1>. QED
  BY <1>2, <1>3, <1>5, <1>6, <1>7, <1>9 DEF Rest, Resting

LEMMA CompleteInStep ==
  ASSUME Typed, Flow, InStep, HandleCommandComplete
  PROVE  InStep'
<1>1. Receives("complete")
  BY DEF HandleCommandComplete
<1>2. pc \notin Resting
  BY <1>1, HeardIs
<1>3. op.kind = (IF pc \in Unnamed THEN "unnamed" ELSE pc)
  BY <1>2 DEF Typed, CallerTyped
<1>4. pc = "close" => op.kind = "close"
  BY <1>3 DEF Unnamed
<1>5. error => Failed
  BY DEF Failed
<1>6. CASE Ignore /\ (status # "E" \/ error)
  BY <1>1, <1>5, <1>6, ErrorInStep
<1>7. CASE Ignore /\ op.statement = "rollback"
  BY <1>1, <1>7, ErrorInStep
<1>8. CASE Complain /\ op.kind # "close"
  BY <1>1, <1>4, <1>8, ErrorInStep
<1>9. CASE Break
  BY <1>9, RaiseEndsIt DEF Break, InStep
<1>. QED
  BY <1>6, <1>7, <1>8, <1>9 DEF HandleCommandComplete

LEMMA ErrorsInStep ==
  ASSUME Typed, Flow, InStep, HandleError
  PROVE  InStep'
<1>1. Receives("error") /\ Complain
  BY DEF HandleError
<1>2. CASE causes = {}
  <2>1. Knows /\ Got(replies, "error")
    <3>1. 1 \in DOMAIN replies /\ replies[1].code = "error" /\ pc \notin Resting
      BY <1>1, HeardIs
    <3>. QED
      BY <1>2, <3>1 DEF InStep, Got, Resting
  <2>2. pc # "close"
    BY <2>1 DEF Knows, Failed
  <2>. QED
    BY <1>1, <2>2, ErrorInStep
<1>3. CASE causes # {}
  BY <1>1, <1>3 DEF Complain, InStep
<1>. QED
  BY <1>2, <1>3

LEMMA CopyInStep ==
  ASSUME Typed, Flow, InStep, HandleCopyIn
  PROVE  InStep'
<1>1. Receives("copyin")
  BY DEF HandleCopyIn
<1>2. CASE op.stream /\ Raise("handler")
  BY <1>2, RaiseEndsIt DEF InStep
<1>3. CASE Break
  BY <1>3, RaiseEndsIt DEF Break, InStep
<1>4. CASE /\ op.stream /\ Flush(op, <<"copydata", "copydone", "sync">>)
           /\ replies' = Tail(replies) /\ UNCHANGED <<caller, backend, causes>>
  <2> SUFFICES ASSUME causes = {}
               PROVE  (server.up /\ Round /\ RoundEnd /\ Knows /\ Stores /\ Undone /\ Rest)'
    BY <1>4 DEF InStep
  <2>1. /\ server.up /\ Round /\ RoundEnd /\ Knows /\ Stores /\ Undone /\ Requested /\ Skipping /\ Copies
        /\ pc \notin Resting /\ \A d : Got(replies, d) <=> d = "copyin" \/ Got(replies', d)
        /\ op \in Op /\ op.kind = (IF pc \in Unnamed THEN "unnamed" ELSE pc)
    BY <1>1, <1>4, HearStep
  <2>2. /\ server' = server /\ named' = named /\ unnamed' = unnamed /\ portal' = portal /\ status' = status
        /\ prepared' = prepared /\ ended' = ended /\ undone' = undone /\ op' = op /\ pc' = pc /\ error' = error
    BY <1>4 DEF backend, caller
  <2>3. server.copying /\ ~Has(requests, "copydata") /\ ~Has(requests, "copydone") /\ ~server.skip
    BY <2>1 DEF Copies, Skipping
  <2>4. pc = "execute"
    <3>1. op.kind = "unnamed"
      BY <1>4, <2>1 DEF Typed, CallerTyped
    <3>. QED
      BY <2>1, <2>3, <3>1 DEF Round, Unnamed
  <2>5. buffer = <<>> /\ requests \in Seq(Asks) /\ Linked(requests, FALSE)
    <3>1. (pc = "describe") = FALSE
      BY <2>4
    <3>. QED
      BY <2>1, <2>4, <3>1 DEF Requested, Round, Typed, QueuesTyped
  <2> DEFINE types == <<"copydata", "copydone", "sync">>   m == Messages(op, types)
  <2>6. m = Messages(op, types) /\ types \in Wholes \cup {<<"bind">>, <<"copydata">>} /\ types[1] = "copydata"
    BY DEF Wholes
  <2>7. \A u : Has(m, u) <=> u \in InCopy
    BY <2>1, BatchHas DEF InCopy, OfCopy
  <2>8. requests' = (requests \o buffer) \o m /\ buffer' = <<>>
    BY <1>4 DEF Flush
  <2> HIDE DEF m, types
  <2>9. requests' = requests \o m
    BY <2>5, <2>8, ConcatEmptySeq
  <2>10. /\ m \in Seq(Asks) /\ m # <<>> /\ m[1].type = "copydata" /\ (\A b : Linked(m, b))
         /\ \A i \in DOMAIN m : m[i].op = op /\ m[i].type \in InCopy
    BY <2>1, <2>6, <2>7, BatchFits
  <2>11. \A i \in DOMAIN requests : requests[i].op = op /\ requests[i].type = "sync"
    BY <2>1, <2>3 DEF Round, Has, InCopy, OfCopy
  <2>12. /\ \A u : Has(requests', u) <=> Has(requests, u) \/ Has(m, u)
         /\ \A b : Linked(requests, b) /\ Linked(m, b)
                    /\ (requests # <<>> /\ m # <<>> => requests[Len(requests)].type \in Precedes(m[1].type, b))
                    => Linked(requests', b)
    BY <2>5, <2>9, <2>10, JoinedTo
  <2>13. Linked(requests', FALSE)
    <3>1. requests # <<>> => Len(requests) \in DOMAIN requests
      BY <2>5, QueueIs
    <3>. QED
      BY <2>5, <2>10, <2>11, <2>12, <3>1 DEF Precedes
  <2>14. \A i \in DOMAIN requests' : requests'[i].op = op /\ requests'[i].type \in InCopy
    <3>1. /\ Len(requests) \in Nat /\ Len(m) \in Nat
          /\ DOMAIN requests = 1 .. Len(requests) /\ DOMAIN m = 1 .. Len(m)
          /\ DOMAIN (requests \o m) = 1 .. Len(requests) + Len(m)
          /\ \A i \in 1 .. Len(requests) : (requests \o m)[i] = requests[i]
          /\ \A i \in 1 .. Len(m) : (requests \o m)[Len(requests) + i] = m[i]
      BY <2>5, <2>10, ConcatIs
    <3> SUFFICES ASSUME NEW i \in DOMAIN requests'
                 PROVE  requests'[i].op = op /\ requests'[i].type \in InCopy
      OBVIOUS
    <3>2. CASE i \in 1 .. Len(requests)
      BY <2>9, <2>11, <3>1, <3>2 DEF InCopy
    <3>3. CASE i \notin 1 .. Len(requests)
      <4>1. PICK j \in 1 .. Len(m) : i = Len(requests) + j
        <5>1. i - Len(requests) \in 1 .. Len(m) /\ i = Len(requests) + (i - Len(requests))
          BY <2>9, <3>1, <3>3
        <5>. QED
          BY <5>1
      <4>2. (requests \o m)[Len(requests) + j] = m[j]
        BY <3>1
      <4>. QED
        BY <2>9, <2>10, <3>1, <4>1, <4>2
    <3>. QED
      BY <3>2, <3>3
  <2>15. Round'
    <3>1. Linked(requests', pc' = "describe")
      <4>1. (pc' = "describe") = FALSE
        BY <2>2, <2>4
      <4>. QED
        BY <2>13, <4>1
    <3>2. InCopy \subseteq RoundTypes'
      BY <2>2, <2>4 DEF RoundTypes
    <3>. QED
      BY <2>2, <2>4, <2>8, <2>14, <3>1, <3>2 DEF Round
  <2>16. RoundEnd'
    <3>1. ~Got(replies, "ready")
      BY <2>1, <2>3 DEF RoundEnd, Got
    <3>. QED
      BY <2>1, <3>1 DEF RoundEnd, Got
  <2>17. Failed' <=> Failed
    BY <2>1, <2>2 DEF Failed
  <2>18. /\ ~Has(requests', "query") /\ ~Has(requests', "execute") /\ ~Has(requests', "close")
    BY <2>14 DEF Has, InCopy, OfCopy
  <2>19. Knows'
    BY <2>1, <2>2, <2>3, <2>4, <2>17, <2>18 DEF Knows
  <2>20. Stores'
    BY <2>1, <2>2, <2>4, <2>17, <2>18 DEF Stores
  <2>21. Undone'
    BY <2>1, <2>2, <2>17, <2>18 DEF Undone
  <2>. QED
    BY <2>1, <2>2, <2>4, <2>15, <2>16, <2>19, <2>20, <2>21 DEF Rest
<1>. QED
  BY <1>2, <1>3, <1>4 DEF HandleCopyIn

(* An operation has ended in step: all that it caused has been read. *)
LEMMA DoneInStep ==
  ASSUME Typed, Flow, InStep, causes = {}, Receives("ready"), status' = Head(replies).tx,
         replies' = Tail(replies), UNCHANGED <<backend, buffer, requests>>, Finish(0), pc # "describe",
         \A p \in prepared' : named[p.name] = Parsed(p)
  PROVE  InStep'
<1>1. /\ server.up /\ Undone /\ Requested /\ pc \notin Resting /\ ended.ops \in Nat
      /\ ~server.copying /\ requests = <<>> /\ replies' = <<>> /\ ~server.skip /\ status' = server.tx
  BY HearStep
<1>2. buffer = <<>>
  BY <1>1 DEF Requested
<1>3. /\ server' = server /\ named' = named /\ undone' = undone /\ requests' = <<>> /\ buffer' = <<>>
      /\ pc' = "idle" /\ ended'.ops = ended.ops + 1
  BY <1>1, <1>2 DEF backend, Finish
<1>4. Round'
  BY <1>1, <1>3 DEF Round, Linked
<1>5. RoundEnd'
  BY <1>1 DEF RoundEnd
<1>6. Knows' /\ Known'
  BY <1>1, <1>3 DEF Knows, Has, Known
<1>7. Stores'
  BY <1>3 DEF Stores, Has
<1>8. Undone'
  BY <1>1, <1>3 DEF Undone, Resting
<1>. QED
  BY <1>1, <1>3, <1>4, <1>5, <1>6, <1>7, <1>8 DEF InStep, Rest

(* The next round of an unnamed statement begins. *)
LEMMA RoundInStep ==
  ASSUME Typed, Flow, InStep, causes = {}, HandleReady, ~error,
         NEW next, NEW types \in Wholes, NextRound(next, types),
         \/ pc = "parse" /\ next = "binding" /\ types = <<"describe", "sync">>
         \/ pc = "describe" /\ next = "execute" /\ types = <<"execute", "sync">>
  PROVE  InStep'
<1>1. /\ Receives("ready") /\ status' = Head(replies).tx /\ replies' = Tail(replies)
      /\ UNCHANGED <<backend, causes>>
  BY DEF HandleReady
<1>2. /\ pc' = next /\ Flush(op, types) /\ UNCHANGED <<op, error, ended, nums, prepared>>
  BY DEF NextRound
<1>3. /\ server.up /\ Round /\ RoundEnd /\ Knows /\ Stores /\ Undone /\ Requested
      /\ op \in Op /\ op.id = NextId /\ ended.ops \in Nat
      /\ \A d : Got(replies, d) <=> d = "ready" \/ Got(replies', d)
      /\ ~server.copying /\ ~Got(replies', "ready")
      /\ requests = <<>> \/ (pc = "describe" /\ Len(requests) = 1 /\ requests[1].type = "bind")
      /\ IF replies' = <<>> THEN ~server.skip /\ Head(replies).tx = server.tx
         ELSE pc = "describe" /\ server.skip /\ Got(replies', "error")
  BY <1>1, HearStep
<1>4. /\ server' = server /\ named' = named /\ unnamed' = unnamed /\ portal' = portal /\ undone' = undone
      /\ prepared' = prepared /\ ended' = ended /\ op' = op /\ error' = error /\ pc' = next
  BY <1>1, <1>2 DEF backend
<1> DEFINE m == Messages(op, types)   early == requests \o buffer
<1>5. m = Messages(op, types) /\ types \in Wholes \cup {<<"bind">>, <<"copydata">>}
  OBVIOUS
<1>6. \A u : Has(m, u) <=> u = types[1] \/ u = "sync"
  BY <1>3, BatchHas
<1> HIDE DEF m
<1>7. /\ m \in Seq(Asks) /\ m # <<>> /\ m[1].type = types[1] /\ (\A b : Linked(m, b))
      /\ \A i \in DOMAIN m : m[i].op = op /\ m[i].type \in {types[1], "sync"}
  BY <1>3, <1>5, <1>6, BatchFits
<1>8. requests' = early \o m /\ buffer' = <<>> /\ early \in Seq(Asks)
  <2>1. requests \in Seq(Asks) /\ buffer \in Seq(Asks)
    BY DEF Typed, QueuesTyped
  <2>. QED
    BY <1>2, <2>1, ConcatIs DEF Flush, m
<1>9. /\ early = <<>> \/ (pc = "describe" /\ Len(early) = 1 /\ early[1].type = "bind")
      /\ \A i \in DOMAIN early : early[i].op = op
      /\ early = <<>> <=> requests = <<>> /\ buffer = <<>>
  <2>1. requests \in Seq(Asks) /\ buffer \in Seq(Asks)
    BY DEF Typed, QueuesTyped
  <2>2. CASE buffer = <<>>
    <3>1. early = requests
      BY <2>1, <2>2, ConcatEmptySeq
    <3>. QED
      BY <1>3, <2>2, <3>1 DEF Round
  <2>3. CASE buffer # <<>>
    <3>1. pc = "describe" /\ ~Has(requests, "bind") /\ buffer = Messages(op, <<"bind">>)
      BY <1>3, <2>3 DEF Requested, Round
    <3>2. requests = <<>>
      <4>1. Len(requests) = 1 => 1 \in DOMAIN requests
        BY <2>1, QueueIs
      <4>. QED
        BY <1>3, <3>1, <4>1 DEF Has
    <3>3. early = buffer
      BY <2>1, <3>2, ConcatEmptySeq
    <3>4. DOMAIN <<"bind">> = 1 .. 1 /\ <<"bind">>[1] = "bind"
      OBVIOUS
    <3>5. DOMAIN buffer = 1 .. 1 /\ buffer[1].type = "bind" /\ buffer[1].op = op
      BY <3>1, <3>4 DEF Messages
    <3>6. Len(buffer) = 1
      BY <2>1, <3>5, QueueIs
    <3> HIDE DEF early
    <3>7. \A i \in DOMAIN early : early[i].op = op
      BY <3>3, <3>5
    <3>8. Len(early) = 1 /\ early[1].type = "bind" /\ early # <<>>
      BY <2>3, <3>3, <3>5, <3>6
    <3>. QED
      BY <2>3, <3>1, <3>7, <3>8
  <2>. QED
    BY <2>2, <2>3
<1> HIDE DEF early
<1>10. Len(early) \in Nat /\ DOMAIN early = 1 .. Len(early) /\ (early # <<>> => early[1].type = "bind" /\ Len(early) = 1)
  BY <1>8, <1>9, QueueIs
<1>11. /\ \A u : Has(early \o m, u) <=> Has(early, u) \/ Has(m, u)
       /\ \A b : Linked(early, b) /\ Linked(m, b)
                  /\ (early # <<>> /\ m # <<>> => early[Len(early)].type \in Precedes(m[1].type, b))
                  => Linked(early \o m, b)
  BY <1>7, <1>8, JoinedTo
<1>12. Linked(requests', FALSE)
  <2>1. Linked(early, FALSE)
    BY <1>9, <1>10 DEF Linked
  <2>2. early # <<>> => types[1] = "execute"
    BY <1>9
  <2>. QED
    BY <1>7, <1>8, <1>10, <1>11, <2>1, <2>2 DEF Precedes
<1>13. \A u : Has(requests', u) <=> (u = "bind" /\ early # <<>>) \/ u \in {types[1], "sync"}
  <2>1. \A u : Has(early, u) <=> u = "bind" /\ early # <<>>
    BY <1>9, <1>10 DEF Has
  <2>. QED
    BY <1>6, <1>8, <1>11, <2>1
<1>14. \A i \in DOMAIN requests' : requests'[i].op = op /\ requests'[i].type \in RoundTypes'
  <2>1. /\ Len(early) \in Nat /\ Len(m) \in Nat
        /\ DOMAIN early = 1 .. Len(early) /\ DOMAIN m = 1 .. Len(m)
        /\ DOMAIN (early \o m) = 1 .. Len(early) + Len(m)
        /\ \A i \in 1 .. Len(early) : (early \o m)[i] = early[i]
        /\ \A i \in 1 .. Len(m) : (early \o m)[Len(early) + i] = m[i]
    BY <1>7, <1>8, ConcatIs
  <2>2. \A i \in DOMAIN requests' : requests'[i].op = op
    <3> SUFFICES ASSUME NEW i \in DOMAIN requests' PROVE requests'[i].op = op
      OBVIOUS
    <3>1. CASE i \in 1 .. Len(early)
      BY <1>8, <1>9, <2>1, <3>1
    <3>2. CASE i \notin 1 .. Len(early)
      <4>1. PICK j \in 1 .. Len(m) : i = Len(early) + j
        <5>1. i - Len(early) \in 1 .. Len(m) /\ i = Len(early) + (i - Len(early))
          BY <1>8, <2>1, <3>2
        <5>. QED
          BY <5>1
      <4>2. (early \o m)[Len(early) + j] = m[j]
        BY <2>1
      <4>. QED
        BY <1>7, <1>8, <2>1, <4>1, <4>2
    <3>. QED
      BY <3>1, <3>2
  <2>3. \A i \in DOMAIN requests' : Has(requests', requests'[i].type)
    BY DEF Has
  <2>4. \A u : Has(requests', u) => u \in RoundTypes'
    <3>1. /\ pc' = "binding" => RoundTypes' = {"describe", "sync"}
          /\ pc' = "execute" => RoundTypes' = {"bind", "execute"} \cup InCopy
      BY DEF RoundTypes
    <3>. QED
      BY <1>2, <1>9, <1>13, <3>1 DEF InCopy
  <2>. QED
    BY <2>2, <2>3, <2>4
<1>15. (pc' = "describe") = FALSE /\ pc' \in {"binding", "execute"}
  BY <1>2
<1>16. Round'
  <2>1. Linked(requests', pc' = "describe")
    BY <1>12, <1>15
  <2>. QED
    BY <1>3, <1>4, <1>8, <1>14, <1>15, <2>1 DEF Round
<1>17. RoundEnd'
  BY <1>3 DEF RoundEnd, Got
<1>18. Failed' <=> Failed
  BY <1>3, <1>4 DEF Failed
<1>19. Knows'
  BY <1>1, <1>3, <1>4, <1>15, <1>18 DEF Knows, Known, Failed
<1>20. Stores'
  <2>1. unnamed = Parsed(op)
    <3>1. ASSUME pc = "parse" PROVE ~Has(requests, "parse") /\ ~Failed
      <4>1. requests = <<>> /\ replies' = <<>>
        BY <1>3, <3>1
      <4>2. ~Got(replies', "error") /\ ~Has(requests, "parse")
        BY <4>1 DEF Got, Has
      <4>. QED
        BY <1>3, <4>2 DEF Failed
    <3>. QED
      BY <1>3, <3>1 DEF Stores
  <2>2. ASSUME pc = "describe", ~server.skip, ~Has(requests', "bind") PROVE portal = Parsed(op)
    <3>1. buffer = <<>> /\ requests = <<>>
      BY <1>9, <1>13, <2>2
    <3>. QED
      BY <1>3, <2>2, <3>1 DEF Stores, Has
  <2>3. /\ ~Has(requests', "close")
        /\ Has(requests', "execute") => pc = "describe"
    BY <1>13
  <2>4. \A p \in prepared : named[p.name] = Parsed(p)
    BY <1>3 DEF Stores
  <2>. QED
    BY <1>4, <1>15, <2>1, <2>2, <2>3, <2>4 DEF Stores
<1>21. Undone'
  <2>1. undone # op.id
    BY <1>3 DEF Undone
  <2>. QED
    BY <1>3, <1>4, <2>1, <1>15 DEF Undone
<1>. QED
  BY <1>3, <1>4, <1>15, <1>16, <1>17, <1>19, <1>20, <1>21 DEF InStep, Rest

LEMMA ReadyInStep ==
  ASSUME Typed, Flow, InStep, HandleReady
  PROVE  InStep'
<1>1. /\ Receives("ready") /\ status' = Head(replies).tx /\ replies' = Tail(replies) /\ UNCHANGED backend
  BY DEF HandleReady
<1> SUFFICES ASSUME causes' = {} PROVE InStep'
  BY DEF InStep
<1>2. causes = {} /\ (error => pc # "describe")
  BY DEF HandleReady, StaleBind
<1>3. /\ Knows /\ Stores /\ op.kind = (IF pc \in Unnamed THEN "unnamed" ELSE pc)
      /\ \A d : Got(replies, d) <=> d = "ready" \/ Got(replies', d)
      /\ requests = <<>> \/ pc = "describe"
      /\ replies' = <<>> \/ pc = "describe"
      /\ pc \in Reading
  BY <1>1, <1>2, HearStep
<1>4. pc # "close" => \A p \in prepared : named[p.name] = Parsed(p)
  BY <1>3 DEF Stores
<1>5. CASE error
  <2>1. pc # "close"
    BY <1>3, <1>5 DEF Knows, Failed
  <2>2. Finish(0) /\ UNCHANGED <<nums, prepared, buffer, requests>>
    BY <1>5 DEF HandleReady
  <2>. QED
    BY <1>1, <1>2, <1>4, <1>5, <2>1, <2>2, DoneInStep
<1>6. CASE ~error
  <2>1. Continue
    BY <1>6 DEF HandleReady
  <2>2. CASE pc = "parse"
    <3> DEFINE types == <<"describe", "sync">>
    <3>1. NextRound("binding", types) /\ types = <<"describe", "sync">> /\ types \in Wholes /\ "binding" = "binding"
      BY <2>1, <2>2 DEF Continue, Wholes
    <3> HIDE DEF types
    <3>. QED
      BY <1>2, <1>6, <2>2, <3>1, RoundInStep
  <2>3. CASE pc = "describe"
    <3> DEFINE types == <<"execute", "sync">>
    <3>1. NextRound("execute", types) /\ types = <<"execute", "sync">> /\ types \in Wholes /\ "execute" = "execute"
      BY <2>1, <2>3 DEF Continue, Wholes
    <3> HIDE DEF types
    <3>. QED
      BY <1>2, <1>6, <2>3, <3>1, RoundInStep
  <2>4. CASE pc \in {"simple", "execute", "named"}
    <3>1. Finish(0) /\ UNCHANGED <<nums, prepared, buffer, requests>>
      BY <2>1, <2>4 DEF Continue
    <3>. QED
      BY <1>1, <1>2, <1>4, <2>4, <3>1, DoneInStep
  <2>5. CASE pc = "prepare"
    <3>1. Finish(0) /\ prepared' = prepared \cup {op} /\ UNCHANGED <<buffer, requests>>
      BY <2>1, <2>5 DEF Continue
    <3>2. named[op.name] = Parsed(op)
      <4>1. requests = <<>> /\ replies' = <<>>
        BY <1>3, <2>5
      <4>2. ~Got(replies', "error") /\ ~Has(requests, "parse")
        BY <4>1 DEF Got, Has
      <4>3. ~Failed
        BY <1>3, <1>6, <4>2 DEF Failed
      <4>. QED
        BY <1>3, <2>5, <4>2, <4>3 DEF Stores
    <3>3. \A p \in prepared' : named[p.name] = Parsed(p)
      BY <1>4, <2>5, <3>1, <3>2
    <3>. QED
      BY <1>1, <1>2, <2>5, <3>1, <3>3, DoneInStep
  <2>6. CASE pc = "close"
    <3>1. Finish(0) /\ prepared' = {p \in prepared : p.of # op.of} /\ UNCHANGED <<buffer, requests>>
      BY <2>1, <2>6 DEF Continue
    <3>2. \A p \in prepared' : named[p.name] = Parsed(p)
      BY <1>3, <3>1 DEF Stores
    <3>. QED
      BY <1>1, <1>2, <2>6, <3>1, <3>2, DoneInStep
  <2>. QED
    BY <1>3, <2>2, <2>3, <2>4, <2>5, <2>6 DEF Reading
<1>. QED
  BY <1>5, <1>6

LEMMA NextInStep ==
  ASSUME Typed, Flow, InStep, [Next]_vars
  PROVE  InStep'
<1>1. CASE ReadFails \/ MakeParamsRaises \/ HandlerRaises
  BY <1>1, RaiseEndsIt DEF ReadFails, MakeParamsRaises, HandlerRaises, InStep
<1>2. CASE Close
  BY <1>2 DEF Close, InStep
<1>3. CASE UNCHANGED vars
  BY <1>3 DEF vars, caller, backend, InStep, Round, RoundTypes, RoundEnd, Knows, Known, Failed, Stores,
              Undone, Rest
<1>4. CASE Next
  BY <1>1, <1>2, <1>4, BeginsInStep, BindInStep, ErrorsInStep, CopyInStep, CompleteInStep, ReadyInStep,
     ServeInStep DEF Next, Handle
<1>. QED
  BY <1>3, <1>4

-----------------------------------------------------------------------------
(* The session of a connection.                                                *)

LEMMA SessionStarts ==
  ASSUME Init
  PROVE  SessionInv
<1>1. /\ pc = "idle" /\ op = NoOp /\ error = FALSE /\ status = "none"
      /\ nums = {} /\ prepared = {} /\ ended = [ops |-> 0, raises |-> 0]
      /\ buffer = <<>> /\ requests = <<>> /\ replies = <<>>
      /\ server = [tx |-> "I", skip |-> FALSE, copying |-> FALSE, up |-> TRUE]
      /\ unnamed = Nothing /\ portal = Nothing /\ named = [n \in Names |-> Nothing]
      /\ undone = 0 /\ causes = {}
  BY DEF Init
<1>2. 0 \in 0 .. MaxOps /\ 0 \in 0 .. MaxRaises
  BY ConstantsAssumption
<1>3. Nothing \in Kept
  BY DEF Nothing, Kept
<1>4. ServerTyped
  BY <1>1, <1>3 DEF ServerTyped
<1>5. QueuesTyped
  BY <1>1, EmptySeq DEF QueuesTyped
<1>6. CallerTyped
  BY <1>1, <1>2 DEF CallerTyped, PCs, Resting
<1>7. Flow
  BY <1>1 DEF Flow, Requested, Followed, Skipping, Copies, OneCopy, OneAnswer, Has, Got, Owed
<1>8. InStep
  BY <1>1 DEF InStep, Round, Linked, RoundEnd, Knows, Known, Stores, Undone, Rest, Has, Resting
<1>. QED
  BY <1>4, <1>5, <1>6, <1>7, <1>8 DEF SessionInv, Typed

(* While it starts up nothing is done in the session. *)
LEMMA SessionSteps ==
  ASSUME SessionInv, [ConnectionNext]_all
  PROVE  SessionInv' /\ [Next]_vars
<1>1. [Next]_vars
  BY DEF ConnectionNext, all, session
<1>. QED
  BY <1>1, NextKeeps, NextInStep DEF SessionInv

(* The types, the flow of requests and answers, and the step of the two sides together:
   what the theorems about a session rest on, at every state. *)
THEOREM SessionInvariance == ConnectionSpec => []SessionInv
<1>1. ConnectionInit => SessionInv
  BY SessionStarts DEF ConnectionInit
<1>2. SessionInv /\ [ConnectionNext]_all => SessionInv'
  BY SessionSteps
<1>. QED
  BY <1>1, <1>2, PTL DEF ConnectionSpec

(* PgSession's variables have their types. *)
THEOREM SessionTyped == ConnectionSpec => []TypeOK
<1>1. Typed => TypeOK
  <2> SUFFICES ASSUME Typed PROVE TypeOK
    OBVIOUS
  <2>1. pc \in PCs /\ op \in Op \cup {NoOp} /\ error \in BOOLEAN /\ status \in {"none", "I", "T", "E"}
    BY DEF Typed, CallerTyped
  <2>2. nums \subseteq Names
    <3>1. /\ ended.ops \in 0 .. MaxOps /\ nums \subseteq 1 .. (IF pc \in Resting THEN ended.ops ELSE ended.ops + 1)
          /\ pc \notin Resting => op.id = ended.ops + 1 /\ op.id \in 1 .. MaxOps
      BY DEF Typed, CallerTyped, NextId, Op, Ids
    <3>. QED
      BY <3>1, ConstantsAssumption DEF Names
  <2>3. prepared \subseteq Op /\ ended \in [ops : 0..MaxOps, raises : 0..MaxRaises]
        /\ causes \subseteq {"handler", "params", "staleBind", "lost"}
    BY DEF Typed, CallerTyped
  <2>4. \A q \in {buffer, requests} : \A i \in DOMAIN q : q[i].type \in Types
    <3>1. \A m \in Asks : m.type \in Types
      BY DEF Asks, Types
    <3>2. ASSUME NEW q \in Seq(Asks), NEW i \in DOMAIN q PROVE q[i] \in Asks
      BY QueueIs
    <3>. QED
      BY <3>1, <3>2 DEF Typed, QueuesTyped
  <2>5. \A i \in DOMAIN replies : replies[i].code \in Codes
    <3>1. ASSUME NEW i \in DOMAIN replies PROVE replies[i] \in Answers
      BY QueueIs DEF Typed, QueuesTyped
    <3>. QED
      BY <3>1 DEF Answers
  <2>6. ServerTyped
    BY DEF Typed
  <2>. QED
    BY <2>1, <2>2, <2>3, <2>4, <2>5, <2>6 DEF TypeOK, ServerTyped, Kept
<1>. QED
  BY <1>1, SessionInvariance, PTL DEF SessionInv

(* A caller waits for what nobody owes only on a Bind that was left behind. *)
THEOREM HangsExplained == ConnectionSpec => []HangsOnlyOnStaleBind
<1>1. Typed /\ Flow => HangsOnlyOnStaleBind
  <2> SUFFICES ASSUME Flow, Waiting, server.up, "staleBind" \notin causes PROVE FALSE
    BY DEF HangsOnlyOnStaleBind
  <2>1. pc \in Reading /\ pc # "idle" /\ pc # "closed" /\ requests = <<>> /\ replies = <<>>
    BY DEF Waiting, Reading
  <2>2. Owed
    BY <2>1 DEF Flow
  <2>. QED
    BY <2>1, <2>2 DEF Owed, Has, Got
<1>. QED
  BY <1>1, SessionInvariance, PTL DEF SessionInv

(* No COMMIT that has been undone is reported as done, while in step. *)
THEOREM CommitsHonest == ConnectionSpec => CommitIsHonest
<1>1. ASSUME SessionInv, HandleReady, causes = {}, op.id = undone PROVE error
  <2>1. Receives("ready") /\ replies' = Tail(replies) /\ UNCHANGED backend
    BY <1>1 DEF HandleReady
  <2>2. /\ Undone /\ pc \notin Resting
        /\ \A d : Got(replies, d) <=> d = "ready" \/ Got(replies', d)
        /\ replies' = <<>> \/ pc = "describe"
    BY <1>1, <2>1, HearStep DEF SessionInv
  <2>3. pc \in {"simple", "execute", "named"} /\ (Failed \/ Got(replies, "complete"))
    BY <1>1, <2>2 DEF Undone, Resting
  <2>4. replies' = <<>>
    BY <2>2, <2>3
  <2>5. ~Got(replies', "error") /\ ~Got(replies', "complete")
    BY <2>4 DEF Got
  <2>. QED
    BY <2>2, <2>3, <2>5 DEF Failed
<1>2. SessionInv /\ [ConnectionNext]_all => [HandleReady /\ causes = {} /\ op.id = undone => error]_vars
  BY <1>1
<1>. QED
  BY <1>2, SessionInvariance, PTL DEF ConnectionSpec, CommitIsHonest

-----------------------------------------------------------------------------
(* The startup: one message is under way at a time, up to those that welcome  *)
(* the client, and an exchange of SCRAM goes through its steps in order.       *)
Bindings == {NoBinding, Binding, OtherType, OtherCert}
Users    == {{}} \cup {{u} : u \in Accounts}
(* The client knows the channel if the server does; then it takes SCRAM-SHA-256-PLUS. *)
Fits(b, x) == x # NoBinding => b # NoBinding
Agreed(mech, b, x) == Fits(b, x) /\ (mech.plus <=> x # NoBinding)

(* The two ends, as far as they have come: the client has sent its first message, and
   its final one; the server has sent its first one. *)
Begun(mech, b, p) ==
  [ stage |-> 1, raised |-> FALSE, mech |-> mech, binding |-> b,
    password |-> p, gs2 |-> Gs2(b, mech.plus), nonce |-> <<"c">>,
    server_first |-> <<>>, salt |-> "none", signature |-> <<>> ]
Replied(mech, b, p, m) ==
  LET c == [ stage |-> 2, raised |-> FALSE, mech |-> mech, binding |-> b,
             password |-> p, gs2 |-> Gs2(b, mech.plus), nonce |-> m.nonce,
             server_first |-> m, salt |-> m.salt, signature |-> <<>> ] IN
  [c EXCEPT !.stage = 3, !.signature = Signature(Key(p, m.salt), ClientMessage(c))]
Nonce == <<"c">> \o <<"s">>
Challenger(mech, b, x, u) ==
  [ stage |-> 2, raised |-> FALSE, error |-> "none", plus |-> mech.plus, binding |-> x, user |-> {u},
    gs2 |-> Gs2(b, mech.plus), client_first |-> [gs2 |-> Gs2(b, mech.plus), nonce |-> <<"c">>],
    nonce |-> Nonce, signature |-> <<>> ]

Remains(q) ==
  LET s == [kind |-> "status"]   r == [kind |-> "ready"] IN
  q \in {<<r>>, <<s, r>>, <<s, s, r>>, <<s, s, s, r>>}

Before ==
  /\ auth = Nobody /\ peer = Nobody
  /\ \/ phase = "connect" /\ asked = <<>> /\ told = <<>>
     \/ phase = "ssl" /\ asked = <<[kind |-> "ssl"]>> /\ told = <<>>
     \/ phase = "ssl" /\ asked = <<>> /\ told \in {<<"S">>, <<"N">>, <<"E">>}
     \/ /\ phase = "startup" /\ told = <<>>
        /\ \E b \in {NoBinding, Binding} : asked = <<[kind |-> "startup", binding |-> b]>>
     \/ phase = "startup" /\ asked = <<>> /\ \E k \in {"password", "unsupported"} : told = <<[kind |-> k]>>
     \/ /\ phase = "startup" /\ told = <<>>
        /\ asked = <<[kind |-> "password", password |-> settings.password]>>
Over ==
  /\ asked = <<>> /\ ExchangeIsRight
  /\ \/ phase = "startup" /\ (told = Error \/ Remains(told))
     \/ phase \in {"failed", "leaked"}
     \/ phase = "open" /\ told = <<>> /\ auth = Nobody /\ peer = Nobody

Offered ==
  /\ phase = "startup" /\ asked = <<>> /\ auth = Nobody
  /\ \E b \in {NoBinding, Binding}, x \in Bindings, user \in Users, offered \in (SUBSET Mechanisms) \ {{}} :
       /\ Fits(b, x) /\ (Sha256Plus \in offered <=> x # NoBinding)
       /\ told = <<[kind |-> "sasl", mechanisms |-> offered, binding |-> b]>>
       /\ peer = NewServer(Sha256, x, user)
Requesting ==
  /\ phase = "startup" /\ told = <<>>
  /\ \E mech \in Mechanisms, b \in {NoBinding, Binding}, x \in Bindings, user \in Users, p \in {"right", "wrong"} :
       /\ Agreed(mech, b, x) /\ auth = Begun(mech, b, p) /\ peer = NewServer(Sha256, x, user)
       /\ asked = <<[kind |-> "first", mech |-> mech, message |-> [gs2 |-> Gs2(b, mech.plus), nonce |-> <<"c">>]]>>
Challenged ==
  /\ phase = "startup" /\ asked = <<>>
  /\ \E mech \in Mechanisms, b \in {NoBinding, Binding}, x \in Bindings \ {OtherType}, u \in Accounts,
        p \in {"right", "wrong"} :
       /\ Agreed(mech, b, x) /\ auth = Begun(mech, b, p) /\ peer = Challenger(mech, b, x, u)
       /\ told = <<[kind |-> "continue", message |-> ServerFirst(peer)]>>
Replying ==
  /\ phase = "startup" /\ told = <<>>
  /\ \E mech \in Mechanisms, b \in {NoBinding, Binding}, x \in Bindings \ {OtherType}, u \in Accounts,
        p \in {"right", "wrong"} :
       /\ Agreed(mech, b, x) /\ u.iterations >= MinimumIterations
       /\ peer = Challenger(mech, b, x, u) /\ auth = Replied(mech, b, p, ServerFirst(peer))
       /\ asked = <<[kind |-> "final", message |-> ClientFinal(auth)]>>
Accepting ==
  /\ phase = "startup" /\ asked = <<>>
  /\ told # <<>> /\ Remains(Tail(told)) /\ Head(told) = [kind |-> "final", message |-> [signature |-> auth.signature]]
  /\ \E mech \in Mechanisms, b \in {NoBinding, Binding}, p \in {"right", "wrong"},
        m \in {ServerFirst(peer)} : auth = Replied(mech, b, p, m)
  /\ ~Incompatible /\ peer.stage = Done /\ ~peer.raised /\ auth.nonce = peer.nonce

StartInv ==
  /\ settings \in [ssl : {"default", "off", "context"}, password : {"right", "wrong", "none"}]
  /\ Before \/ Over \/ Offered \/ Requesting \/ Challenged \/ Replying \/ Accepting

-----------------------------------------------------------------------------
LEMMA ClientHears ==
  ASSUME NEW m, told = <<m>>, NEW k, Hears(k)
  PROVE  m.kind = k /\ told' = <<>> /\ Head(told) = m
BY DEF Hears

LEMMA ServerHears ==
  ASSUME NEW m, asked = <<m>>, NEW k, Hear(k)
  PROVE  m.kind = k /\ asked' = <<>> /\ Head(asked) = m
BY DEF Hear

LEMMA ServerTells ==
  ASSUME told = <<>>, NEW S, NEW m \in Seq(S), Tell(m)
  PROVE  told' = m
BY ConcatEmptySeq DEF Tell

LEMMA ClientAsks ==
  ASSUME asked = <<>>, NEW m, Ask(m)
  PROVE  asked' = <<m>>
BY DEF Ask

(* What is possible when it is the client's turn, and the server's. *)
LEMMA ClientTurn ==
  ASSUME asked = <<>>, StartUp
  PROVE  \/ Connect \/ HandleSsl
         \/ HandlePassword \/ HandleUnsupported \/ HandleStatus \/ HandleStartupError \/ Open
         \/ HandleSasl \/ HandleSaslContinue \/ HandleSaslFinal
BY DEF StartUp, AnswerSsl, AnswerStartup, CheckPassword, AnswerClientFirst, AnswerClientFinal, Hear

LEMMA ServerTurn ==
  ASSUME phase = "startup" \/ phase = "ssl", told = <<>>, StartUp
  PROVE  AnswerSsl \/ AnswerStartup \/ CheckPassword \/ AnswerClientFirst \/ AnswerClientFinal
BY DEF StartUp, Connect, HandleSsl, HandlePassword, HandleUnsupported, HandleStatus, HandleStartupError,
       Open, HandleSasl, HandleSaslContinue, HandleSaslFinal, Hears

(* The server's end before it has heard anything: scramp refuses only a mechanism
   that binds a channel there is not. *)
LEMMA NewServerIs ==
  ASSUME NEW mech \in Mechanisms, NEW x, NEW user, mech.plus => x # NoBinding
  PROVE  NewServer(mech, x, user) =
           [ stage |-> 0, raised |-> FALSE, error |-> "none", plus |-> mech.plus, binding |-> x,
             user |-> user, gs2 |-> <<>>, client_first |-> <<>>, nonce |-> <<>>, signature |-> <<>> ]
<1>1. (mech.plus /\ x = NoBinding) = FALSE
  BY DEF Mechanisms, Sha1, Sha256, Sha256Plus
<1>. QED
  BY <1>1 DEF NewServer

LEMMA StartedRight ==
  ASSUME StartInv
  PROVE  StartsInStep /\ ExchangeIsRight
<1>1. Over => StartsInStep /\ ExchangeIsRight
  BY DEF Over, StartsInStep
<1>2. Before => StartsInStep /\ ExchangeIsRight
  BY DEF Before, StartsInStep, ExchangeIsRight
<1>3. Offered => StartsInStep /\ ExchangeIsRight
  BY DEF Offered, StartsInStep, ExchangeIsRight
<1>4. Requesting => StartsInStep /\ ExchangeIsRight
  <2>1. \A x, user : NewServer(Sha256, x, user).raised = FALSE
    <3>1. Sha256 \in Mechanisms /\ Sha256.plus = FALSE
      BY DEF Mechanisms, Sha256
    <3>. QED
      BY <3>1, NewServerIs
  <2>. QED
    BY <2>1 DEF Requesting, Begun, Done, StartsInStep, ExchangeIsRight
<1>5. Challenged => StartsInStep /\ ExchangeIsRight
  BY DEF Challenged, Begun, Challenger, Done, StartsInStep, ExchangeIsRight
<1>6. Replying => StartsInStep /\ ExchangeIsRight
  BY DEF Replying, Begun, Replied, Challenger, Done, StartsInStep, ExchangeIsRight
<1>7. Accepting => StartsInStep /\ ExchangeIsRight
  BY DEF Accepting, Begun, Replied, Done, StartsInStep, ExchangeIsRight
<1>. QED
  BY <1>1, <1>2, <1>3, <1>4, <1>5, <1>6, <1>7 DEF StartInv

(* When nothing is asked and the session is open, or never will be, the startup is over. *)
LEMMA NothingStarts ==
  ASSUME asked = <<>>, phase \in {"failed", "leaked", "open"}, StartUp
  PROVE  FALSE
BY ClientTurn DEF Connect, HandleSsl, HandlePassword, HandleUnsupported, HandleStatus, HandleStartupError,
     Open, HandleSasl, HandleSaslContinue, HandleSaslFinal, Hears

(* In its startup phase the client does what the message it hears asks for. *)
LEMMA ClientOn ==
  ASSUME asked = <<>>, phase = "startup", StartUp
  PROVE  /\ told # <<>> /\ told' = Tail(told)
         /\ \/ Head(told).kind = "password" /\ HandlePassword
            \/ Head(told).kind = "unsupported" /\ HandleUnsupported
            \/ Head(told).kind = "status" /\ HandleStatus
            \/ Head(told).kind = "error" /\ HandleStartupError
            \/ Head(told).kind = "ready" /\ Open
            \/ Head(told).kind = "sasl" /\ HandleSasl
            \/ Head(told).kind = "continue" /\ HandleSaslContinue
            \/ Head(told).kind = "final" /\ HandleSaslFinal
BY ClientTurn DEF Connect, HandleSsl, HandlePassword, HandleUnsupported, HandleStatus, HandleStartupError,
     Open, HandleSasl, HandleSaslContinue, HandleSaslFinal, Hears

LEMMA ServerOn ==
  ASSUME told = <<>>, phase \in {"startup", "ssl"}, StartUp
  PROVE  /\ asked # <<>> /\ asked' = Tail(asked) /\ phase' = phase /\ settings' = settings /\ auth' = auth
         /\ \/ Head(asked).kind = "ssl" /\ AnswerSsl
            \/ Head(asked).kind = "startup" /\ AnswerStartup
            \/ Head(asked).kind = "password" /\ CheckPassword
            \/ Head(asked).kind = "first" /\ AnswerClientFirst
            \/ Head(asked).kind = "final" /\ AnswerClientFinal
BY ServerTurn DEF AnswerSsl, AnswerStartup, CheckPassword, AnswerClientFirst, AnswerClientFinal, Hear

(* What is left of the welcome. *)
LEMMA RemainsIs ==
  /\ Remains(Welcome)
  /\ \A q : Remains(q) =>
       /\ q # <<>>
       /\ \/ Head(q).kind = "status" /\ Remains(Tail(q))
          \/ Head(q).kind = "ready" /\ Tail(q) = <<>>
<1> DEFINE s == [kind |-> "status"]   r == [kind |-> "ready"]
<1>1. s.kind = "status" /\ r.kind = "ready"
  OBVIOUS
<1>2. \A q : Remains(q) <=> q \in {<<r>>, <<s, r>>, <<s, s, r>>, <<s, s, s, r>>}
  BY DEF Remains
<1>3. Welcome = <<s, s, s, r>>
  BY DEF Welcome
<1> HIDE DEF s, r
<1>4. ASSUME NEW q, Remains(q)
      PROVE  /\ q # <<>>
             /\ \/ Head(q).kind = "status" /\ Remains(Tail(q))
                \/ Head(q).kind = "ready" /\ Tail(q) = <<>>
  <2>1. CASE q = <<r>>
    BY <1>1, <2>1
  <2>2. CASE q = <<s, r>>
    <3>1. q # <<>> /\ Head(q) = s /\ Tail(q) = <<r>>
      BY <2>2
    <3>. QED
      BY <1>1, <1>2, <3>1
  <2>3. CASE q = <<s, s, r>>
    <3>1. q # <<>> /\ Head(q) = s /\ Tail(q) = <<s, r>>
      BY <2>3
    <3>. QED
      BY <1>1, <1>2, <3>1
  <2>4. CASE q = <<s, s, s, r>>
    <3>1. q # <<>> /\ Head(q) = s /\ Tail(q) = <<s, s, r>>
      BY <2>4
    <3>. QED
      BY <1>1, <1>2, <3>1
  <2>. QED
    BY <1>2, <1>4, <2>1, <2>2, <2>3, <2>4
<1>. QED
  BY <1>2, <1>3, <1>4

LEMMA FromOver ==
  ASSUME Over, StartUp
  PROVE  Over' /\ settings' \in {settings, [ssl |-> "off", password |-> "none"]}
<1>1. asked = <<>> /\ ExchangeIsRight /\ phase = "startup" /\ (told = Error \/ Remains(told))
  BY NothingStarts DEF Over
<1>2. \/ told = Error /\ Head(told).kind = "error" /\ HandleStartupError
      \/ Remains(told) /\ Head(told).kind = "status" /\ HandleStatus
      \/ Remains(told) /\ Head(told).kind = "ready" /\ Open
  <2>1. \/ told = Error /\ Head(told).kind = "error"
        \/ Remains(told) /\ Head(told).kind \in {"status", "ready"}
    BY <1>1, RemainsIs DEF Error
  <2>. QED
    BY <1>1, <2>1, ClientOn
<1>3. told' = Tail(told)
  BY <1>1, ClientOn
<1>4. CASE HandleStartupError
  BY <1>1, <1>4 DEF HandleStartupError, Fails, Over, ExchangeIsRight, Incompatible
<1>5. CASE Remains(told) /\ Head(told).kind = "status" /\ HandleStatus
  <2>1. Remains(told')
    BY <1>3, <1>5, RemainsIs
  <2>. QED
    BY <1>1, <1>5, <2>1 DEF HandleStatus, Over, ExchangeIsRight, Incompatible
<1>6. CASE Remains(told) /\ Head(told).kind = "ready" /\ Open
  <2>1. told' = <<>>
    BY <1>3, <1>6, RemainsIs
  <2>. QED
    BY <1>1, <1>6, <2>1 DEF Open, Over, ExchangeIsRight
<1>. QED
  BY <1>2, <1>4, <1>5, <1>6

LEMMA FromBefore ==
  ASSUME Before, settings \in [ssl : {"default", "off", "context"}, password : {"right", "wrong", "none"}], StartUp
  PROVE  (Before \/ Over \/ Offered)' /\ settings' = settings
<1>1. auth = Nobody /\ peer = Nobody
  BY DEF Before
<1>2. CASE phase = "connect"
  <2>1. asked = <<>> /\ told = <<>>
    BY <1>2 DEF Before
  <2>2. Connect
    BY <1>2, <2>1, ClientTurn DEF HandleSsl, HandlePassword, HandleUnsupported, HandleStatus,
       HandleStartupError, Open, HandleSasl, HandleSaslContinue, HandleSaslFinal, Hears
  <2>3. ASSUME NEW m, Ask(m) PROVE asked' = <<m>>
    BY <2>1, <2>3, ClientAsks
  <2>4. UNCHANGED <<told, settings, auth, peer>>
    BY <2>2 DEF Connect
  <2>5. CASE phase' = "ssl" /\ Ask([kind |-> "ssl"])
    BY <1>1, <2>1, <2>3, <2>4, <2>5 DEF Before
  <2>6. CASE phase' = "startup" /\ Ask([kind |-> "startup", binding |-> NoBinding])
    BY <1>1, <2>1, <2>3, <2>4, <2>6 DEF Before
  <2>7. CASE phase' = "failed" /\ UNCHANGED asked
    BY <1>1, <2>1, <2>4, <2>7 DEF Over, ExchangeIsRight
  <2>. QED
    BY <2>2, <2>4, <2>5, <2>6, <2>7 DEF Connect
<1>3. CASE phase = "ssl" /\ told = <<>>
  <2>1. asked = <<[kind |-> "ssl"]>>
    BY <1>3 DEF Before
  <2>2. AnswerSsl /\ asked' = <<>> /\ phase' = phase /\ settings' = settings /\ auth' = auth
    BY <1>3, <2>1, ServerOn
  <2>3. PICK a \in {"S", "N", "E"} : Tell(<<a>>)
    BY <2>2 DEF AnswerSsl
  <2>4. <<a>> \in Seq({"S", "N", "E"})
    OBVIOUS
  <2>5. told' = <<a>>
    BY <1>3, <2>3, <2>4, ServerTells
  <2>. QED
    BY <1>1, <1>3, <2>2, <2>5 DEF Before, AnswerSsl
<1>4. CASE phase = "ssl" /\ told # <<>>
  <2>1. asked = <<>> /\ told \in {<<"S">>, <<"N">>, <<"E">>}
    BY <1>4 DEF Before
  <2>2. HandleSsl
    BY <1>4, <2>1, ClientTurn DEF Connect, HandlePassword, HandleUnsupported, HandleStatus,
       HandleStartupError, Open, HandleSasl, HandleSaslContinue, HandleSaslFinal, Hears
  <2>3. ASSUME NEW m, Ask(m) PROVE asked' = <<m>>
    BY <2>1, <2>3, ClientAsks
  <2>4. UNCHANGED <<settings, auth, peer>> /\ told' = <<>>
    BY <2>1, <2>2 DEF HandleSsl
  <2>5. \/ phase' = "startup" /\ Ask([kind |-> "startup", binding |-> Binding])
        \/ phase' = "startup" /\ Ask([kind |-> "startup", binding |-> NoBinding])
        \/ phase' \in {"leaked", "failed"} /\ asked' = asked
    BY <2>2 DEF HandleSsl
  <2>6. CASE phase' = "startup" /\ Ask([kind |-> "startup", binding |-> Binding])
    BY <1>1, <2>3, <2>4, <2>6 DEF Before
  <2>7. CASE phase' = "startup" /\ Ask([kind |-> "startup", binding |-> NoBinding])
    BY <1>1, <2>3, <2>4, <2>7 DEF Before
  <2>8. CASE phase' \in {"leaked", "failed"} /\ asked' = asked
    BY <1>1, <2>1, <2>4, <2>8 DEF Over, ExchangeIsRight
  <2>. QED
    BY <2>4, <2>5, <2>6, <2>7, <2>8
<1>5. CASE phase = "startup" /\ told = <<>> /\ \E b \in {NoBinding, Binding} : asked = <<[kind |-> "startup", binding |-> b]>>
  <2>1. PICK b \in {NoBinding, Binding} : asked = <<[kind |-> "startup", binding |-> b]>>
    BY <1>5
  <2>2. AnswerStartup /\ asked' = <<>> /\ phase' = "startup" /\ settings' = settings /\ auth' = auth /\ Head(asked).binding = b
    BY <1>5, <2>1, ServerOn
  <2>3. ASSUME NEW S, NEW m \in Seq(S), Tell(m) PROVE told' = m
    BY <1>5, <2>3, ServerTells
  <2>4. CASE Tell(Error) /\ UNCHANGED peer
    <3>1. Error \in Seq({[kind |-> "error"]})
      BY DEF Error
    <3>. QED
      BY <1>1, <2>2, <2>3, <2>4, <3>1 DEF Over, ExchangeIsRight
  <2>5. CASE Tell(Welcome) /\ UNCHANGED peer
    <3>1. Welcome \in Seq({[kind |-> "status"], [kind |-> "ready"]})
      BY DEF Welcome
    <3>2. told' = Welcome
      BY <2>3, <2>5, <3>1
    <3>. QED
      BY <1>1, <2>2, <2>5, <3>2, RemainsIs DEF Over, ExchangeIsRight
  <2>6. ASSUME NEW k \in {"password", "unsupported"}, Tell(<<[kind |-> k]>>), UNCHANGED peer
        PROVE  Before'
    <3>1. <<[kind |-> k]>> \in Seq({[kind |-> k]})
      OBVIOUS
    <3>2. told' = <<[kind |-> k]>>
      BY <2>3, <2>6, <3>1
    <3>. QED
      BY <1>1, <2>2, <2>6, <3>2 DEF Before
  <2>7. ASSUME NEW offered \in (SUBSET Mechanisms) \ {{}},
               NEW x \in {NoBinding} \cup (IF b = NoBinding THEN {} ELSE {b, OtherType, OtherCert}),
               NEW user \in Users, Sha256Plus \in offered <=> x # NoBinding,
               Tell(<<[kind |-> "sasl", mechanisms |-> offered, binding |-> b]>>),
               peer' = NewServer(Sha256, x, user)
        PROVE  Offered'
    <3> DEFINE m == [kind |-> "sasl", mechanisms |-> offered, binding |-> b]
    <3>1. <<m>> \in Seq({m})
      OBVIOUS
    <3>2. told' = <<m>>
      BY <2>3, <2>7, <3>1
    <3>3. x \in Bindings /\ Fits(b, x)
      BY DEF Bindings, Fits
    <3>. QED
      BY <1>1, <2>2, <2>7, <3>2, <3>3 DEF Offered
  <2>8. CASE \E offered \in (SUBSET Mechanisms) \ {{}},
                bound \in {NoBinding} \cup (IF b = NoBinding THEN {} ELSE {b, OtherType, OtherCert}),
                user \in Users :
                /\ Sha256Plus \in offered <=> bound # NoBinding
                /\ Tell(<<[kind |-> "sasl", mechanisms |-> offered, binding |-> b]>>)
                /\ peer' = NewServer(Sha256, bound, user)
    BY <2>2, <2>7, <2>8
  <2>. QED
    BY <2>2, <2>4, <2>5, <2>6, <2>8 DEF AnswerStartup, Users
<1>6. CASE phase = "startup" /\ asked = <<>>
  <2>1. PICK k \in {"password", "unsupported"} : told = <<[kind |-> k]>>
    BY <1>6 DEF Before
  <2>2. HandlePassword \/ HandleUnsupported
    BY <1>6, <2>1, ClientOn
  <2>3. told' = <<>>
    BY <1>6, <2>1, ClientOn
  <2>4. CASE phase' = "failed" /\ asked' = asked
    BY <1>1, <1>6, <2>2, <2>4 DEF Over, ExchangeIsRight, HandlePassword, HandleUnsupported
  <2>5. CASE Ask([kind |-> "password", password |-> settings.password]) /\ UNCHANGED phase
    BY <1>1, <1>6, <2>2, <2>3, <2>5, ClientAsks DEF Before, HandlePassword, HandleUnsupported
  <2>. QED
    BY <2>2, <2>4, <2>5 DEF HandlePassword, HandleUnsupported, Fails
<1>7. CASE phase = "startup" /\ told = <<>> /\ asked = <<[kind |-> "password", password |-> settings.password]>>
  <2>1. CheckPassword /\ asked' = <<>> /\ phase' = "startup" /\ settings' = settings /\ auth' = auth /\ peer' = peer
    BY <1>7, ServerOn DEF CheckPassword
  <2>2. Tell(Welcome) \/ Tell(Error)
    BY <2>1 DEF CheckPassword
  <2>3. Error \in Seq({[kind |-> "error"]}) /\ Welcome \in Seq({[kind |-> "status"], [kind |-> "ready"]})
    BY DEF Error, Welcome
  <2>4. told' = Welcome \/ told' = Error
    BY <1>7, <2>2, <2>3, ServerTells
  <2>. QED
    BY <1>1, <2>1, <2>4, RemainsIs DEF Over, ExchangeIsRight
<1>. QED
  BY <1>2, <1>3, <1>4, <1>5, <1>6, <1>7 DEF Before

-----------------------------------------------------------------------------
(* SCRAM.  Of what the server offers the client takes the mechanism that binds the
   channel exactly when both know the channel, and is never left without one.       *)
LEMMA NewClientIs ==
  ASSUME NEW offered \in (SUBSET Mechanisms) \ {{}}, NEW b \in {NoBinding, Binding}, NEW x, NEW p,
         Fits(b, x), Sha256Plus \in offered <=> x # NoBinding
  PROVE  \E mech \in Mechanisms : /\ Agreed(mech, b, x)
                                  /\ NewClient(offered, b, p) = [Begun(mech, b, p) EXCEPT !.stage = 0]
<1> DEFINE S == Suitable(offered, b)
<1>1. Mechanisms = {Sha1, Sha256, Sha256Plus} /\ Sha1.plus = FALSE /\ Sha256.plus = FALSE /\ Sha256Plus.plus = TRUE
      /\ Sha1.strength = 0 /\ Sha256.strength = 2 /\ Sha256Plus.strength = 3
  BY DEF Mechanisms, Sha1, Sha256, Sha256Plus
<1>2. S \subseteq Mechanisms /\ (Sha256Plus \in S <=> x # NoBinding)
  BY <1>1 DEF Suitable, Fits
<1>3. S # {}
  <2>1. CASE Sha256Plus \in offered
    BY <1>2, <2>1
  <2>2. CASE Sha256Plus \notin offered
    <3>1. PICK m \in offered : TRUE
      OBVIOUS
    <3>2. m.plus = FALSE
      BY <1>1, <2>2, <3>1
    <3>. QED
      BY <3>2 DEF Suitable
  <2>. QED
    BY <2>1, <2>2
<1> HIDE DEF S
<1>4. \E m \in S : \A n \in S : n.strength <= m.strength
  <2>1. CASE Sha256Plus \in S
    <3>1. \A n \in S : n.strength <= Sha256Plus.strength
      BY <1>1, <1>2
    <3>. QED
      BY <2>1, <3>1
  <2>2. CASE Sha256Plus \notin S /\ Sha256 \in S
    <3>1. \A n \in S : n.strength <= Sha256.strength
      BY <1>1, <1>2, <2>2
    <3>. QED
      BY <2>2, <3>1
  <2>3. CASE Sha256Plus \notin S /\ Sha256 \notin S
    <3>1. Sha1 \in S /\ \A n \in S : n.strength <= Sha1.strength
      BY <1>1, <1>2, <1>3, <2>3
    <3>. QED
      BY <3>1
  <2>. QED
    BY <2>1, <2>2, <2>3
<1> DEFINE mech == Strongest(S)
<1>5. mech \in S /\ \A n \in S : n.strength <= mech.strength
  BY <1>4 DEF Strongest
<1> HIDE DEF mech
<1>6. mech.plus <=> x # NoBinding
  <2>1. CASE Sha256Plus \in S
    <3>1. mech = Sha256Plus
      BY <1>1, <1>2, <1>5, <2>1
    <3>. QED
      BY <1>1, <1>2, <2>1, <3>1
  <2>2. CASE Sha256Plus \notin S
    BY <1>1, <1>2, <1>5, <2>2
  <2>. QED
    BY <2>1, <2>2
<1>7. (S = {}) = FALSE
  BY <1>3
<1>8. NewClient(offered, b, p) =
        [ stage |-> 0, raised |-> S = {}, mech |-> IF S = {} THEN Sha256 ELSE mech, binding |-> b,
          password |-> p, gs2 |-> Gs2(b, (IF S = {} THEN Sha256 ELSE mech).plus), nonce |-> <<"c">>,
          server_first |-> <<>>, salt |-> "none", signature |-> <<>> ]
  BY DEF NewClient, S, mech
<1>9. NewClient(offered, b, p) =
        [ stage |-> 0, raised |-> FALSE, mech |-> mech, binding |-> b,
          password |-> p, gs2 |-> Gs2(b, mech.plus), nonce |-> <<"c">>,
          server_first |-> <<>>, salt |-> "none", signature |-> <<>> ]
  BY <1>7, <1>8
<1>10. NewClient(offered, b, p) = [Begun(mech, b, p) EXCEPT !.stage = 0]
  <2> DEFINE g == Gs2(b, mech.plus)   no == FALSE
  <2>1. Begun(mech, b, p) =
          [ stage |-> 1, raised |-> no, mech |-> mech, binding |-> b,
            password |-> p, gs2 |-> g, nonce |-> <<"c">>,
            server_first |-> <<>>, salt |-> "none", signature |-> <<>> ]
    BY DEF Begun
  <2>2. NewClient(offered, b, p) =
          [ stage |-> 0, raised |-> no, mech |-> mech, binding |-> b,
            password |-> p, gs2 |-> g, nonce |-> <<"c">>,
            server_first |-> <<>>, salt |-> "none", signature |-> <<>> ]
    BY <1>9
  <2> HIDE DEF g, no
  <2>. QED
    BY <2>1, <2>2
<1>11. mech \in Mechanisms /\ Agreed(mech, b, x)
  BY <1>2, <1>5, <1>6 DEF Agreed
<1>. QED
  BY <1>10, <1>11

LEMMA FromOffered ==
  ASSUME Offered, settings \in [ssl : {"default", "off", "context"}, password : {"right", "wrong", "none"}], StartUp
  PROVE  (Over \/ Requesting)' /\ settings' = settings
<1>1. phase = "startup" /\ asked = <<>> /\ auth = Nobody
  BY DEF Offered
<1>2. PICK b \in {NoBinding, Binding}, x \in Bindings, user \in Users, offered \in (SUBSET Mechanisms) \ {{}} :
       /\ Fits(b, x) /\ (Sha256Plus \in offered <=> x # NoBinding)
       /\ told = <<[kind |-> "sasl", mechanisms |-> offered, binding |-> b]>>
       /\ peer = NewServer(Sha256, x, user)
  BY DEF Offered
<1>3. HandleSasl /\ told' = <<>> /\ Head(told) = [kind |-> "sasl", mechanisms |-> offered, binding |-> b]
  BY <1>1, <1>2, ClientOn
<1>4. settings' = settings /\ peer' = peer
  BY <1>3 DEF HandleSasl
<1> DEFINE p == settings.password   c == NewClient(offered, b, p)
<1>5. c = NewClient(Head(told).mechanisms, Head(told).binding, settings.password)
  BY <1>3
<1>6. PICK mech \in Mechanisms : Agreed(mech, b, x) /\ c = [Begun(mech, b, p) EXCEPT !.stage = 0]
  BY <1>2, NewClientIs
<1> HIDE DEF c
<1>7. /\ c.raised = FALSE /\ c.mech = mech /\ GetClientFirst(c) = Begun(mech, b, p)
      /\ ClientFirst(c) = [gs2 |-> Gs2(b, mech.plus), nonce |-> <<"c">>]
  <2> DEFINE g == Gs2(b, mech.plus)   no == FALSE
  <2>1. Begun(mech, b, p) =
          [ stage |-> 1, raised |-> no, mech |-> mech, binding |-> b,
            password |-> p, gs2 |-> g, nonce |-> <<"c">>,
            server_first |-> <<>>, salt |-> "none", signature |-> <<>> ]
    BY DEF Begun
  <2> HIDE DEF g, no
  <2>2. c = [ stage |-> 0, raised |-> no, mech |-> mech, binding |-> b,
              password |-> p, gs2 |-> g, nonce |-> <<"c">>,
              server_first |-> <<>>, salt |-> "none", signature |-> <<>> ]
    BY <1>6, <2>1
  <2>3. c.stage + 1 = 1
    BY <2>2
  <2>4. GetClientFirst(c) = [c EXCEPT !.stage = 1]
    BY <2>3 DEF GetClientFirst, AtStage
  <2>5. GetClientFirst(c) = Begun(mech, b, p)
    BY <2>1, <2>2, <2>4
  <2>6. c.raised = no /\ c.mech = mech /\ ClientFirst(c) = [gs2 |-> g, nonce |-> <<"c">>]
    BY <2>2 DEF ClientFirst
  <2>. QED
    BY <2>5, <2>6 DEF g, no
<1>8. CASE p = "none"
  <2>1. Fails /\ UNCHANGED auth
    BY <1>3, <1>8 DEF HandleSasl
  <2>. QED
    BY <1>1, <1>4, <2>1 DEF Fails, Over, ExchangeIsRight
<1>9. CASE p # "none"
  <2>1. /\ auth' = GetClientFirst(c) /\ UNCHANGED phase
        /\ Ask([kind |-> "first", mech |-> c.mech, message |-> ClientFirst(c)])
    BY <1>3, <1>5, <1>7, <1>9 DEF HandleSasl
  <2>2. asked' = <<[kind |-> "first", mech |-> mech, message |-> [gs2 |-> Gs2(b, mech.plus), nonce |-> <<"c">>]]>>
    BY <1>1, <1>7, <2>1, ClientAsks
  <2>3. p \in {"right", "wrong"}
    BY <1>9
  <2>. QED
    BY <1>1, <1>2, <1>3, <1>4, <1>6, <1>7, <2>1, <2>2, <2>3 DEF Requesting
<1>. QED
  BY <1>8, <1>9

(* The header says what the client knows of channels, and whether it binds one. *)
LEMMA HeaderIs ==
  ASSUME NEW b \in {NoBinding, Binding}, NEW x \in Bindings, NEW mech \in Mechanisms, Agreed(mech, b, x)
  PROVE  LET g == Gs2(b, mech.plus) IN
         /\ mech.plus \in BOOLEAN
         /\ ~(g[1] = "y" /\ x # NoBinding) /\ ~(g[1] = "n" /\ mech.plus)
         /\ g[1] = "p" <=> mech.plus
         /\ g[1] = "p" => x # NoBinding /\ b = Binding /\ (g[2] # x[1] <=> x = OtherType)
<1>1. mech.plus \in BOOLEAN
  <2>1. Sha1.plus = FALSE /\ Sha256.plus = FALSE /\ Sha256Plus.plus = TRUE
    BY DEF Sha1, Sha256, Sha256Plus
  <2>. QED
    BY <2>1 DEF Mechanisms
<1>2. /\ Binding # NoBinding /\ Binding[1] = "tls-server-end-point"
      /\ OtherType[1] = "tls-unique" /\ OtherCert[1] = "tls-server-end-point"
  BY DEF Binding, NoBinding, OtherType, OtherCert
<1>3. CASE b = NoBinding
  <2>1. x = NoBinding /\ ~mech.plus /\ Gs2(b, mech.plus) = <<"n">>
    BY <1>3 DEF Agreed, Fits, Gs2
  <2>. QED
    BY <1>1, <2>1
<1>4. CASE b = Binding /\ mech.plus
  <2>1. x # NoBinding /\ Gs2(b, mech.plus) = <<"p", Binding[1]>>
    BY <1>2, <1>4 DEF Agreed, Gs2
  <2>2. Binding[1] # x[1] <=> x = OtherType
    BY <1>2, <2>1 DEF Bindings
  <2> DEFINE g == Gs2(b, mech.plus)
  <2>3. g[1] = "p" /\ g[2] = Binding[1]
    BY <2>1
  <2> HIDE DEF g
  <2>4. ("p" = "y") = FALSE /\ ("p" = "n") = FALSE
    OBVIOUS
  <2>5. /\ ~(g[1] = "y" /\ x # NoBinding) /\ ~(g[1] = "n" /\ mech.plus)
        /\ g[1] = "p" <=> mech.plus
        /\ g[1] = "p" => x # NoBinding /\ b = Binding /\ (g[2] # x[1] <=> x = OtherType)
    BY <1>4, <2>1, <2>2, <2>3, <2>4
  <2>. QED
    BY <1>1, <2>5 DEF g
<1>5. CASE b = Binding /\ ~mech.plus
  <2>1. x = NoBinding /\ Gs2(b, mech.plus) = <<"y">>
    BY <1>2, <1>5 DEF Agreed, Gs2
  <2>. QED
    BY <1>1, <1>5, <2>1
<1>. QED
  BY <1>3, <1>4, <1>5

LEMMA FromRequesting ==
  ASSUME Requesting, StartUp
  PROVE  (Over \/ Challenged)' /\ settings' = settings
<1>1. phase = "startup" /\ told = <<>>
  BY DEF Requesting
<1>2. PICK mech \in Mechanisms, b \in {NoBinding, Binding}, x \in Bindings, user \in Users, p \in {"right", "wrong"} :
       /\ Agreed(mech, b, x) /\ auth = Begun(mech, b, p) /\ peer = NewServer(Sha256, x, user)
       /\ asked = <<[kind |-> "first", mech |-> mech, message |-> [gs2 |-> Gs2(b, mech.plus), nonce |-> <<"c">>]]>>
  BY DEF Requesting
<1> DEFINE g == Gs2(b, mech.plus)   m == [gs2 |-> g, nonce |-> <<"c">>]   no == FALSE
           s0 == NewServer(mech, x, user)   s == SetClientFirst(s0, m)   e == FirstError(s0, m)
<1>3. AnswerClientFirst /\ asked' = <<>> /\ phase' = "startup" /\ settings' = settings /\ auth' = auth
      /\ Head(asked).mech = mech /\ Head(asked).message = m
  BY <1>1, <1>2, ServerOn
<1>4. peer.binding = x /\ peer.user = user
  BY <1>2 DEF NewServer
<1>5. IF s.raised THEN peer' = GetServerFinal(s) /\ Tell(Error)
      ELSE /\ peer' = GetServerFirst(s)
           /\ Tell(<<[kind |-> "continue", message |-> ServerFirst(s)]>>)
  BY <1>3, <1>4 DEF AnswerClientFirst
<1>6. /\ mech.plus \in BOOLEAN
      /\ ~(g[1] = "y" /\ x # NoBinding) /\ ~(g[1] = "n" /\ mech.plus)
      /\ g[1] = "p" <=> mech.plus
      /\ g[1] = "p" => x # NoBinding /\ b = Binding /\ (g[2] # x[1] <=> x = OtherType)
  BY <1>2, HeaderIs
<1> HIDE DEF g, no
<1>7. s0 = [ stage |-> 0, raised |-> no, error |-> "none", plus |-> mech.plus, binding |-> x,
             user |-> user, gs2 |-> <<>>, client_first |-> <<>>, nonce |-> <<>>, signature |-> <<>> ]
  BY <1>2, NewServerIs DEF Agreed, no
<1> HIDE DEF s0
<1>8. m.gs2 = g /\ m.nonce = <<"c">>
  OBVIOUS
<1> HIDE DEF m
<1>9. /\ e = "none" <=> ~(mech.plus /\ x = OtherType) /\ user # {}
      /\ e # "none" => ~mech.plus \/ x = OtherType \/ user = {}
  <2>1. s0.binding = x /\ s0.plus = mech.plus /\ s0.user = user
    BY <1>7
  <2>. QED
    BY <1>6, <1>8, <2>1 DEF FirstError
<1>10. s = IF e # "none" THEN SetError(s0, e)
           ELSE [s0 EXCEPT !.stage = 1, !.gs2 = g, !.client_first = m,
                           !.plus = s0.plus \/ g[1] = "p", !.nonce = <<"c">> \o <<"s">>]
  <2>1. s0.stage + 1 = 1
    BY <1>7
  <2>. QED
    BY <1>8, <2>1 DEF SetClientFirst, AtStage
<1> HIDE DEF e, s
<1>11. CASE e # "none"
  <2>1. s = [s0 EXCEPT !.raised = TRUE, !.error = e, !.stage = 3]
    BY <1>10, <1>11 DEF SetError
  <2>2. s.raised /\ s.stage = 3 /\ s.binding = x /\ s.user = user /\ [s EXCEPT !.stage = 4].raised
        /\ [s EXCEPT !.stage = 4].binding = x /\ [s EXCEPT !.stage = 4].user = user
    BY <1>7, <2>1
  <2>3. peer' = [s EXCEPT !.stage = 4] /\ Tell(Error)
    BY <1>5, <2>2 DEF GetServerFinal, AtStage
  <2>4. peer'.binding = x /\ peer'.user = user
    BY <2>2, <2>3
  <2>5. told' = Error
    <3>1. Error \in Seq({[kind |-> "error"]})
      BY DEF Error
    <3>. QED
      BY <1>1, <2>3, <3>1, ServerTells
  <2>6. auth'.mech = mech /\ auth'.binding = b /\ auth'.stage = 1
    BY <1>2, <1>3 DEF Begun
  <2>7. Incompatible'
    <3>1. user = {} \/ (mech.plus /\ x = OtherType)
      BY <1>9, <1>11
    <3>2. Binding # OtherType
      BY DEF Binding, OtherType
    <3>. QED
      BY <1>6, <2>4, <2>6, <3>1, <3>2 DEF Incompatible
  <2>. QED
    BY <1>3, <2>5, <2>6, <2>7 DEF Over, ExchangeIsRight, Done
<1>12. CASE e = "none"
  <2>1. PICK u \in Accounts : user = {u}
    BY <1>2, <1>9, <1>12 DEF Users
  <2>2. (s0.plus \/ g[1] = "p") = mech.plus
    BY <1>6, <1>7
  <2>3. s = [s0 EXCEPT !.stage = 1, !.gs2 = g, !.client_first = m,
                       !.plus = mech.plus, !.nonce = <<"c">> \o <<"s">>]
    BY <1>10, <1>12, <2>2
  <2> DEFINE nonce == <<"c">> \o <<"s">>
  <2> HIDE DEF nonce
  <2>4. s = [ stage |-> 1, raised |-> no, error |-> "none", plus |-> mech.plus, binding |-> x,
              user |-> user, gs2 |-> g, client_first |-> m, nonce |-> nonce, signature |-> <<>> ]
    BY <1>7, <2>3 DEF nonce
  <2>5. ~s.raised
    BY <2>4 DEF no
  <2>6. peer' = GetServerFirst(s) /\ Tell(<<[kind |-> "continue", message |-> ServerFirst(s)]>>)
    BY <1>5, <2>5
  <2>7. peer' = [ stage |-> 2, raised |-> no, error |-> "none", plus |-> mech.plus, binding |-> x,
                  user |-> user, gs2 |-> g, client_first |-> m, nonce |-> nonce, signature |-> <<>> ]
    BY <2>4, <2>6 DEF GetServerFirst, AtStage
  <2>8. peer' = Challenger(mech, b, x, u)
    BY <2>1, <2>7 DEF Challenger, Nonce, no, nonce, g, m
  <2>9. ServerFirst(s) = ServerFirst(peer')
    BY <2>4, <2>7 DEF ServerFirst, User
  <2>10. told' = <<[kind |-> "continue", message |-> ServerFirst(peer')]>>
    <3>1. <<[kind |-> "continue", message |-> ServerFirst(s)]>> \in Seq({[kind |-> "continue", message |-> ServerFirst(s)]})
      OBVIOUS
    <3>2. told' = <<[kind |-> "continue", message |-> ServerFirst(s)]>>
      BY <1>1, <2>6, <3>1, ServerTells
    <3>. QED
      BY <2>9, <3>2
  <2>11. x \in Bindings \ {OtherType}
    <3>1. ~mech.plus => x = NoBinding
      BY <1>2 DEF Agreed
    <3>2. NoBinding # OtherType
      BY DEF NoBinding, OtherType
    <3>. QED
      BY <1>9, <1>12, <3>1, <3>2
  <2>. QED
    BY <1>2, <1>3, <2>8, <2>10, <2>11 DEF Challenged
<1>. QED
  BY <1>11, <1>12

LEMMA NonceGrows == IsPrefix(<<"c">>, <<"c">> \o <<"s">>)
<1> DEFINE S == {"c", "s"}   q == <<"c">>   t == <<"c">> \o <<"s">>
<1>1. q \in Seq(S) /\ Len(q) = 1 /\ q[1] = "c" /\ <<"s">> \in Seq(S) /\ Len(<<"s">>) = 1
  OBVIOUS
<1>2. t \in Seq(S) /\ Len(t) = 2 /\ t[1] = "c"
  <2>1. /\ t \in Seq(S) /\ Len(t) = Len(q) + Len(<<"s">>)
        /\ \A i \in 1 .. Len(q) : t[i] = q[i]
    BY <1>1, ConcatIs
  <2>. QED
    BY <1>1, <2>1
<1> HIDE DEF q, t
<1>3. ASSUME NEW r \in Seq(S), Len(r) \in Nat \ {0}, r[1] = "c"
      PROVE  SubSeq(r, 1, 1) = [i \in 1 .. 1 |-> "c"]
  BY <1>3
<1>4. SubSeq(q, 1, 1) = SubSeq(t, 1, 1)
  BY <1>1, <1>2, <1>3
<1>5. IsPrefix(q, t)
  BY <1>1, <1>2, <1>4 DEF IsPrefix
<1>. QED
  BY <1>5 DEF q, t

(* The client's end once it has replied to message m. *)
LEMMA ReplyIs ==
  ASSUME NEW mech, NEW b, NEW p, NEW m, NEW c, c = Replied(mech, b, p, m)
  PROVE  /\ c.stage = 3 /\ ~c.raised /\ c.mech = mech /\ c.binding = b /\ c.password = p
         /\ c.gs2 = Gs2(b, mech.plus) /\ c.nonce = m.nonce /\ c.salt = m.salt /\ c.server_first = m
         /\ c.signature = Signature(Key(p, m.salt), ClientMessage(c))
         /\ [c EXCEPT !.stage = 4].stage = 4 /\ ~[c EXCEPT !.stage = 4].raised
         /\ [c EXCEPT !.stage = 4].mech = mech /\ [c EXCEPT !.stage = 4].binding = b
         /\ [c EXCEPT !.stage = 4].password = p /\ [c EXCEPT !.stage = 4].nonce = m.nonce
<1> DEFINE g == Gs2(b, mech.plus)   no == FALSE
           c0 == [ stage |-> 2, raised |-> no, mech |-> mech, binding |-> b,
                   password |-> p, gs2 |-> g, nonce |-> m.nonce,
                   server_first |-> m, salt |-> m.salt, signature |-> <<>> ]
           sig == Signature(Key(p, m.salt), ClientMessage(c0))
<1>2. c = [c0 EXCEPT !.stage = 3, !.signature = sig]
  BY DEF Replied
<1>3. c0 = [ stage |-> 2, raised |-> no, mech |-> mech, binding |-> b,
             password |-> p, gs2 |-> g, nonce |-> m.nonce,
             server_first |-> m, salt |-> m.salt, signature |-> <<>> ]
  OBVIOUS
<1> HIDE DEF g, no, sig, c0
<1>4. c = [ stage |-> 3, raised |-> no, mech |-> mech, binding |-> b,
            password |-> p, gs2 |-> g, nonce |-> m.nonce,
            server_first |-> m, salt |-> m.salt, signature |-> sig ]
  BY <1>2, <1>3
<1>5. ClientMessage(c) = ClientMessage(c0)
  BY <1>3, <1>4 DEF ClientMessage
<1>6. c.signature = Signature(Key(p, m.salt), ClientMessage(c))
  BY <1>4, <1>5 DEF sig
<1>. QED
  BY <1>4, <1>6 DEF g, no

LEMMA FromChallenged ==
  ASSUME Challenged, StartUp
  PROVE  (Over \/ Replying)' /\ settings' = settings
<1>1. phase = "startup" /\ asked = <<>>
  BY DEF Challenged
<1>2. PICK mech \in Mechanisms, b \in {NoBinding, Binding}, x \in Bindings \ {OtherType}, u \in Accounts, p \in {"right", "wrong"} :
       /\ Agreed(mech, b, x) /\ auth = Begun(mech, b, p) /\ peer = Challenger(mech, b, x, u)
       /\ told = <<[kind |-> "continue", message |-> ServerFirst(peer)]>>
  BY DEF Challenged
<1> DEFINE m == ServerFirst(peer)   c == SetServerFirst(auth, m)
<1>3. HandleSaslContinue /\ told' = <<>> /\ Head(told).message = m
  BY <1>1, <1>2, ClientOn
<1>4. settings' = settings /\ peer' = peer
  BY <1>3 DEF HandleSaslContinue
<1>5. IF c.raised THEN Fails /\ auth' = c
      ELSE /\ auth' = GetClientFinal(c)
           /\ Ask([kind |-> "final", message |-> ClientFinal(c)])
           /\ UNCHANGED phase
  BY <1>3 DEF HandleSaslContinue
<1>6. m = [nonce |-> Nonce, salt |-> u.salt, iterations |-> u.iterations] /\ peer.user = {u}
  <2>1. peer.user = {u} /\ peer.nonce = Nonce
    BY <1>2 DEF Challenger
  <2>2. User(peer) = u
    BY <2>1 DEF User
  <2>. QED
    BY <2>1, <2>2 DEF ServerFirst
<1>7. m.iterations = u.iterations /\ m.nonce = Nonce /\ "error" \notin DOMAIN m
  BY <1>6
<1> HIDE DEF m
<1> DEFINE g == Gs2(b, mech.plus)   no == FALSE
<1>8. auth =
          [ stage |-> 1, raised |-> no, mech |-> mech, binding |-> b,
            password |-> p, gs2 |-> g, nonce |-> <<"c">>,
            server_first |-> <<>>, salt |-> "none", signature |-> <<>> ]
  BY <1>2 DEF Begun
<1> HIDE DEF g, no
<1>9. auth.stage + 1 = 2 /\ IsPrefix(auth.nonce, m.nonce)
  BY <1>7, <1>8, NonceGrows DEF Nonce
<1>10. c = IF u.iterations < MinimumIterations THEN [auth EXCEPT !.raised = TRUE]
           ELSE [auth EXCEPT !.stage = 2, !.nonce = m.nonce, !.salt = m.salt, !.server_first = m]
  BY <1>7, <1>9 DEF SetServerFirst, AtStage, Raised
<1> HIDE DEF c
<1>11. CASE u.iterations < MinimumIterations
  <2>1. c.raised /\ c.stage = 1
    BY <1>8, <1>10, <1>11
  <2>2. phase' = "failed" /\ asked' = <<>> /\ auth' = c
    BY <1>1, <1>5, <2>1 DEF Fails
  <2>3. Incompatible'
    BY <1>4, <1>6, <1>11 DEF Incompatible
  <2>. QED
    BY <1>4, <2>1, <2>2, <2>3 DEF Over, ExchangeIsRight, Done
<1>12. CASE ~(u.iterations < MinimumIterations)
  <2>1. c = [ stage |-> 2, raised |-> no, mech |-> mech, binding |-> b,
              password |-> p, gs2 |-> g, nonce |-> m.nonce,
              server_first |-> m, salt |-> m.salt, signature |-> <<>> ]
    BY <1>8, <1>10, <1>12
  <2>2. /\ auth' = GetClientFinal(c) /\ phase' = phase
        /\ Ask([kind |-> "final", message |-> ClientFinal(c)])
    BY <1>5, <2>1 DEF no
  <2> DEFINE sig == Signature(Key(p, m.salt), ClientMessage(c))
  <2>3. Replied(mech, b, p, m) = [c EXCEPT !.stage = 3, !.signature = sig]
    BY <2>1 DEF Replied, g, no
  <2>4. Signature(Key(c.password, c.salt), ClientMessage(c)) = sig
    BY <2>1
  <2> HIDE DEF sig
  <2>7. GetClientFinal(c) = [c EXCEPT !.stage = 3, !.signature = sig]
    <3>1. c.stage + 1 = 3
      BY <2>1
    <3>. QED
      BY <2>4, <3>1 DEF GetClientFinal, AtStage
  <2>8. auth' = Replied(mech, b, p, m)
    BY <2>2, <2>3, <2>7
  <2>9. ClientFinal(auth') = ClientFinal(c)
    <3>1. /\ auth'.binding = b /\ auth'.gs2 = g /\ auth'.nonce = m.nonce /\ auth'.password = p
          /\ auth'.salt = m.salt /\ auth'.server_first = m
      <4> DEFINE a == auth'
      <4>1. a = Replied(mech, b, p, m)
        BY <2>8
      <4> HIDE DEF a
      <4>2. a.binding = b /\ a.gs2 = Gs2(b, mech.plus) /\ a.nonce = m.nonce /\ a.password = p /\ a.salt = m.salt /\ a.server_first = m
        BY ONLY <4>1, ReplyIs
      <4>. QED
        BY <4>2 DEF a, g
    <3>2. ClientMessage(auth') = ClientMessage(c)
      BY <2>1, <3>1 DEF ClientMessage
    <3>. QED
      BY <2>1, <3>1, <3>2 DEF ClientFinal
  <2>10. asked' = <<[kind |-> "final", message |-> ClientFinal(auth')]>>
    BY <1>1, <2>2, <2>9, ClientAsks
  <2>11. u.iterations >= MinimumIterations
    BY <1>12 DEF Accounts, MinimumIterations
  <2>12. peer' = Challenger(mech, b, x, u) /\ auth' = Replied(mech, b, p, ServerFirst(peer'))
    BY <1>2, <1>4, <2>8 DEF m
  <2>. QED
    BY <1>1, <1>2, <1>3, <1>4, <2>2, <2>10, <2>11, <2>12 DEF Replying
<1>. QED
  BY <1>11, <1>12

LEMMA FirstThen ==
  ASSUME NEW S, NEW f \in S, NEW q \in Seq(S)
  PROVE  <<f>> \o q # <<>> /\ Head(<<f>> \o q) = f /\ Tail(<<f>> \o q) = q
<1> DEFINE one == <<f>>   t == one \o q
<1>1. one \in Seq(S) /\ Len(one) = 1 /\ one[1] = f
  OBVIOUS
<1> HIDE DEF one
<1>2. /\ t \in Seq(S) /\ Len(q) \in Nat /\ Len(t) = 1 + Len(q) /\ t[1] = f
      /\ \A i \in 1 .. Len(q) : t[1 + i] = q[i]
  <2>1. /\ t \in Seq(S) /\ Len(q) \in Nat /\ Len(t) = Len(one) + Len(q)
        /\ \A i \in 1 .. Len(one) : t[i] = one[i]
        /\ \A i \in 1 .. Len(q) : t[Len(one) + i] = q[i]
    BY <1>1, ConcatIs
  <2>. QED
    BY <1>1, <2>1
<1> HIDE DEF t
<1>3. t # <<>>
  BY <1>2, QueueIs
<1>4. /\ Tail(t) \in Seq(S) /\ Len(Tail(t)) = Len(q) /\ Head(t) = f
      /\ \A i \in 1 .. Len(q) : Tail(t)[i] = t[i + 1]
  <2>1. /\ Tail(t) \in Seq(S) /\ Len(Tail(t)) = Len(t) - 1 /\ Head(t) = t[1]
        /\ \A i \in 1 .. Len(t) - 1 : Tail(t)[i] = t[i + 1]
    BY <1>2, <1>3, TailIs
  <2>. QED
    BY <1>2, <2>1
<1>5. \A i \in 1 .. Len(q) : Tail(t)[i] = q[i]
  BY <1>2, <1>4
<1>6. Tail(t) = q
  BY <1>2, <1>4, <1>5, SeqEqual
<1>. QED
  BY <1>3, <1>4, <1>6 DEF t, one

(* The bindings that the two ends compute differ if a bound channel does. *)
LEMMA CbindsAgree ==
  ASSUME NEW b \in {NoBinding, Binding}, NEW x \in Bindings \ {OtherType}, NEW mech \in Mechanisms, Agreed(mech, b, x)
  PROVE  LET g == Gs2(b, mech.plus) IN CbindInput(b, g) = CbindInput(x, g) <=> ~(mech.plus /\ b # x)
<1> DEFINE g == Gs2(b, mech.plus)
<1>1. g[1] = "p" <=> mech.plus
  BY HeaderIs
<1>2. g[1] = "p" => b = Binding /\ x # NoBinding
  BY HeaderIs
<1>3. Binding[2] # OtherCert[2]
  BY DEF Binding, OtherCert
<1> HIDE DEF g
<1>4. CASE mech.plus
  <2>1. x = Binding \/ x = OtherCert
    BY <1>1, <1>2, <1>4 DEF Bindings
  <2>2. CbindInput(b, g) = <<g, b[2]>> /\ CbindInput(x, g) = <<g, x[2]>>
    BY <1>1, <1>4 DEF CbindInput
  <2>3. CbindInput(b, g) = CbindInput(x, g) <=> b[2] = x[2]
    BY <2>2
  <2>4. b[2] = x[2] <=> b = x
    <3>1. b = Binding
      BY <1>1, <1>2, <1>4
    <3>. QED
      BY <1>3, <2>1, <3>1
  <2>5. CbindInput(b, g) = CbindInput(x, g) <=> ~(mech.plus /\ b # x)
    BY <1>4, <2>3, <2>4
  <2>. QED
    BY <2>5 DEF g
<1>5. CASE ~mech.plus
  <2>1. CbindInput(b, g) = <<g>> /\ CbindInput(x, g) = <<g>>
    BY <1>1, <1>5 DEF CbindInput
  <2>. QED
    BY <1>5, <2>1 DEF g
<1>. QED
  BY <1>4, <1>5

LEMMA FromReplying ==
  ASSUME Replying, StartUp
  PROVE  (Over \/ Accepting)' /\ settings' = settings
<1>1. phase = "startup" /\ told = <<>>
  BY DEF Replying
<1>2. PICK mech \in Mechanisms, b \in {NoBinding, Binding}, x \in Bindings \ {OtherType}, u \in Accounts, p \in {"right", "wrong"} :
       /\ Agreed(mech, b, x) /\ u.iterations >= MinimumIterations
       /\ peer = Challenger(mech, b, x, u) /\ auth = Replied(mech, b, p, ServerFirst(peer))
       /\ asked = <<[kind |-> "final", message |-> ClientFinal(auth)]>>
  BY DEF Replying
<1> DEFINE m == ClientFinal(auth)   s == SetClientFinal(peer, m)   e == FinalError(peer, m)
           g == Gs2(b, mech.plus)   no == FALSE   first == ServerFirst(peer)
<1>3. AnswerClientFinal /\ asked' = <<>> /\ phase' = "startup" /\ settings' = settings /\ auth' = auth
      /\ Head(asked).message = m
  BY <1>1, <1>2, ServerOn
<1>4. /\ peer' = GetServerFinal(s)
      /\ Tell(IF s.raised THEN Error ELSE <<[kind |-> "final", message |-> ServerFinal(s)]>> \o Welcome)
  BY <1>3 DEF AnswerClientFinal
<1>5. CbindInput(b, g) = CbindInput(x, g) <=> ~(mech.plus /\ b # x)
  BY <1>2, CbindsAgree
<1>6. peer = [ stage |-> 2, raised |-> no, error |-> "none", plus |-> mech.plus, binding |-> x, user |-> {u},
               gs2 |-> g, client_first |-> [gs2 |-> g, nonce |-> <<"c">>], nonce |-> Nonce, signature |-> <<>> ]
  BY <1>2 DEF Challenger
<1> HIDE DEF g, no
<1>7. /\ peer.stage = 2 /\ peer.error = "none" /\ peer.binding = x /\ peer.user = {u} /\ peer.gs2 = g
      /\ peer.client_first = [gs2 |-> g, nonce |-> <<"c">>] /\ peer.nonce = Nonce
  BY <1>6
<1>8. User(peer) = u
  BY <1>7 DEF User
<1>9. first = [nonce |-> Nonce, salt |-> u.salt, iterations |-> u.iterations]
  BY <1>7, <1>8 DEF ServerFirst
<1>10. first.nonce = Nonce /\ first.salt = u.salt
  BY <1>9
<1> HIDE DEF first
<1>11. /\ auth.stage = 3 /\ ~auth.raised /\ auth.mech = mech /\ auth.binding = b /\ auth.password = p
       /\ auth.gs2 = g /\ auth.nonce = Nonce /\ auth.salt = u.salt /\ auth.server_first = first
       /\ auth.signature = Signature(Key(p, u.salt), ClientMessage(auth))
  <2> DEFINE a == auth
  <2>1. a = Replied(mech, b, p, first)
    BY <1>2 DEF first
  <2> HIDE DEF a
  <2>2. /\ a.stage = 3 /\ ~a.raised /\ a.mech = mech /\ a.binding = b /\ a.password = p
        /\ a.gs2 = Gs2(b, mech.plus) /\ a.nonce = first.nonce /\ a.salt = first.salt /\ a.server_first = first
        /\ a.signature = Signature(Key(p, first.salt), ClientMessage(a))
    BY ONLY <2>1, ReplyIs
  <2>. QED
    BY <1>10, <2>2 DEF a, g
<1> DEFINE A == ClientMessage(auth)
<1>12. A = AuthMessage([gs2 |-> g, nonce |-> <<"c">>], first, CbindInput(b, g), Nonce)
  BY <1>11 DEF ClientMessage
<1> HIDE DEF A
<1>13. m = [cbind |-> CbindInput(b, g), nonce |-> Nonce, proof |-> Proof(Key(p, u.salt), A)]
  BY <1>11 DEF ClientFinal, A
<1>14. m.cbind = CbindInput(b, g) /\ m.nonce = Nonce /\ m.proof = Proof(Key(p, u.salt), A)
  BY <1>13
<1> HIDE DEF m
<1>15. ServerMessage(peer, m) = A
  BY <1>7, <1>12, <1>14 DEF ServerMessage, first
<1>16. u.password = "right"
  BY DEF Accounts
<1>17. e = "none" <=> ~(mech.plus /\ b # x) /\ p = "right"
  <2>1. Proof(Key(p, u.salt), A) = Proof(Key("right", u.salt), A) <=> p = "right"
    BY DEF Proof, Key
  <2>. QED
    BY <1>5, <1>7, <1>8, <1>14, <1>15, <1>16, <2>1 DEF FinalError
<1>18. s = IF e # "none" THEN SetError(peer, e)
           ELSE [peer EXCEPT !.stage = 3, !.signature = Signature(Key("right", u.salt), A)]
  <2>1. peer.stage + 1 = 3
    BY <1>7
  <2>. QED
    BY <1>8, <1>15, <1>16, <2>1 DEF SetClientFinal, AtStage
<1> HIDE DEF e, s
<1>19. CASE e # "none"
  <2>1. s = [peer EXCEPT !.raised = TRUE, !.error = e, !.stage = 3]
    BY <1>18, <1>19 DEF SetError
  <2>2. s.raised /\ s.stage = 3 /\ [s EXCEPT !.stage = 4].binding = x
    BY <1>6, <2>1
  <2>3. peer' = [s EXCEPT !.stage = 4] /\ Tell(Error)
    BY <1>4, <2>2 DEF GetServerFinal, AtStage
  <2>4. told' = Error
    <3>1. Error \in Seq({[kind |-> "error"]})
      BY DEF Error
    <3>. QED
      BY <1>1, <2>3, <3>1, ServerTells
  <2>5. Incompatible'
    BY <1>3, <1>11, <1>17, <1>19, <2>2, <2>3 DEF Incompatible
  <2>6. auth'.stage = 3
    BY <1>3, <1>11
  <2>. QED
    BY <1>3, <2>4, <2>5, <2>6 DEF Over, ExchangeIsRight, Done
<1>20. CASE e = "none"
  <2> DEFINE sig == Signature(Key("right", u.salt), A)
  <2>1. s = [peer EXCEPT !.stage = 3, !.signature = sig]
    BY <1>18, <1>20
  <2>2. sig = auth.signature
    BY <1>11, <1>17, <1>20 DEF A
  <2> HIDE DEF sig
  <2>3. s = [ stage |-> 3, raised |-> no, error |-> "none", plus |-> mech.plus, binding |-> x, user |-> {u},
              gs2 |-> g, client_first |-> [gs2 |-> g, nonce |-> <<"c">>], nonce |-> Nonce, signature |-> sig ]
    BY <1>6, <2>1
  <2>4. ~s.raised
    BY <2>3 DEF no
  <2>5. ServerFinal(s) = [signature |-> auth.signature]
    BY <2>2, <2>3 DEF ServerFinal
  <2>6. peer' = [ stage |-> 4, raised |-> no, error |-> "none", plus |-> mech.plus, binding |-> x, user |-> {u},
                  gs2 |-> g, client_first |-> [gs2 |-> g, nonce |-> <<"c">>], nonce |-> Nonce, signature |-> sig ]
    <3>1. s.stage + 1 = 4
      BY <2>3
    <3>2. peer' = [s EXCEPT !.stage = 4]
      BY <1>4, <3>1 DEF GetServerFinal, AtStage
    <3>. QED
      BY <2>3, <3>2
  <2>7. peer'.stage = 4 /\ ~peer'.raised /\ peer'.binding = x /\ peer'.user = {u} /\ peer'.nonce = Nonce
    BY <2>6 DEF no
  <2>8. ServerFirst(peer') = first
    <3>1. User(peer') = u
      BY <2>7 DEF User
    <3>. QED
      BY <1>9, <2>7, <3>1 DEF ServerFirst
  <2> DEFINE final == [kind |-> "final", message |-> [signature |-> auth.signature]]
             status0 == [kind |-> "status"]   ready == [kind |-> "ready"]
  <2>9. told' = <<final>> \o Welcome
    <3>1. <<final>> \in Seq({final, status0, ready}) /\ Welcome \in Seq({final, status0, ready})
      BY DEF Welcome
    <3> HIDE DEF final, status0, ready
    <3>2. <<final>> \o Welcome \in Seq({final, status0, ready})
      BY <3>1, ConcatIs
    <3>3. Tell(<<final>> \o Welcome)
      BY <1>4, <2>4, <2>5 DEF final
    <3>. QED
      BY <1>1, <3>2, <3>3, ServerTells
  <2>10. told' # <<>> /\ Head(told') = final /\ Tail(told') = Welcome
    <3>1. final \in {final, status0, ready} /\ Welcome \in Seq({final, status0, ready})
      BY DEF Welcome
    <3> HIDE DEF final, status0, ready
    <3>. QED
      BY <2>9, <3>1, FirstThen
  <2>11. ~Incompatible'
    <3>1. p = "right" /\ ~(mech.plus /\ b # x) /\ ~(u.iterations < MinimumIterations)
      BY <1>2, <1>17, <1>20 DEF Accounts, MinimumIterations
    <3>2. auth'.password = p /\ auth'.mech = mech /\ auth'.binding = b
      BY <1>3, <1>11
    <3>. QED
      BY <2>7, <3>1, <3>2 DEF Incompatible
  <2>12. auth' = Replied(mech, b, p, ServerFirst(peer')) /\ auth'.nonce = peer'.nonce
    BY <1>2, <1>3, <1>11, <2>7, <2>8 DEF first
  <2>. QED
    BY <1>2, <1>3, <2>7, <2>10, <2>11, <2>12, RemainsIs DEF Accepting, Done
<1>. QED
  BY <1>19, <1>20

LEMMA FromAccepting ==
  ASSUME Accepting, StartUp
  PROVE  Over' /\ settings' = settings
<1>1. /\ phase = "startup" /\ asked = <<>> /\ Remains(Tail(told))
      /\ Head(told) = [kind |-> "final", message |-> [signature |-> auth.signature]]
      /\ ~Incompatible /\ peer.stage = Done /\ ~peer.raised /\ auth.nonce = peer.nonce
  BY DEF Accepting
<1> DEFINE a == auth   m == ServerFirst(peer)
<1>2. PICK mech \in Mechanisms, b \in {NoBinding, Binding}, p \in {"right", "wrong"} : a = Replied(mech, b, p, m)
  BY DEF Accepting
<1>3. HandleSaslFinal /\ told' = Tail(told)
  BY <1>1, ClientOn
<1>4. auth' = SetServerFinal(a, Head(told).message) /\ asked' = asked /\ settings' = settings /\ peer' = peer
      /\ phase' = IF auth'.raised THEN "failed" ELSE phase
  BY <1>3 DEF HandleSaslFinal
<1>5. Head(told).message.signature = a.signature /\ "error" \notin DOMAIN Head(told).message
  BY <1>1
<1> HIDE DEF a, m
<1>6. /\ a.stage = 3 /\ a.mech = mech /\ a.binding = b /\ a.password = p /\ a.nonce = m.nonce
      /\ [a EXCEPT !.stage = 4].stage = 4 /\ ~[a EXCEPT !.stage = 4].raised
      /\ [a EXCEPT !.stage = 4].mech = mech /\ [a EXCEPT !.stage = 4].binding = b
      /\ [a EXCEPT !.stage = 4].password = p /\ [a EXCEPT !.stage = 4].nonce = m.nonce
  BY ONLY <1>2, ReplyIs
<1>7. auth' = [a EXCEPT !.stage = 4]
  <2>1. a.stage + 1 = 4
    BY <1>6
  <2>. QED
    BY <1>4, <1>5, <2>1 DEF SetServerFinal, AtStage
<1>8. /\ auth'.stage = 4 /\ ~auth'.raised /\ auth'.mech = auth.mech /\ auth'.binding = auth.binding
      /\ auth'.password = auth.password /\ auth'.nonce = auth.nonce
  BY <1>6, <1>7 DEF a
<1>9. ~Incompatible'
  BY <1>1, <1>4, <1>8 DEF Incompatible
<1>. QED
  BY <1>1, <1>3, <1>4, <1>8, <1>9 DEF Over, ExchangeIsRight, Done

LEMMA StartKeeps ==
  ASSUME StartInv, [ConnectionNext]_all
  PROVE  StartInv'
<1>1. CASE UNCHANGED startup
  BY <1>1 DEF startup, StartInv, Before, Over, Offered, Requesting, Challenged, Replying, Accepting,
              ExchangeIsRight, Incompatible
<1>2. CASE StartUp
  <2>1. settings \in [ssl : {"default", "off", "context"}, password : {"right", "wrong", "none"}]
    BY DEF StartInv
  <2>2. Before \/ Over \/ Offered \/ Requesting \/ Challenged \/ Replying \/ Accepting
    BY DEF StartInv
  <2>3. \/ Before' \/ Over' \/ Offered' \/ Requesting' \/ Challenged' \/ Replying' \/ Accepting'
    BY ONLY <1>2, <2>1, <2>2, FromBefore, FromOver, FromOffered, FromRequesting, FromChallenged,
       FromReplying, FromAccepting, Zenon
  <2>4. settings' \in {settings, [ssl |-> "off", password |-> "none"]}
    <3>1. settings' = settings \/ settings' \in {settings, [ssl |-> "off", password |-> "none"]}
      BY ONLY <1>2, <2>1, <2>2, FromBefore, FromOver, FromOffered, FromRequesting, FromChallenged,
         FromReplying, FromAccepting, Zenon
    <3>. QED
      BY <3>1
  <2>5. settings' \in [ssl : {"default", "off", "context"}, password : {"right", "wrong", "none"}]
    BY <2>1, <2>4
  <2>. QED
    BY <2>3, <2>5 DEF StartInv
<1>. QED
  BY <1>1, <1>2 DEF ConnectionNext, all

(* What each stage of the startup leaves on both sides, at every state. *)
THEOREM StartupInvariance == ConnectionSpec => []StartInv
<1>1. ConnectionInit => StartInv
  BY DEF ConnectionInit, StartInv, Before
<1>2. StartInv /\ [ConnectionNext]_all => StartInv'
  BY StartKeeps
<1>. QED
  BY <1>1, <1>2, PTL DEF ConnectionSpec

(* A session starts with nothing left of its startup, and stays in step unless an
   exception leaves one of its operations. *)
THEOREM StepKept == ConnectionSpec => []StepIsKept
<1>1. InStep => OutOfStepHasCause
  BY DEF InStep, Rest, Known, Stores, OutOfStepHasCause
<1>2. SessionInv /\ StartInv => StepIsKept
  BY <1>1, StartedRight DEF SessionInv, StepIsKept
<1>. QED
  BY <1>2, SessionInvariance, StartupInvariance, PTL

(* SCRAM fails only for what is wrong with the account, the password or the channel,
   and when the client accepts the server the server has accepted the client. *)
THEOREM ExchangeRight == ConnectionSpec => []ExchangeIsRight
<1>1. StartInv => ExchangeIsRight
  BY StartedRight
<1>. QED
  BY <1>1, StartupInvariance, PTL
=============================================================================
