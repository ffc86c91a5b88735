---------------------------- MODULE TrafficProofs ----------------------------
(***************************************************************************)
(* What holds of the two traffic logs for any number of requests, batches  *)
(* of any length, chunks of any size and any number of retries and faults. *)
(***************************************************************************)
EXTENDS Traffic, SequenceTheorems, FiniteSetTheorems, TLAPS

Clients == {"explicit", "rules", "filename", "unassigned"} \X (0..Versions)
Resolving == {"record"} \cup Tables
Progresses == [pc : {"idle", "insert"} \cup Resolving \cup Answers,
               batch : Batches \cup {<<>>}, rows : Seq(RowTypes), client : Clients,
               next : Nat \ {0}]

Types ==
  /\ content \in [Tables -> 0..Versions] /\ cached \in [Tables -> 0..Versions]
  /\ lock \in [Tables -> Requests \cup {Free}]
  /\ req \in [Requests -> Progresses]
  /\ stored \subseteq RowTypes
  /\ copies \in [Plain -> Nat] /\ deprived \in BOOLEAN /\ unsure \in Nat

\* A fetch holds the mutex of the table that its request is waiting for.
Held == \A t \in Tables : lock[t] # Free => In(lock[t], t)

HasRow(r, i) ==
  "readable" \in req[r].batch[i].is =>
    \E j \in 1..Len(req[r].rows) : req[r].rows[j].key = <<Log(r), req[r].batch[i].id>>
IsStored(key) == \E row \in stored : row.key = key

\* How far a request has come: the records before the next have their rows, and
\* the rows before the next chunk are stored.
Progress(r) ==
  LET q == req[r] IN
  /\ q.pc \in Resolving =>
       /\ r \notin Plain
       /\ q.next <= Len(q.batch) + 1 /\ (q.pc \in Tables => q.next <= Len(q.batch))
       /\ \A i \in 1..(q.next - 1) : HasRow(r, i)
  /\ q.pc = "insert" /\ r \notin Plain =>
       /\ \A i \in 1..Len(q.batch) : HasRow(r, i)
       /\ \A j \in 1..Len(q.rows) : j < q.next => IsStored(q.rows[j].key)
  /\ q.pc = "ok" =>
       \/ r \in Webhooks /\ unsure > 0
       \/ IF r \in Plain THEN copies[r] >= 1
          ELSE \A i \in 1..Len(q.batch) :
                 "readable" \in q.batch[i].is => IsStored(<<Log(r), q.batch[i].id>>)

\* A request files a spot under the built-in list only once deprived.
Justified(client) == client = <<"rules", 0>> => deprived
Sourced(r) ==
  Justified(req[r].client) /\ \A j \in 1..Len(req[r].rows) : Justified(req[r].rows[j].client)

OneRowEach == \A x, y \in stored : x.key = y.key => x = y

\* The inductive invariant.
Inv ==
  /\ Types /\ Held /\ OneRowEach /\ BuiltinNeedsDeprivation
  /\ \A r \in Requests : Progress(r) /\ Sourced(r)

----------------------------------------------------------------------------
(* Sequences and numbers *)

LEMMA Assumed ==
  /\ ChunkSize \in Nat \ {0} /\ Versions \in Nat
  /\ Callers = Requests /\ Free \notin Requests
  BY TrafficAssumption, TsdbAssumption

LEMMA BatchTypes ==
  ASSUME NEW b \in Batches \cup {<<>>}
  PROVE  /\ Len(b) \in Nat /\ DOMAIN b = 1..Len(b)
         /\ \A i \in 1..Len(b), log \in {"radio", "video"}, c \in Clients, t \in 0..Versions :
              [key |-> <<log, b[i].id>>, client |-> c, title |-> t] \in RowTypes
<1>1. Len(b) \in Nat /\ DOMAIN b = 1..Len(b)
  <2>1. b \in Seq(UNION {ToSet(c) : c \in Batches})
    <3>1. CASE b \in Batches
        BY <3>1, TrafficAssumption
    <3>2. CASE b = <<>>
        BY <3>2
    <3> QED BY <3>1, <3>2
  <2> QED BY <2>1
<1>2. \A i \in 1..Len(b) :
        b[i].id \in UNION {{c[j].id : j \in DOMAIN c} : c \in Batches}
    BY <1>1
<1> QED BY <1>1, <1>2 DEF RowTypes, Clients

\* The numbers are well-ordered, as the intervals 0..x are by inclusion.
LEMMA Least ==
  ASSUME NEW T \in SUBSET Nat, T # {}
  PROVE  \E x \in T : \A y \in T : x <= y
<1> DEFINE Up == {0..x : x \in T}
           R == StrictSubsetOrdering(Nat)
           S == FiniteSubsetsOf(Nat)
<1>1. IsWellFoundedOn(R, S)
    BY FS_StrictSubsetOrderingWellFounded
<1>2. Up \subseteq S /\ Up # {}
  <2>1. \A x \in T : 0..x \in SUBSET Nat /\ IsFiniteSet(0..x)
      BY FS_Interval
  <2>2. \A x \in T : 0..x \in S
      BY <2>1 DEF FiniteSubsetsOf
  <2> HIDE DEF S
  <2> QED BY <2>2
<1>3. PICK U \in Up : \A V \in Up : <<V, U>> \notin R
  <2> HIDE DEF Up, R, S
  <2> QED BY <1>1, <1>2, WFMin
<1>4. PICK x \in T : U = 0..x
    OBVIOUS
<1>5. ASSUME NEW y \in T, y < x PROVE FALSE
  <2>1. /\ 0..y \in SUBSET Nat /\ 0..x \in SUBSET Nat /\ 0..y \subseteq 0..x
        /\ x \in 0..x /\ x \notin 0..y
      BY <1>5
  <2>2. <<0..y, 0..x>> \in R
      BY <2>1 DEF StrictSubsetOrdering
  <2> QED BY <1>3, <1>4, <2>2
<1>6. \A y \in T : ~(y < x)
    BY <1>5
<1> QED BY <1>6

LEMMA MinIsLeast ==
  ASSUME NEW T \in SUBSET Nat, T # {}
  PROVE  Min(T) \in T /\ \A y \in T : Min(T) <= y
  BY Least DEF Min

----------------------------------------------------------------------------
(* The advertiser *)

LEMMA ClientType ==
  ASSUME NEW r, NEW rec, NEW v \in 0..Versions
  PROVE  Client(r, rec, v) \in Clients
<1> DEFINE ranks == {i \in 1..3 : Precedence(r)[i] \in Named(rec, v)}
<1>1. \A i \in 1..3 : Precedence(r)[i] \in {"explicit", "rules", "filename"}
    BY DEF Precedence
<1>2. CASE ranks = {}
    BY <1>2, Assumed DEF Client, Nobody, Clients
<1>3. CASE ranks # {}
  <2>1. Min(ranks) \in 1..3
      BY <1>3, MinIsLeast
  <2> QED BY <1>1, <1>3, <2>1, Assumed DEF Client, Clients
<1> QED BY <1>2, <1>3

\* Version 0 is named only by version 0, and not for a spot that needs no rules.
LEMMA ClientSource ==
  ASSUME NEW r, NEW rec, NEW v \in 0..Versions, Client(r, rec, v) = <<"rules", 0>>
  PROVE  v = 0 /\ NeedsRules(r, rec)
<1> DEFINE ranks == {i \in 1..3 : Precedence(r)[i] \in Named(rec, v)}
<1>1. ranks # {} /\ Precedence(r)[Min(ranks)] = "rules" /\ v = 0
    BY DEF Client, Nobody
<1>2. ASSUME r \notin Video, "explicit" \in rec.offers PROVE FALSE
  <2>1. 1 \in ranks
      BY <1>2 DEF Precedence, Named
  <2>2. Min(ranks) = 1
      BY <2>1, MinIsLeast
  <2> QED BY <1>1, <1>2, <2>2 DEF Precedence
<1> QED BY <1>1, <1>2 DEF NeedsRules

----------------------------------------------------------------------------
(* One request at a time *)

\* A step of one request leaves the others as far as they were.
LEMMA Local ==
  ASSUME Inv, NEW r \in Requests, Types', Held', OneRowEach', BuiltinNeedsDeprivation',
         \A q \in Requests \ {r} : req'[q] = req[q],
         stored \subseteq stored', deprived => deprived', unsure' >= unsure,
         \A q \in Plain : copies'[q] >= copies[q],
         Progress(r)', Sourced(r)'
  PROVE  Inv'
<1>1. ASSUME NEW q \in Requests, q # r PROVE Progress(q)' /\ Sourced(q)'
  <2>1. req'[q] = req[q] /\ Progress(q) /\ Sourced(q)
      BY <1>1 DEF Inv
  <2>2. Sourced(q)'
      BY <2>1 DEF Sourced, Justified
  <2>3. \A key : IsStored(key) => IsStored(key)'
      BY DEF IsStored
  <2>4. \A i : HasRow(q, i)' <=> HasRow(q, i)
      BY <2>1 DEF HasRow
  <2>5. q \in Plain => copies[q] \in Nat /\ copies'[q] \in Nat /\ copies'[q] >= copies[q]
      BY DEF Inv, Types
  <2>6. unsure > 0 => unsure' > 0
      BY DEF Inv, Types
  <2>7. ASSUME req[q].pc = "ok"
        PROVE  \/ q \in Webhooks /\ unsure' > 0
               \/ IF q \in Plain THEN copies'[q] >= 1
                  ELSE \A i \in 1..Len(req[q].batch) :
                         "readable" \in req[q].batch[i].is =>
                           IsStored(<<Log(q), req[q].batch[i].id>>)'
    <3>1. CASE q \in Webhooks /\ unsure > 0
        BY <2>6, <3>1
    <3>2. CASE q \in Plain /\ copies[q] >= 1
        BY <2>5, <3>2
    <3>3. CASE q \notin Plain /\ \A i \in 1..Len(req[q].batch) :
                 "readable" \in req[q].batch[i].is => IsStored(<<Log(q), req[q].batch[i].id>>)
        BY <2>1, <3>3 DEF IsStored
    <3> QED BY <2>1, <2>7, <3>1, <3>2, <3>3 DEF Progress
  <2>8. req[q].pc = "insert" /\ q \notin Plain =>
          /\ \A i \in 1..Len(req[q].batch) : HasRow(q, i)'
          /\ \A j \in 1..Len(req[q].rows) : j < req[q].next => IsStored(req[q].rows[j].key)'
      BY <2>1, <2>3, <2>4 DEF Progress
  <2>9. req[q].pc \in Resolving =>
          /\ q \notin Plain
          /\ req[q].next <= Len(req[q].batch) + 1
          /\ (req[q].pc \in Tables => req[q].next <= Len(req[q].batch))
          /\ \A i \in 1..(req[q].next - 1) : HasRow(q, i)'
      BY <2>1, <2>4 DEF Progress
  <2>10. Progress(q)'
    <3> HIDE DEF IsStored, HasRow
    <3> QED BY <2>1, <2>7, <2>8, <2>9 DEF Progress
  <2> QED BY <2>2, <2>10
<1> QED BY <1>1 DEF Inv

\* The fields that a step may change, all others staying.
LEMMA Updated ==
  ASSUME Types, NEW r \in Requests, NEW new \in Progresses,
         req' = [req EXCEPT ![r] = new]
  PROVE  /\ req' \in [Requests -> Progresses]
         /\ req'[r] = new
         /\ \A q \in Requests \ {r} : req'[q] = req[q]
  BY DEF Types

LEMMA MoveFields ==
  ASSUME Types, NEW r \in Requests, NEW pc \in {"insert"} \cup Resolving \cup Answers, Move(r, pc)
  PROVE  /\ req' \in [Requests -> Progresses]
         /\ req'[r] \in Progresses
         /\ req'[r] = [req[r] EXCEPT !.pc = pc] /\ req'[r].pc = pc
         /\ req'[r].batch = req[r].batch /\ req'[r].rows = req[r].rows
         /\ req'[r].client = req[r].client /\ req'[r].next = req[r].next
         /\ \A q \in Requests \ {r} : req'[q] = req[q]
  BY DEF Types, Progresses, Move

\* A request of its own keeps to itself the mutex it holds.
LEMMA HeldStays ==
  ASSUME Inv, NEW r \in Requests, lock' = lock, \A t \in Tables : lock[t] # r,
         \A q \in Requests \ {r} : req'[q] = req[q]
  PROVE  Held'
  BY DEF Inv, Types, Held, In

----------------------------------------------------------------------------
LEMMA ReceiveStep ==
  ASSUME Inv, NEW r \in Requests, NEW b \in Accepted(r), Receive(r, b) PROVE Inv'
<1> DEFINE pc == IF b # <<>> THEN IF r \in Plain THEN "insert" ELSE "record"
                 ELSE IF r \in Plain THEN "rejected" ELSE "ok"
           new == Begun(pc, b)
<1>1. b \in Batches
    BY KeptAssumption DEF Accepted
<1>2. new \in Progresses /\ req' = [req EXCEPT ![r] = new]
  <2>1. req' = [req EXCEPT ![r] = new]
      BY DEF Receive
  <2>2. Nobody \in Clients
      BY Assumed DEF Nobody, Clients
  <2> QED BY <1>1, <2>1, <2>2 DEF Begun, Progresses, Resolving, Answers
<1>3. /\ req' \in [Requests -> Progresses] /\ req'[r] = new
      /\ \A q \in Requests \ {r} : req'[q] = req[q]
    BY <1>2, Updated DEF Inv
<1>4. Types'
    BY <1>3 DEF Receive, Inv, Types
<1>5. Held'
  <2>1. \A t \in Tables : lock[t] # r
    <3>1. req[r].pc = "idle"
        BY DEF Receive, In
    <3> QED BY <3>1, Assumed DEF Inv, Held, In, Tables
  <2> QED BY <1>3, <2>1, HeldStays DEF Receive
<1>6. Progress(r)'
    BY <1>1, <1>2, <1>3, BatchTypes DEF Begun, Progress, HasRow, Resolving, Tables
<1>7. Sourced(r)'
    BY <1>2, <1>3 DEF Begun, Sourced, Justified, Nobody
<1>8. OneRowEach' /\ BuiltinNeedsDeprivation'
    BY DEF Receive, Inv, OneRowEach, BuiltinNeedsDeprivation
<1>9. stored' = stored /\ deprived' = deprived /\ unsure' >= unsure
      /\ \A q \in Plain : copies'[q] >= copies[q]
    BY DEF Receive, Inv, Types
<1> HIDE DEF new, pc
<1> QED BY Local, <1>3, <1>4, <1>5, <1>6, <1>7, <1>8, <1>9

LEMMA ResendStep ==
  ASSUME Inv, NEW r \in Requests, Resend(r) PROVE Inv'
<1> DEFINE pc == IF r \in Plain THEN "insert" ELSE "record"
           new == Begun(pc, req[r].batch)
<1>1. req[r].batch \in Batches \cup {<<>>}
    BY DEF Inv, Types, Progresses
<1>2. new \in Progresses /\ req' = [req EXCEPT ![r] = new]
  <2>1. req' = [req EXCEPT ![r] = new]
      BY DEF Resend
  <2>2. Nobody \in Clients
      BY Assumed DEF Nobody, Clients
  <2> QED BY <1>1, <2>1, <2>2 DEF Begun, Progresses, Resolving, Answers
<1>3. /\ req' \in [Requests -> Progresses] /\ req'[r] = new
      /\ \A q \in Requests \ {r} : req'[q] = req[q]
    BY <1>2, Updated DEF Inv
<1>4. Types'
    BY <1>3 DEF Resend, Inv, Types
<1>5. Held'
  <2>1. \A t \in Tables : lock[t] # r
    <3>1. req[r].pc = "error"
        BY DEF Resend, In
    <3> QED BY <3>1, Assumed DEF Inv, Held, In, Tables
  <2> QED BY <1>3, <2>1, HeldStays DEF Resend
<1>6. Progress(r)'
    BY <1>1, <1>2, <1>3, BatchTypes DEF Begun, Progress, HasRow, Resolving, Tables
<1>7. Sourced(r)'
    BY <1>2, <1>3 DEF Begun, Sourced, Justified, Nobody
<1>8. OneRowEach' /\ BuiltinNeedsDeprivation'
    BY DEF Resend, Inv, OneRowEach, BuiltinNeedsDeprivation
<1>9. stored' = stored /\ deprived' = deprived /\ unsure' >= unsure
      /\ \A q \in Plain : copies'[q] >= copies[q]
    BY DEF Resend, Inv, Types
<1> HIDE DEF new, pc
<1> QED BY Local, <1>3, <1>4, <1>5, <1>6, <1>7, <1>8, <1>9

----------------------------------------------------------------------------
LEMMA ReqTypes ==
  ASSUME Inv, NEW r \in Requests
  PROVE  /\ req[r] \in Progresses /\ Progress(r) /\ Sourced(r)
         /\ Len(req[r].batch) \in Nat /\ Len(req[r].rows) \in Nat /\ req[r].next \in Nat \ {0}
         /\ req[r].rows \in Seq(RowTypes) /\ DOMAIN req[r].batch = 1..Len(req[r].batch)
<1>1. req[r] \in Progresses
    BY DEF Inv, Types
<1>2. req[r].batch \in Batches \cup {<<>>} /\ req[r].rows \in Seq(RowTypes)
      /\ req[r].next \in Nat \ {0}
    BY <1>1 DEF Progresses
<1> QED BY <1>1, <1>2, BatchTypes DEF Inv

\* A request at some step, in full.
Rec(pc, q, rows, client, next) ==
  [pc |-> pc, batch |-> q.batch, rows |-> rows, client |-> client, next |-> next]

LEMMA RecFields ==
  ASSUME NEW q \in Progresses, NEW pc, NEW n, NEW c, NEW rows
  PROVE  /\ q = Rec(q.pc, q, q.rows, q.client, q.next)
         /\ [q EXCEPT !.pc = pc] = Rec(pc, q, q.rows, q.client, q.next)
         /\ [q EXCEPT !.next = n] = Rec(q.pc, q, q.rows, q.client, n)
         /\ [q EXCEPT !.pc = pc, !.next = n] = Rec(pc, q, q.rows, q.client, n)
         /\ [q EXCEPT !.pc = pc, !.client = c] = Rec(pc, q, q.rows, c, q.next)
         /\ [q EXCEPT !.pc = pc, !.next = n, !.rows = rows] = Rec(pc, q, rows, q.client, n)
<1>1. q = Rec(q.pc, q, q.rows, q.client, q.next)
    BY DEF Progresses, Rec
<1>2. [q EXCEPT !.pc = pc] = Rec(pc, q, q.rows, q.client, q.next)
    BY DEF Progresses, Rec
<1>3. [q EXCEPT !.next = n] = Rec(q.pc, q, q.rows, q.client, n)
    BY DEF Progresses, Rec
<1>4. [q EXCEPT !.pc = pc, !.next = n] = [[q EXCEPT !.pc = pc] EXCEPT !.next = n]
    BY DEF Progresses
<1>5. [q EXCEPT !.pc = pc, !.client = c] = [[q EXCEPT !.pc = pc] EXCEPT !.client = c]
    BY DEF Progresses
<1>6. [q EXCEPT !.pc = pc, !.next = n, !.rows = rows]
        = [[q EXCEPT !.pc = pc, !.next = n] EXCEPT !.rows = rows]
    BY DEF Progresses
<1>7. [Rec(pc, q, q.rows, q.client, q.next) EXCEPT !.next = n] = Rec(pc, q, q.rows, q.client, n)
    BY DEF Rec
<1>8. [Rec(pc, q, q.rows, q.client, q.next) EXCEPT !.client = c] = Rec(pc, q, q.rows, c, q.next)
    BY DEF Rec
<1>9. [Rec(pc, q, q.rows, q.client, n) EXCEPT !.rows = rows] = Rec(pc, q, rows, q.client, n)
    BY DEF Rec
<1> QED BY <1>1, <1>2, <1>3, <1>4, <1>5, <1>6, <1>7, <1>8, <1>9

LEMMA RecType ==
  ASSUME NEW q \in Progresses, NEW pc \in {"insert"} \cup Resolving \cup Answers,
         NEW rows \in Seq(RowTypes), NEW client \in Clients, NEW next \in Nat \ {0}
  PROVE  Rec(pc, q, rows, client, next) \in Progresses
  BY DEF Progresses, Rec

\* A request that holds a mutex waits for that table.
LEMMA Elsewhere ==
  ASSUME Inv, NEW r \in Requests, NEW t \in Tables, ~In(r, t)
  PROVE  lock[t] # r
  BY Assumed DEF Inv, Held

LEMMA NextRecordStep ==
  ASSUME Inv, NEW r \in Requests, NextRecord(r) PROVE Inv'
<1> DEFINE q == req[r]
           rec == q.batch[q.next]
           done == q.next > Len(q.batch)
           pc == IF done THEN IF q.rows = <<>> THEN "ok" ELSE "insert"
                 ELSE IF "readable" \notin rec.is THEN "record"
                 ELSE IF NeedsRules(r, rec) THEN "rules" ELSE "titles"
           next == IF done THEN 1 ELSE IF "readable" \notin rec.is THEN q.next + 1 ELSE q.next
           client == IF pc = "titles" THEN Client(r, rec, 0) ELSE q.client
           new == Rec(pc, q, q.rows, client, next)
<1>1. q.pc = "record" /\ q \in Progresses /\ r \notin Plain
      /\ q.next <= Len(q.batch) + 1 /\ \A i \in 1..(q.next - 1) : HasRow(r, i)
    BY ReqTypes DEF NextRecord, In, Progress, Resolving
<1>2. /\ Client(r, rec, 0) \in Clients
      /\ ~NeedsRules(r, rec) => Client(r, rec, 0) # <<"rules", 0>>
    BY ClientType, ClientSource, Assumed
<1>3. req' = [req EXCEPT ![r] = new]
  <2>1. CASE done
    <3>1. PICK x : x = [q EXCEPT !.pc = IF q.rows = <<>> THEN "ok" ELSE "insert", !.next = 1]
        OBVIOUS
    <3>2. x = Rec(IF q.rows = <<>> THEN "ok" ELSE "insert", q, q.rows, q.client, 1)
        BY <1>1, <3>1 DEF Progresses, Rec
    <3> QED BY <2>1, <3>1, <3>2 DEF NextRecord
  <2>2. CASE ~done /\ "readable" \notin rec.is
    <3>1. [q EXCEPT !.next = q.next + 1] = Rec(q.pc, q, q.rows, q.client, q.next + 1)
        BY <1>1, RecFields
    <3> QED BY <1>1, <2>2, <3>1 DEF NextRecord
  <2>3. CASE ~done /\ "readable" \in rec.is /\ NeedsRules(r, rec)
      BY <1>1, <2>3, RecFields DEF NextRecord
  <2>4. CASE ~done /\ "readable" \in rec.is /\ ~NeedsRules(r, rec)
    <3>1. PICK x : x = [q EXCEPT !.pc = "titles", !.client = Client(r, rec, 0)]
        OBVIOUS
    <3>2. x = Rec("titles", q, q.rows, Client(r, rec, 0), q.next)
        BY <1>1, <3>1 DEF Progresses, Rec
    <3> QED BY <2>4, <3>1, <3>2 DEF NextRecord
  <2> QED BY <2>1, <2>2, <2>3, <2>4
<1>4. new \in Progresses
  <2>1. pc \in {"insert"} \cup Resolving \cup Answers
      BY DEF Resolving, Tables, Answers
  <2>2. client \in Clients /\ next \in Nat \ {0}
      BY <1>1, <1>2, ReqTypes DEF Progresses
  <2> HIDE DEF pc, client, next
  <2> QED BY <1>1, <2>1, <2>2, ReqTypes, RecType
<1>5. /\ req' \in [Requests -> Progresses] /\ req'[r] = new
      /\ \A p \in Requests \ {r} : req'[p] = req[p]
  <2> HIDE DEF new
  <2> QED BY <1>3, <1>4, Updated DEF Inv
<1>6. Types' /\ Held'
  <2>1. \A t \in Tables : ~In(r, t)
      BY <1>1 DEF In, Tables
  <2> QED BY ZenonT(30), <1>5, <2>1, Elsewhere, HeldStays DEF NextRecord, Inv, Types
<1>7. /\ new.batch = q.batch /\ new.rows = q.rows
      /\ new.pc = pc /\ new.next = next /\ new.client = client
    BY DEF Rec
<1> HIDE DEF new
<1>8. \A i : HasRow(r, i)' <=> HasRow(r, i)
    BY <1>5, <1>7 DEF HasRow
<1>9. Progress(r)'
  <2>1. CASE done
    <3>1. \A i \in 1..Len(q.batch) : HasRow(r, i)
        BY <1>1, <2>1, ReqTypes
    <3>2. q.rows = <<>> => \A i \in 1..Len(q.batch) : "readable" \notin q.batch[i].is
        BY <3>1 DEF HasRow
    <3>3. next = 1 /\ pc = IF q.rows = <<>> THEN "ok" ELSE "insert"
        BY <2>1
    <3> HIDE DEF pc, next, done, HasRow
    <3> QED BY <1>1, <1>5, <1>7, <1>8, <3>1, <3>2, <3>3, ReqTypes DEF Progress, Resolving, Tables
  <2>2. CASE ~done /\ "readable" \notin rec.is
    <3>1. HasRow(r, q.next)
        BY <2>2 DEF HasRow
    <3>2. \A i \in 1..q.next : HasRow(r, i)
        BY <1>1, <3>1, ReqTypes
    <3>3. next = q.next + 1 /\ pc = "record" /\ q.next <= Len(q.batch)
        BY <2>2, ReqTypes
    <3> HIDE DEF pc, next, done
    <3> QED BY <1>1, <1>5, <1>7, <1>8, <3>2, <3>3, ReqTypes DEF Progress, Resolving, Tables
  <2>3. CASE ~done /\ "readable" \in rec.is
    <3>1. next = q.next /\ pc \in {"rules", "titles"} /\ q.next <= Len(q.batch)
        BY <2>3, ReqTypes
    <3> HIDE DEF pc, next, done
    <3> QED BY <1>1, <1>5, <1>7, <1>8, <3>1, ReqTypes DEF Progress, Resolving, Tables
  <2> QED BY <2>1, <2>2, <2>3
<1>10. Sourced(r)'
  <2>1. client = q.client \/ client # <<"rules", 0>>
      BY <1>2
  <2>2. deprived' = deprived
      BY DEF NextRecord
  <2>3. Sourced(r)
      BY DEF Inv
  <2>4. req'[r].client = client /\ req'[r].rows = q.rows
      BY <1>5, <1>7
  <2> HIDE DEF client, pc, next, done, rec
  <2>5. client = <<"rules", 0>> => deprived'
      BY <2>1, <2>2, <2>3 DEF Sourced, Justified
  <2>6. \A j \in 1..Len(q.rows) : q.rows[j].client = <<"rules", 0>> => deprived'
      BY <2>2, <2>3 DEF Sourced, Justified
  <2>7. \A j \in 1..Len(req'[r].rows) : req'[r].rows[j].client = <<"rules", 0>> => deprived'
      BY <2>4, <2>6
  <2> HIDE DEF q
  <2> QED BY <2>4, <2>5, <2>7 DEF Sourced, Justified
<1>11. OneRowEach' /\ BuiltinNeedsDeprivation'
    BY DEF NextRecord, Inv, OneRowEach, BuiltinNeedsDeprivation
<1>12. stored' = stored /\ deprived' = deprived /\ unsure' >= unsure
       /\ \A p \in Plain : copies'[p] >= copies[p]
    BY DEF NextRecord, Inv, Types
<1> QED BY Local, <1>5, <1>6, <1>9, <1>10, <1>11, <1>12

\* What a request knows of a record once it has the version of a table.
LEMMA ResolvedFields ==
  ASSUME Inv, NEW r \in Requests, NEW t \in Tables, In(r, t),
         NEW version \in 0..Versions, Resolved(r, t, version),
         t = "rules" /\ version = 0 => deprived', deprived => deprived',
         stored' = stored, copies' = copies, unsure' = unsure
  PROVE  /\ req' \in [Requests -> Progresses]
         /\ \A p \in Requests \ {r} : req'[p] = req[p]
         /\ ~In(r, t)' /\ (t = "titles" => ~In(r, "rules")')
         /\ Progress(r)' /\ Sourced(r)'
<1> DEFINE q == req[r]
           rec == q.batch[q.next]
<1>1. /\ q.pc = t /\ q \in Progresses /\ r \notin Plain
      /\ q.next \in 1..Len(q.batch) /\ \A i \in 1..(q.next - 1) : HasRow(r, i)
    BY ReqTypes DEF In, Progress, Resolving, Tables
<1>2. CASE t = "rules"
  <2> DEFINE new == Rec("titles", q, q.rows, Client(r, rec, version), q.next)
  <2>1. Client(r, rec, version) \in Clients
        /\ (Client(r, rec, version) = <<"rules", 0>> => version = 0)
      BY ClientType, ClientSource
  <2>2. new \in Progresses /\ new.pc = "titles" /\ new.client = Client(r, rec, version)
        /\ new.batch = q.batch /\ new.rows = q.rows /\ new.next = q.next
    <3>1. "titles" \in {"insert"} \cup Resolving \cup Answers
        BY DEF Resolving, Tables
    <3> QED BY <1>1, <2>1, <3>1, ReqTypes, RecType DEF Rec
  <2>3. req' = [req EXCEPT ![r] = new]
    <3>1. PICK x : x = [q EXCEPT !.pc = "titles", !.client = Client(r, rec, version)]
        OBVIOUS
    <3>2. x = new
        BY <1>1, <3>1 DEF Progresses, Rec
    <3> QED BY <1>2, <3>1, <3>2 DEF Resolved
  <2>4. /\ req' \in [Requests -> Progresses] /\ req'[r] = new
        /\ \A p \in Requests \ {r} : req'[p] = req[p]
      BY <2>2, <2>3, Updated DEF Inv
  <2>5. \A i : HasRow(r, i)' <=> HasRow(r, i)
      BY <2>2, <2>4 DEF HasRow
  <2>6. Progress(r)'
      BY <1>1, <2>2, <2>4, <2>5, ReqTypes DEF Progress, Resolving, Tables
  <2>7. Sourced(r)'
      BY <1>2, <2>1, <2>2, <2>4, ReqTypes DEF Sourced, Justified
  <2> QED BY <1>2, <2>2, <2>4, <2>6, <2>7 DEF In
<1>3. CASE t = "titles"
  <2> DEFINE row == [key |-> <<Log(r), rec.id>>, client |-> q.client,
                     title |-> IF "retitled" \in rec.is THEN version ELSE 0]
             new == Rec("record", q, Append(q.rows, row), q.client, q.next + 1)
  <2>1. row \in RowTypes
    <3>1. q.batch \in Batches \cup {<<>>} /\ q.client \in Clients
        BY <1>1 DEF Progresses
    <3>2. Log(r) \in {"radio", "video"} /\ (IF "retitled" \in rec.is THEN version ELSE 0) \in 0..Versions
        BY Assumed DEF Log
    <3> QED BY <1>1, <3>1, <3>2, BatchTypes
  <2>2. /\ Append(q.rows, row) \in Seq(RowTypes)
        /\ Len(Append(q.rows, row)) = Len(q.rows) + 1
        /\ \A j \in 1..Len(q.rows) : Append(q.rows, row)[j] = q.rows[j]
        /\ Append(q.rows, row)[Len(q.rows) + 1] = row
    <3> HIDE DEF row
    <3> QED BY <2>1, ReqTypes
  <2>3. new \in Progresses /\ new.pc = "record" /\ new.next = q.next + 1
        /\ new.batch = q.batch /\ new.rows = Append(q.rows, row) /\ new.client = q.client
    <3>1. "record" \in {"insert"} \cup Resolving \cup Answers /\ q.client \in Clients
          /\ q.next + 1 \in Nat \ {0}
        BY <1>1, ReqTypes DEF Resolving, Progresses
    <3> HIDE DEF row
    <3> QED BY <1>1, <2>2, <3>1, RecType DEF Rec
  <2>4. req' = [req EXCEPT ![r] = new]
    <3>1. PICK x : x = [q EXCEPT !.pc = "record", !.next = q.next + 1, !.rows = Append(q.rows, row)]
        OBVIOUS
    <3>2. x = new
        BY <1>1, <3>1 DEF Progresses, Rec
    <3> QED BY <1>3, <3>1, <3>2 DEF Resolved
  <2>5. /\ req' \in [Requests -> Progresses] /\ req'[r] = new
        /\ \A p \in Requests \ {r} : req'[p] = req[p]
    <3> HIDE DEF new
    <3> QED BY <2>3, <2>4, Updated DEF Inv
  <2> HIDE DEF new
  <2>6. ASSUME NEW i \in 1..q.next PROVE HasRow(r, i)'
    <3>1. CASE i = q.next
      <4>1. row.key = <<Log(r), rec.id>> /\ Len(q.rows) + 1 \in 1..(Len(q.rows) + 1)
          BY ReqTypes
      <4> HIDE DEF row
      <4> QED BY <2>2, <2>3, <2>5, <3>1, <4>1 DEF HasRow
    <3>2. CASE i # q.next
      <4>1. HasRow(r, i)
          BY <1>1, <2>6, <3>2, ReqTypes
      <4>2. \A j \in 1..Len(q.rows) : j \in 1..(Len(q.rows) + 1)
          BY ReqTypes
      <4> HIDE DEF row
      <4> QED BY <2>2, <2>3, <2>5, <4>1, <4>2 DEF HasRow
    <3> QED BY <3>1, <3>2
  <2>8. Progress(r)'
    <3> HIDE DEF row
    <3> QED BY SMTT(30), <1>1, <2>3, <2>5, <2>6, ReqTypes DEF Progress, Resolving, Tables
  <2>9. Sourced(r)'
    <3>1. row.client = q.client
        OBVIOUS
    <3>2. ASSUME NEW j \in 1..(Len(q.rows) + 1)
          PROVE  Append(q.rows, row)[j].client = <<"rules", 0>> => deprived
      <4>1. CASE j = Len(q.rows) + 1
        <5> HIDE DEF row
        <5> QED BY <2>2, <3>1, <4>1, ReqTypes DEF Sourced, Justified
      <4>2. CASE j \in 1..Len(q.rows)
        <5> HIDE DEF row
        <5> QED BY <2>2, <4>2, ReqTypes DEF Sourced, Justified
      <4> QED BY <4>1, <4>2, ReqTypes
    <3> HIDE DEF row
    <3> QED BY <2>2, <2>3, <2>5, <3>2, ReqTypes DEF Sourced, Justified
  <2> HIDE DEF row, new
  <2> QED BY <1>3, <2>3, <2>5, <2>8, <2>9 DEF In
<1> QED BY <1>2, <1>3 DEF Tables

----------------------------------------------------------------------------
\* A request that is done with a table holds no mutex.
LEMMA HeldLetGo ==
  ASSUME Inv, NEW r \in Requests, NEW t \in Tables, In(r, t),
         lock'[t] = Free, \A u \in Tables \ {t} : lock'[u] = lock[u],
         \A q \in Requests \ {r} : req'[q] = req[q]
  PROVE  Held'
<1>1. ASSUME NEW u \in Tables, lock'[u] # Free PROVE In(lock[u], u)' /\ lock'[u] = lock[u]
  <2>1. u # t /\ lock'[u] = lock[u]
      BY <1>1
  <2>2. lock[u] # r
    <3>1. ~In(r, u)
        BY <2>1 DEF In
    <3> QED BY <3>1, Elsewhere
  <2>3. lock[u] \in Requests \ {r} /\ In(lock[u], u)
      BY <1>1, <2>1, <2>2 DEF Inv, Types, Held
  <2> QED BY <2>1, <2>3 DEF In
<1> QED BY <1>1 DEF Held, In

LEMMA LoadCachedStep ==
  ASSUME Inv, NEW r \in Requests, NEW t \in Tables, LoadCached(r, t) PROVE Inv'
<1>1. In(r, t) /\ cached[t] \in 0..Versions /\ cached[t] # 0 /\ Resolved(r, t, cached[t])
      /\ lock' = lock /\ lock[t] = Free /\ stored' = stored /\ deprived' = deprived
      /\ copies' = copies /\ unsure' = unsure /\ content' = content /\ cached' = cached
    BY DEF LoadCached, Inv, Types
<1>2. /\ req' \in [Requests -> Progresses] /\ Progress(r)' /\ Sourced(r)'
      /\ \A q \in Requests \ {r} : req'[q] = req[q]
    BY <1>1, ResolvedFields
<1>3. Types' /\ Held'
    BY <1>1, <1>2, HeldLetGo DEF Inv, Types
<1>4. OneRowEach' /\ BuiltinNeedsDeprivation' /\ unsure' >= unsure
      /\ \A q \in Plain : copies'[q] >= copies[q]
    BY <1>1 DEF Inv, Types, OneRowEach, BuiltinNeedsDeprivation
<1> QED BY Local, <1>1, <1>2, <1>3, <1>4

LEMMA LoadLockStep ==
  ASSUME Inv, NEW r \in Requests, NEW t \in Tables, LoadLock(r, t) PROVE Inv'
<1>1. Types' /\ Held'
    BY DEF LoadLock, Inv, Types, Held, In
<1>2. \A q \in Requests : (Progress(q)' <=> Progress(q)) /\ (Sourced(q)' <=> Sourced(q))
    BY DEF LoadLock, Progress, HasRow, IsStored, Sourced, Justified
<1> QED BY <1>1, <1>2 DEF LoadLock, Inv, OneRowEach, BuiltinNeedsDeprivation

LEMMA FetchReturnsStep ==
  ASSUME Inv, NEW r \in Requests, NEW t \in Tables, FetchReturns(r, t) PROVE Inv'
<1> DEFINE none == t = "rules" /\ content[t] = 0
<1>1. In(r, t)
    BY Assumed DEF FetchReturns, Inv, Held
<1>2. /\ cached' = [cached EXCEPT ![t] = IF none THEN cached[t] ELSE content[t]]
      /\ deprived' = (deprived \/ none) /\ Resolved(r, t, cached'[t])
      /\ lock' = [lock EXCEPT ![t] = Free] /\ stored' = stored /\ copies' = copies
      /\ unsure' = unsure /\ content' = content
    BY DEF FetchReturns
<1>3. cached' \in [Tables -> 0..Versions] /\ cached'[t] \in 0..Versions
      /\ cached'[t] = (IF none THEN cached[t] ELSE content[t])
    BY <1>2 DEF Inv, Types
<1>4. /\ req' \in [Requests -> Progresses] /\ Progress(r)' /\ Sourced(r)'
      /\ \A q \in Requests \ {r} : req'[q] = req[q]
  <2>1. t = "rules" /\ cached'[t] = 0 => deprived'
      BY <1>2, <1>3
  <2>2. deprived => deprived'
      BY <1>2
  <2> QED BY <1>1, <1>2, <1>3, <2>1, <2>2, ResolvedFields
<1>5. Types'
    BY <1>2, <1>3, <1>4 DEF Inv, Types
<1>6. Held'
  <2>1. lock'[t] = Free /\ \A u \in Tables \ {t} : lock'[u] = lock[u]
      BY <1>2 DEF Inv, Types
  <2> QED BY <1>1, <1>4, <2>1, HeldLetGo
<1>7. OneRowEach' /\ BuiltinNeedsDeprivation' /\ unsure' >= unsure /\ (deprived => deprived')
      /\ \A q \in Plain : copies'[q] >= copies[q]
    BY <1>2 DEF Inv, Types, OneRowEach, BuiltinNeedsDeprivation
<1> QED BY Local, <1>2, <1>4, <1>5, <1>6, <1>7

LEMMA FetchFailsStep ==
  ASSUME Inv, NEW r \in Requests, NEW t \in Tables, FetchFails(r, t) PROVE Inv'
<1>1. In(r, t) /\ cached[t] \in 0..Versions
    BY Assumed DEF FetchFails, Inv, Held, Types
<1>2. /\ cached' = cached /\ deprived' = (deprived \/ t = "rules")
      /\ Resolved(r, t, cached[t])
      /\ lock' = [lock EXCEPT ![t] = Free] /\ stored' = stored /\ copies' = copies
      /\ unsure' = unsure /\ content' = content
    BY DEF FetchFails
<1>3. /\ req' \in [Requests -> Progresses] /\ Progress(r)' /\ Sourced(r)'
      /\ \A q \in Requests \ {r} : req'[q] = req[q]
  <2>1. (t = "rules" /\ cached[t] = 0 => deprived') /\ (deprived => deprived')
      BY <1>2
  <2> QED BY <1>1, <1>2, <2>1, ResolvedFields
<1>4. Types'
    BY <1>2, <1>3 DEF Inv, Types
<1>5. Held'
  <2>1. lock'[t] = Free /\ \A u \in Tables \ {t} : lock'[u] = lock[u]
      BY <1>2 DEF Inv, Types
  <2> QED BY <1>1, <1>3, <2>1, HeldLetGo
<1>6. OneRowEach' /\ BuiltinNeedsDeprivation' /\ unsure' >= unsure /\ (deprived => deprived')
      /\ \A q \in Plain : copies'[q] >= copies[q]
    BY <1>2 DEF Inv, Types, OneRowEach, BuiltinNeedsDeprivation
<1> QED BY Local, <1>2, <1>3, <1>4, <1>5, <1>6

----------------------------------------------------------------------------
(* Chunks *)

LEMMA ChunkFields ==
  ASSUME Inv, NEW r \in Requests
  PROVE  \E last \in Nat :
           /\ LastChunk(r) /\ r \notin Plain => last = Len(req[r].rows)
           /\ ~LastChunk(r) => last = req[r].next + ChunkSize - 1
           /\ last <= Len(req[r].rows)
           /\ Chunk(r) \in Seq(RowTypes)
           /\ DOMAIN Chunk(r) \subseteq Nat \ {0}
           /\ \A i \in DOMAIN Chunk(r) :
                 1..i \subseteq DOMAIN Chunk(r)
                 /\ Chunk(r)[i] \in RowTypes
                 /\ \E j \in 1..Len(req[r].rows) : Chunk(r)[i] = req[r].rows[j]
           /\ \A j \in req[r].next..last : \E i \in DOMAIN Chunk(r) : Chunk(r)[i] = req[r].rows[j]
<1> DEFINE q == req[r]
           top == q.next + ChunkSize - 1
           last == IF top <= Len(q.rows) THEN top ELSE Len(q.rows)
<1>1. q.next \in Nat \ {0} /\ Len(q.rows) \in Nat /\ q.rows \in Seq(RowTypes)
      /\ ChunkSize \in Nat \ {0}
    BY ReqTypes, Assumed
<1>2. Min({top, Len(q.rows)}) = last
    BY <1>1 DEF Min
<1>3. last \in Nat /\ last <= Len(q.rows) /\ Chunk(r) = SubSeq(q.rows, q.next, last)
  <2>1. Chunk(r) = SubSeq(q.rows, q.next, Min({top, Len(q.rows)}))
      BY DEF Chunk
  <2>2. last \in Nat /\ last <= Len(q.rows)
      BY <1>1
  <2> HIDE DEF top, last
  <2> QED BY <1>2, <2>1, <2>2
<1>4. /\ Chunk(r) \in Seq(RowTypes)
      /\ Len(Chunk(r)) = IF q.next <= last THEN last - q.next + 1 ELSE 0
      /\ \A i \in 1..(last - q.next + 1) : Chunk(r)[i] = q.rows[q.next + i - 1]
  <2> HIDE DEF last
  <2>1. \A i \in q.next..last : q.rows[i] \in RowTypes
      BY <1>1, <1>3
  <2> QED BY SMTT(30), <1>1, <1>3, <2>1, SubSeqProperties
<1>5. DOMAIN Chunk(r) = 1..Len(Chunk(r)) /\ Len(Chunk(r)) \in Nat
    BY <1>4
<1>6. ASSUME NEW i \in DOMAIN Chunk(r)
      PROVE  /\ 1..i \subseteq DOMAIN Chunk(r) /\ Chunk(r)[i] \in RowTypes
             /\ \E j \in 1..Len(q.rows) : Chunk(r)[i] = q.rows[j]
  <2> HIDE DEF last
  <2>1. i \in 1..(last - q.next + 1) /\ 1..i \subseteq 1..Len(Chunk(r))
      BY <1>1, <1>3, <1>4, <1>5, <1>6
  <2>2. q.next + i - 1 \in 1..Len(q.rows)
      BY SMTT(30), <1>1, <1>3, <2>1
  <2> QED BY <1>4, <1>5, <2>1, <2>2
<1>7. ASSUME NEW j \in q.next..last
      PROVE  \E i \in DOMAIN Chunk(r) : Chunk(r)[i] = q.rows[j]
  <2> HIDE DEF last
  <2> DEFINE i == j - q.next + 1
  <2>1. i \in 1..(last - q.next + 1) /\ q.next + i - 1 = j
      BY <1>1, <1>3, <1>7
  <2>2. q.next <= last /\ i \in DOMAIN Chunk(r)
      BY <1>1, <1>3, <1>4, <1>5, <1>7, <2>1
  <2> HIDE DEF i
  <2> QED BY <1>4, <2>1, <2>2
<1>8. /\ (LastChunk(r) /\ r \notin Plain => last = Len(q.rows))
      /\ (~LastChunk(r) => last = top)
    BY SMTT(30), <1>1 DEF LastChunk
<1>9. DOMAIN Chunk(r) \subseteq Nat \ {0}
    BY <1>5
<1> HIDE DEF last
<1> QED BY <1>3, <1>4, <1>6, <1>7, <1>8, <1>9

\* One statement stores every key of its chunk, each in one row.
LEMMA StoreChunkAdds ==
  ASSUME Inv, NEW r \in Requests, r \notin Plain, StoreChunk(r), deprived => deprived'
  PROVE  /\ stored \subseteq stored' /\ stored' \subseteq RowTypes /\ copies' = copies
         /\ OneRowEach' /\ BuiltinNeedsDeprivation'
         /\ \A i \in DOMAIN Chunk(r) : \E row \in stored' : row.key = Chunk(r)[i].key
<1> DEFINE chunk == Chunk(r)
           First(j) == /\ \A row \in stored : row.key # chunk[j].key
                       /\ \A h \in 1..(j - 1) : chunk[h].key # chunk[j].key
<1>1. stored' = stored \cup {chunk[i] : i \in {j \in DOMAIN chunk : First(j)}} /\ copies' = copies
    BY DEF StoreChunk
<1>2. /\ DOMAIN chunk \subseteq Nat \ {0}
      /\ \A i \in DOMAIN chunk :
            1..i \subseteq DOMAIN chunk /\ chunk[i] \in RowTypes
            /\ \E j \in 1..Len(req[r].rows) : chunk[i] = req[r].rows[j]
    BY ChunkFields
<1> HIDE DEF chunk
<1>3. OneRowEach'
  <2>1. SUFFICES ASSUME NEW x \in stored', NEW y \in stored', x.key = y.key PROVE x = y
      BY DEF OneRowEach
  <2>2. CASE x \in stored /\ y \in stored
      BY <2>1, <2>2 DEF Inv, OneRowEach
  <2>3. CASE x \in stored /\ y \notin stored
      BY <1>1, <2>1, <2>3
  <2>4. CASE x \notin stored /\ y \in stored
      BY <1>1, <2>1, <2>4
  <2>5. CASE x \notin stored /\ y \notin stored
    <3>1. PICK i \in DOMAIN chunk : x = chunk[i] /\ First(i)
        BY <1>1, <2>5
    <3>2. PICK j \in DOMAIN chunk : y = chunk[j] /\ First(j)
        BY <1>1, <2>5
    <3>3. i \in Nat \ {0} /\ j \in Nat \ {0}
        BY <1>2
    <3>4. ~(i < j) /\ ~(j < i)
        BY <2>1, <3>1, <3>2, <3>3
    <3> QED BY <3>1, <3>2, <3>3, <3>4
  <2> QED BY <2>2, <2>3, <2>4, <2>5
<1>4. ASSUME NEW i \in DOMAIN chunk PROVE \E row \in stored' : row.key = chunk[i].key
  <2>1. CASE \E row \in stored : row.key = chunk[i].key
      BY <1>1, <2>1
  <2>2. CASE \A row \in stored : row.key # chunk[i].key
    <3> DEFINE T == {j \in DOMAIN chunk : chunk[j].key = chunk[i].key}
    <3>1. T \in SUBSET Nat /\ T # {}
        BY <1>2
    <3>2. PICK j \in T : \A h \in T : j <= h
        BY <3>1, Least
    <3>3. First(j)
      <4>1. ASSUME NEW h \in 1..(j - 1), chunk[h].key = chunk[j].key PROVE FALSE
        <5>1. h \in DOMAIN chunk /\ j \in Nat /\ h \in Nat /\ h < j
            BY SMTT(30), <1>2, <3>1, <4>1
        <5> QED BY <3>2, <4>1, <5>1
      <4> QED BY <2>2, <3>2, <4>1
    <3>4. chunk[j] \in stored' /\ chunk[j].key = chunk[i].key
        BY <1>1, <3>2, <3>3
    <3> QED BY <3>4
  <2> QED BY <2>1, <2>2
<1>5. stored \subseteq stored' /\ stored' \subseteq RowTypes
    BY <1>1, <1>2 DEF Inv, Types
<1>6. BuiltinNeedsDeprivation'
  <2>1. \A i \in DOMAIN chunk : chunk[i].client = <<"rules", 0>> => deprived
      BY <1>2, ReqTypes DEF Sourced, Justified
  <2> QED BY <1>1, <2>1 DEF Inv, BuiltinNeedsDeprivation
<1> QED BY <1>1, <1>3, <1>4, <1>5, <1>6 DEF chunk

----------------------------------------------------------------------------
LEMMA Stutter ==
  ASSUME Inv, UNCHANGED trafficVars PROVE Inv'
<1>1. Types' /\ Held' /\ OneRowEach' /\ BuiltinNeedsDeprivation'
    BY DEF trafficVars, Inv, Types, Held, In, OneRowEach, BuiltinNeedsDeprivation
<1>2. \A q \in Requests : (Progress(q)' <=> Progress(q)) /\ (Sourced(q)' <=> Sourced(q))
    BY DEF trafficVars, Progress, HasRow, IsStored, Sourced, Justified
<1> QED BY <1>1, <1>2 DEF Inv

\* What is stored of a request whose rows are all stored.
LEMMA AllStored ==
  ASSUME Inv, NEW r \in Requests, r \notin Plain, In(r, "insert"),
         \A j \in 1..Len(req[r].rows) : \E row \in stored' : row.key = req[r].rows[j].key
  PROVE  \A i \in 1..Len(req[r].batch) :
           "readable" \in req[r].batch[i].is =>
             \E row \in stored' : row.key = <<Log(r), req[r].batch[i].id>>
<1>1. \A i \in 1..Len(req[r].batch) : HasRow(r, i)
    BY ReqTypes DEF Progress, In
<1> QED BY <1>1 DEF HasRow

LEMMA InsertChunkStep ==
  ASSUME Inv, NEW r \in Requests, InsertChunk(r) PROVE Inv' /\ stored \subseteq stored'
<1> DEFINE q == req[r]
<1>1. /\ q.pc = "insert" /\ q \in Progresses /\ StoreChunk(r) /\ lock' = lock
      /\ content' = content /\ cached' = cached /\ deprived' = deprived /\ unsure' = unsure
    BY ReqTypes DEF InsertChunk, In
<1>2. /\ stored \subseteq stored' /\ stored' \subseteq RowTypes
      /\ OneRowEach' /\ BuiltinNeedsDeprivation'
      /\ copies' \in [Plain -> Nat] /\ \A p \in Plain : copies'[p] >= copies[p]
      /\ r \in Plain => copies'[r] >= 1
  <2>1. CASE r \in Plain
      BY <1>1, <2>1 DEF StoreChunk, Inv, Types, OneRowEach, BuiltinNeedsDeprivation
  <2>2. CASE r \notin Plain
      BY <1>1, <2>2, StoreChunkAdds DEF Inv, Types
  <2> QED BY <2>1, <2>2
<1>3. PICK pc \in {"ok", "insert"}, next \in Nat \ {0} :
        /\ req' = [req EXCEPT ![r] = Rec(pc, q, q.rows, q.client, next)]
        /\ pc = (IF LastChunk(r) THEN "ok" ELSE "insert")
        /\ next = (IF LastChunk(r) THEN q.next ELSE q.next + ChunkSize)
  <2>1. CASE LastChunk(r)
    <3>1. [q EXCEPT !.pc = "ok"] = Rec("ok", q, q.rows, q.client, q.next)
        BY <1>1, RecFields
    <3>2. req' = [req EXCEPT ![r] = [q EXCEPT !.pc = "ok"]]
        BY <2>1 DEF InsertChunk, Move
    <3> QED BY <2>1, <3>1, <3>2, ReqTypes
  <2>2. CASE ~LastChunk(r)
    <3>1. [q EXCEPT !.next = q.next + ChunkSize] = Rec(q.pc, q, q.rows, q.client, q.next + ChunkSize)
        BY <1>1, RecFields
    <3>2. req' = [req EXCEPT ![r] = [q EXCEPT !.next = q.next + ChunkSize]]
        BY <2>2 DEF InsertChunk
    <3>3. q.next + ChunkSize \in Nat \ {0}
        BY ReqTypes, Assumed
    <3> QED BY <1>1, <2>2, <3>1, <3>2, <3>3
  <2> QED BY <2>1, <2>2
<1> DEFINE new == Rec(pc, q, q.rows, q.client, next)
<1>4. new \in Progresses
  <2>1. pc \in {"insert"} \cup Resolving \cup Answers /\ q.client \in Clients
      BY <1>1 DEF Answers, Progresses
  <2> QED BY <1>1, <2>1, ReqTypes, RecType
<1>5. /\ req' \in [Requests -> Progresses] /\ req'[r] = new
      /\ \A p \in Requests \ {r} : req'[p] = req[p]
  <2>1. req' = [req EXCEPT ![r] = new]
      BY <1>3
  <2> HIDE DEF new
  <2> QED BY <1>4, <2>1, Updated DEF Inv
<1>6. new.batch = q.batch /\ new.rows = q.rows /\ new.client = q.client /\ new.pc = pc
      /\ new.next = next
    BY DEF Rec
<1> HIDE DEF new
<1>7. Types' /\ Held'
  <2>1. \A t \in Tables : lock[t] # r
    <3>1. \A t \in Tables : ~In(r, t)
        BY <1>1 DEF In, Tables
    <3> QED BY <3>1, Elsewhere
  <2> QED BY <1>1, <1>2, <1>5, <2>1, HeldStays DEF Inv, Types
<1>8. Sourced(r)'
    BY <1>1, <1>5, <1>6, ReqTypes DEF Sourced, Justified
<1>9. Progress(r)'
  <2>1. CASE r \in Plain
      BY <1>2, <1>3, <1>5, <1>6, <2>1 DEF Progress, Resolving, Tables
  <2>2. CASE r \notin Plain
    <3>1. PICK last \in Nat :
            /\ LastChunk(r) => last = Len(q.rows)
            /\ ~LastChunk(r) => last = q.next + ChunkSize - 1
            /\ last <= Len(q.rows)
            /\ \A j \in q.next..last : \E i \in DOMAIN Chunk(r) : Chunk(r)[i] = q.rows[j]
        BY <2>2, ChunkFields
    <3>2. ASSUME NEW j \in 1..last PROVE \E row \in stored' : row.key = q.rows[j].key
      <4>1. CASE j < q.next
        <5>1. IsStored(q.rows[j].key)
            BY <1>1, <2>2, <3>1, <4>1, ReqTypes DEF Progress
        <5> QED BY <1>2, <5>1 DEF IsStored
      <4>2. CASE j >= q.next
        <5>1. j \in q.next..last
            BY <3>2, <4>2, ReqTypes
        <5>2. PICK i \in DOMAIN Chunk(r) : Chunk(r)[i] = q.rows[j]
            BY <3>1, <5>1
        <5>3. deprived => deprived'
            BY <1>1
        <5>4. \E row \in stored' : row.key = Chunk(r)[i].key
            BY <1>1, <2>2, <5>3, StoreChunkAdds
        <5> QED BY <5>2, <5>4
      <4> QED BY <4>1, <4>2, <3>1, ReqTypes
    <3>3. CASE LastChunk(r)
      <4>1. In(r, "insert")
          BY <1>1 DEF In
      <4>2. \A i \in 1..Len(q.batch) :
              "readable" \in q.batch[i].is =>
                \E row \in stored' : row.key = <<Log(r), q.batch[i].id>>
          BY <2>2, <3>1, <3>2, <3>3, <4>1, AllStored
      <4>3. req'[r].pc = "ok" /\ req'[r].batch = q.batch
          BY <1>3, <1>5, <1>6, <3>3
      <4>4. \A i \in 1..Len(req'[r].batch) :
              "readable" \in req'[r].batch[i].is =>
                \E row \in stored' : row.key = <<Log(r), req'[r].batch[i].id>>
          BY <4>2, <4>3
      <4> QED BY <2>2, <4>3, <4>4 DEF Progress, IsStored, Resolving, Tables
    <3>4. CASE ~LastChunk(r)
      <4>1. \A i \in 1..Len(q.batch) : HasRow(r, i)
          BY <1>1, <2>2, ReqTypes DEF Progress
      <4>2. \A i \in 1..Len(q.batch) : HasRow(r, i)'
          BY <1>5, <1>6, <4>1 DEF HasRow
      <4>3. \A j \in 1..Len(q.rows) : j < next => \E row \in stored' : row.key = q.rows[j].key
        <5>1. next = last + 1
            BY <1>3, <3>1, <3>4, ReqTypes, Assumed
        <5>2. \A j \in 1..Len(q.rows) : j < next => j \in 1..last
            BY <5>1
        <5> QED BY <3>2, <5>2
      <4> QED BY <1>3, <1>5, <1>6, <2>2, <3>4, <4>2, <4>3
              DEF Progress, IsStored, Resolving, Tables
    <3> QED BY <3>3, <3>4
  <2> QED BY <2>1, <2>2
<1> QED BY Local, <1>1, <1>2, <1>5, <1>7, <1>8, <1>9 DEF Inv, Types

\* An insert that ends with an error, or a webhook that overlooks it.
LEMMA GivesUp ==
  ASSUME Inv, NEW r \in Requests, In(r, "insert"), NEW pc \in {"ok", "error"}, Move(r, pc),
         pc = "ok" => r \in Webhooks /\ unsure' > 0,
         stored \subseteq stored', stored' \subseteq RowTypes, OneRowEach',
         BuiltinNeedsDeprivation', copies' \in [Plain -> Nat],
         \A q \in Plain : copies'[q] >= copies[q],
         unsure' \in {unsure, unsure + 1},
         lock' = lock, content' = content, cached' = cached, deprived' = deprived
  PROVE  Inv'
<1>1. /\ req' \in [Requests -> Progresses] /\ req'[r].pc = pc
      /\ req'[r].rows = req[r].rows /\ req'[r].client = req[r].client
      /\ \A q \in Requests \ {r} : req'[q] = req[q]
  <2>1. pc \in {"insert"} \cup Resolving \cup Answers
      BY DEF Answers
  <2> QED BY <2>1, MoveFields DEF Inv
<1>2. Types' /\ Held' /\ unsure' >= unsure
  <2>1. \A t \in Tables : lock[t] # r
    <3>1. \A t \in Tables : ~In(r, t)
        BY DEF In, Tables
    <3> QED BY <3>1, Elsewhere
  <2> QED BY <1>1, <2>1, HeldStays DEF Inv, Types
<1>3. Progress(r)'
    BY <1>1 DEF Progress, Resolving, Tables
<1>4. Sourced(r)'
    BY <1>1, ReqTypes DEF Sourced, Justified
<1> QED BY Local, <1>1, <1>2, <1>3, <1>4

LEMMA InsertFailsStep ==
  ASSUME Inv, NEW r \in Requests, InsertFails(r) PROVE Inv'
<1> DEFINE pc == IF r \in Webhooks /\ at[r] = "has" THEN "ok" ELSE "error"
<1>1. /\ In(r, "insert") /\ Move(r, pc)
      /\ unsure' = IF r \in Webhooks /\ at[r] = "has" THEN unsure + 1 ELSE unsure
      /\ UNCHANGED <<stored, copies, lock, content, cached, deprived>>
    BY DEF InsertFails
<1>2. pc \in {"ok", "error"} /\ (pc = "ok" => r \in Webhooks /\ unsure' > 0)
    BY <1>1 DEF Inv, Types
<1>3. /\ stored' \subseteq RowTypes /\ OneRowEach' /\ BuiltinNeedsDeprivation'
      /\ copies' \in [Plain -> Nat] /\ \A q \in Plain : copies'[q] >= copies[q]
    BY <1>1 DEF Inv, Types, OneRowEach, BuiltinNeedsDeprivation
<1> HIDE DEF pc
<1> QED BY <1>1, <1>2, <1>3, GivesUp

LEMMA InsertUnsureStep ==
  ASSUME Inv, NEW r \in Requests, InsertUnsure(r) PROVE Inv' /\ stored \subseteq stored'
<1> DEFINE pc == IF r \in Webhooks THEN "ok" ELSE "error"
<1>1. /\ In(r, "insert") /\ Move(r, pc) /\ StoreChunk(r) /\ unsure' = unsure + 1
      /\ UNCHANGED <<lock, content, cached, deprived>>
    BY DEF InsertUnsure
<1>2. pc \in {"ok", "error"} /\ (pc = "ok" => r \in Webhooks /\ unsure' > 0)
    BY <1>1 DEF Inv, Types
<1>3. /\ stored \subseteq stored' /\ stored' \subseteq RowTypes
      /\ OneRowEach' /\ BuiltinNeedsDeprivation'
      /\ copies' \in [Plain -> Nat] /\ \A q \in Plain : copies'[q] >= copies[q]
  <2>1. CASE r \in Plain
      BY <1>1, <2>1 DEF StoreChunk, Inv, Types, OneRowEach, BuiltinNeedsDeprivation
  <2>2. CASE r \notin Plain
      BY <1>1, <2>2, StoreChunkAdds DEF Inv, Types
  <2> QED BY <2>1, <2>2
<1> HIDE DEF pc
<1> QED BY <1>1, <1>2, <1>3, GivesUp

\* Expiry and edits of the tables touch no request.
LEMMA TableStep ==
  ASSUME Inv, NEW t \in Tables, Expire(t) \/ \E v \in 0..Versions : Edit(t, v) PROVE Inv'
<1>1. UNCHANGED <<cached, lock, req, stored, copies, deprived, unsure>>
      /\ content' \in [Tables -> 0..Versions]
    BY DEF Expire, Edit, Inv, Types
<1>2. Types' /\ Held' /\ OneRowEach' /\ BuiltinNeedsDeprivation'
    BY <1>1 DEF Inv, Types, Held, In, OneRowEach, BuiltinNeedsDeprivation
<1>3. \A q \in Requests : (Progress(q)' <=> Progress(q)) /\ (Sourced(q)' <=> Sourced(q))
    BY <1>1 DEF Progress, HasRow, IsStored, Sourced, Justified
<1> QED BY <1>2, <1>3 DEF Inv

----------------------------------------------------------------------------
LEMMA InitInv == TrafficInit => Inv
<1> SUFFICES ASSUME TrafficInit PROVE Inv
    OBVIOUS
<1>1. Begun("idle", <<>>) \in Progresses
  <2>1. Nobody \in Clients
      BY Assumed DEF Nobody, Clients
  <2> QED BY <2>1 DEF Begun, Progresses
<1>2. Types
  <2>1. req \in [Requests -> Progresses]
      BY <1>1 DEF TrafficInit
  <2>2. 0 \in 0..Versions
      BY Assumed
  <2> QED BY <2>1, <2>2 DEF TrafficInit, Types
<1>3. Held /\ OneRowEach /\ BuiltinNeedsDeprivation
    BY DEF TrafficInit, Held, OneRowEach, BuiltinNeedsDeprivation
<1>4. \A r \in Requests : Progress(r) /\ Sourced(r)
    BY DEF TrafficInit, Begun, Progress, Sourced, Justified, Nobody, Resolving, Tables
<1> QED BY <1>2, <1>3, <1>4 DEF Inv

LEMMA NextInv == Inv /\ [TrafficNext]_<<trafficVars, connVars>> => Inv' /\ stored \subseteq stored'
<1> SUFFICES ASSUME Inv, [TrafficNext]_<<trafficVars, connVars>>
             PROVE  Inv' /\ stored \subseteq stored'
    OBVIOUS
<1>1. CASE UNCHANGED trafficVars
    BY <1>1, Stutter DEF trafficVars
<1>2. ASSUME NEW r \in Requests, Work(r) PROVE Inv' /\ stored \subseteq stored'
  <2>1. CASE NextRecord(r)
      BY <2>1, NextRecordStep DEF NextRecord
  <2>2. CASE Load(r)
    <3>1. PICK t \in Tables :
            LoadCached(r, t) \/ LoadLock(r, t) \/ FetchReturns(r, t) \/ FetchFails(r, t)
        BY <2>2 DEF Load
    <3>2. stored' = stored
        BY <3>1 DEF LoadCached, LoadLock, FetchReturns, FetchFails
    <3> QED BY <3>1, <3>2, LoadCachedStep, LoadLockStep, FetchReturnsStep, FetchFailsStep
  <2>3. CASE InsertAsk(r)
      BY <2>3, Stutter DEF InsertAsk, trafficVars
  <2>4. CASE InsertFails(r)
      BY <2>4, InsertFailsStep DEF InsertFails
  <2> QED BY <1>2, <2>1, <2>2, <2>3, <2>4, InsertChunkStep, InsertUnsureStep DEF Work, Insert
<1>3. ASSUME NEW r \in Requests, Resend(r) \/ \E b \in Accepted(r) : Receive(r, b)
      PROVE  Inv' /\ stored \subseteq stored'
  <2>1. stored' = stored
      BY <1>3 DEF Resend, Receive
  <2> QED BY <1>3, <2>1, ResendStep, ReceiveStep
<1>4. ASSUME NEW t \in Tables, Expire(t) \/ \E v \in 0..Versions : Edit(t, v)
      PROVE  Inv' /\ stored \subseteq stored'
  <2>1. stored' = stored
      BY <1>4 DEF Expire, Edit
  <2> QED BY <1>4, <2>1, TableStep
<1> QED BY <1>1, <1>2, <1>3, <1>4 DEF TrafficNext

LEMMA Invariance == TrafficSpec => []Inv
<1>1. Inv /\ [TrafficNext]_<<trafficVars, connVars>> => Inv'
    BY NextInv
<1> QED BY InitInv, <1>1, PTL DEF TrafficSpec

\* Whatever chunks, retries and lost answers do to a batch of any length, once it
\* was answered with success every readable record of it is stored, unless it
\* was a webhook call whose insert failed (insertTrafficRecords,
\* insertVideoTrafficRecords, handleStationPlaylistWebhook).
THEOREM AcceptedStored == TrafficSpec => []AcceptedIsStored
<1>1. Inv => AcceptedIsStored
  <2> SUFFICES ASSUME Inv, NEW r \in Requests, In(r, "ok"),
                      ~(r \in Webhooks /\ unsure > 0)
               PROVE  IF r \in Plain THEN copies[r] >= 1
                      ELSE \A i \in DOMAIN req[r].batch :
                             "readable" \in req[r].batch[i].is =>
                               \E row \in stored : row.key = <<Log(r), req[r].batch[i].id>>
      BY DEF AcceptedIsStored
  <2> QED BY ReqTypes DEF Progress, In, IsStored
<1> QED BY <1>1, Invariance, PTL

\* The built-in advertisers are a last resort for any number of requests that
\* share the cached rules, in any order of fetches and expiries
\* (loadClientRules).
THEOREM BuiltinIsLastResort == TrafficSpec => []BuiltinNeedsDeprivation
<1>1. Inv => BuiltinNeedsDeprivation
    BY DEF Inv
<1> QED BY <1>1, Invariance, PTL

\* However often batches are sent again and however they overlap, a spot has one
\* row, and a row that is stored stays as it is (the ON CONFLICT clauses).
THEOREM SpotsFinal == TrafficSpec => SpotsOnceAndFinal
<1>1. Inv /\ [TrafficNext]_<<trafficVars, connVars>> =>
        [ /\ stored \subseteq stored'
          /\ \A x, y \in stored' : x.key = y.key => x = y ]_<<trafficVars, connVars>>
    BY NextInv DEF Inv, OneRowEach
<1> QED BY <1>1, Invariance, PTL DEF TrafficSpec, SpotsOnceAndFinal

----------------------------------------------------------------------------
(* The connection and its users *)

\* Whoever dials or pings holds the connection's mutex, and nobody else.
Mutex ==
  \A x : (x \in Callers /\ at[x] = "dialing") \/ (x \in Probes /\ probe[x] = "pinging")
           <=> x = mu /\ x # Free
ConnTypes ==
  /\ dbUp \in BOOLEAN /\ connected \in BOOLEAN
  /\ at \in [Callers -> {"away", "waiting", "dialing", "has", "refused"}]
  /\ probe \in [Probes -> {"none", "busy", "absent", "pinging", "up", "down"}]
  /\ faults \in 0..MaxFaults

\* A pool was opened while the database was up, so losing it is a fault.
LostByFault ==
  /\ \A c \in Callers : at[c] = "has" => connected
  /\ connected /\ ~dbUp => faults > 0

\* Only a request that inserts, or that loads a table with its mutex, asks for the
\* connection; and the holder of such a mutex has asked.
Asking ==
  /\ \A t \in Tables : lock[t] # Free => at[lock[t]] # "away"
  /\ \A r \in Requests :
       at[r] # "away" => In(r, "insert") \/ \E t \in Tables : lock[t] = r

\* A plain batch is stored a second time only by a fault.
Counted ==
  /\ fresh \in [Tables -> BOOLEAN]
  /\ unsure > 0 => faults > 0
  /\ \A r \in Plain : copies[r] <= faults + (IF In(r, "ok") THEN 1 ELSE 0)

ConnInv == ConnTypes /\ Mutex /\ LostByFault /\ Asking /\ Counted

LEMMA ConnTypeIs == ConnTypeOK <=> ConnTypes /\ Mutex
<1>1. Mutex <=> {c \in Callers : at[c] = "dialing"} \cup {p \in Probes : probe[p] = "pinging"}
                  = {mu} \ {Free}
    BY DEF Mutex
<1> QED BY <1>1 DEF ConnTypeOK, ConnTypes

LEMMA FaultBound ==
  ASSUME ConnTypes
  PROVE  /\ Fault => faults' = faults + 1 /\ faults' \in 0..MaxFaults
         /\ \A down : FaultIf(down) => /\ faults' \in 0..MaxFaults /\ faults' >= faults
                                       /\ ~down => faults' > 0
<1>1. MaxFaults \in Nat /\ faults \in 0..MaxFaults
    BY TsdbAssumption DEF ConnTypes
<1> QED BY <1>1 DEF Fault, FaultIf

\* What a step of the connection leaves as it was.
Onward ==
  /\ ConnTypes'
  /\ \A c \in Callers : /\ at'[c] = "away" <=> at[c] = "away"
                        /\ at'[c] = "has" => at[c] = "has" \/ connected'
  /\ connected => connected'
  /\ connected' /\ ~dbUp' => (connected /\ ~dbUp) \/ faults' > 0
  /\ faults' \in Nat /\ faults' >= faults

\* What callers and probes do among themselves.
LEMMA ConnKeeps ==
  ASSUME ConnInv, Types, Held, ConnNext, UNCHANGED trafficVars
  PROVE  ConnInv'
<1> USE DEF ConnInv
<1>1. Free \notin Callers \cup Probes /\ Callers \cap Probes = {} /\ Callers = Requests
      /\ faults \in Nat
    BY TsdbAssumption, Assumed DEF ConnTypes
<1>2. Onward
  <2>1. ASSUME NEW c \in Callers, ConnReuse(c) \/ ConnDial(c) \/ ConnDialed(c)
        PROVE  Onward
    <3>1. UNCHANGED <<dbUp, probe, faults>> /\ connected' \in BOOLEAN
        BY <2>1 DEF ConnReuse, ConnDial, ConnDialed, ConnTypes
    <3>2. PICK to \in {"has", "dialing"} : at' = [at EXCEPT ![c] = to]
        BY <2>1 DEF ConnReuse, ConnDial, ConnDialed
    <3>3. at[c] \in {"waiting", "dialing"} /\ (to = "has" => connected')
        BY <2>1, <3>2 DEF ConnReuse, ConnDial, ConnDialed, ConnTypes
    <3>4. /\ connected => connected'
          /\ connected' /\ ~dbUp' => connected /\ ~dbUp
        BY <2>1 DEF ConnReuse, ConnDial, ConnDialed, ConnTypes
    <3>5. ConnTypes'
        BY <3>1, <3>2 DEF ConnTypes
    <3>6. \A x \in Callers : at'[x] = IF x = c THEN to ELSE at[x]
        BY <3>2 DEF ConnTypes
    <3>7. faults' \in Nat /\ faults' >= faults
        BY <1>1, <3>1
    <3>8. \A x \in Callers : /\ at'[x] = "away" <=> at[x] = "away"
                             /\ at'[x] = "has" => at[x] = "has" \/ connected'
        BY <3>3, <3>6
    <3> QED BY <3>4, <3>5, <3>7, <3>8 DEF Onward
  <2>2. ASSUME NEW c \in Callers, ConnDialFails(c)
        PROVE  Onward
    <3>1. faults' \in 0..MaxFaults /\ faults' >= faults
        BY <2>2, FaultBound DEF ConnDialFails
    <3> QED BY <1>1, <2>2, <3>1 DEF ConnDialFails, ConnTypes, Onward
  <2>3. ASSUME NEW p \in Probes, ProbeStart(p)
        PROVE  Onward
      BY <1>1, <2>3 DEF ProbeStart, ConnTypes, Onward
  <2>4. ASSUME NEW p \in Probes, ProbeEnd(p)
        PROVE  Onward
    <3>1. faults' \in 0..MaxFaults /\ faults' >= faults
        BY <1>1, <2>4, FaultBound DEF ProbeEnd, ConnTypes
    <3>2. probe' \in [Probes -> {"none", "busy", "absent", "pinging", "up", "down"}]
        BY <2>4 DEF ProbeEnd, ConnTypes
    <3>3. UNCHANGED <<dbUp, connected, at>>
        BY <2>4 DEF ProbeEnd
    <3> QED BY <1>1, <3>1, <3>2, <3>3 DEF ConnTypes, Onward
  <2>5. CASE DbDown
    <3>1. faults' \in 0..MaxFaults /\ faults' = faults + 1
        BY <2>5, FaultBound DEF DbDown
    <3>2. faults' > 0 /\ faults' \in Nat /\ faults' >= faults
        BY <1>1, <3>1
    <3> QED BY <1>1, <2>5, <3>1, <3>2 DEF DbDown, ConnTypes, Onward
  <2>6. CASE DbBack
      BY <1>1, <2>6 DEF DbBack, ConnTypes, Onward
  <2> QED BY <2>1, <2>2, <2>3, <2>4, <2>5, <2>6 DEF ConnNext, ConnStep
<1>3. Mutex'
  <2>1. ASSUME NEW c \in Callers, ConnReuse(c) PROVE Mutex'
      BY <1>1, <2>1 DEF ConnReuse, ConnTypes, Mutex
  <2>2. ASSUME NEW c \in Callers, ConnDial(c) PROVE Mutex'
      BY <1>1, <2>2 DEF ConnDial, ConnTypes, Mutex
  <2>3. ASSUME NEW c \in Callers, ConnDialed(c) \/ ConnDialFails(c) PROVE Mutex'
    <3>1. /\ at[c] = "dialing" /\ mu' = Free /\ probe' = probe
          /\ at'[c] # "dialing" /\ \A x \in Callers \ {c} : at'[x] = at[x]
        BY <2>3 DEF ConnDialed, ConnDialFails, ConnTypes
    <3>2. mu = c
        BY <3>1 DEF Mutex
    <3> QED BY <1>1, <3>1, <3>2 DEF Mutex
  <2>4. ASSUME NEW p \in Probes, ProbeStart(p) PROVE Mutex'
      BY <1>1, <2>4 DEF ProbeStart, ConnTypes, Mutex
  <2>5. ASSUME NEW p \in Probes, ProbeEnd(p) PROVE Mutex'
    <3>1. /\ probe[p] = "pinging" /\ mu' = Free /\ at' = at
          /\ probe'[p] # "pinging" /\ \A x \in Probes \ {p} : probe'[x] = probe[x]
        BY <2>5 DEF ProbeEnd, ConnTypes
    <3>2. mu = p
        BY <3>1 DEF Mutex
    <3> QED BY <1>1, <3>1, <3>2 DEF Mutex
  <2>6. CASE DbDown \/ DbBack
      BY <2>6 DEF DbDown, DbBack, Mutex
  <2> QED BY <2>1, <2>2, <2>3, <2>4, <2>5, <2>6 DEF ConnNext, ConnStep
<1>4. LostByFault'
    BY <1>1, <1>2 DEF LostByFault, Onward
<1>5. Asking'
  <2>1. UNCHANGED <<lock, req>>
      BY DEF trafficVars
  <2>2. \A t \in Tables : lock[t] # Free => lock[t] \in Callers
      BY <1>1 DEF Types
  <2> QED BY <1>1, <1>2, <2>1, <2>2 DEF Asking, In, Onward
<1>6. Counted'
  <2>1. UNCHANGED <<fresh, unsure, copies, req>>
      BY DEF trafficVars
  <2>2. \A r \in Plain : copies[r] \in Nat
      BY DEF Types
  <2> QED BY <1>1, <1>2, <2>1, <2>2 DEF Counted, In, Onward
<1> QED BY <1>2, <1>3, <1>4, <1>5, <1>6 DEF Onward

\* A caller asks for the connection or gives it back: nobody dials on the way.
LEMMA AskOrLeave ==
  ASSUME ConnTypes, Mutex, LostByFault, NEW r \in Requests, at[r] # "dialing",
         NEW place \in {"away", "waiting"}, at' = [at EXCEPT ![r] = place],
         UNCHANGED connRest, faults' \in 0..MaxFaults, faults' >= faults
  PROVE  /\ ConnTypes' /\ Mutex' /\ LostByFault'
         /\ at'[r] = place /\ \A q \in Requests \ {r} : at'[q] = at[q]
<1>1. at'[r] = place /\ \A q \in Requests \ {r} : at'[q] = at[q]
    BY Assumed DEF ConnTypes
<1>2. ConnTypes'
    BY DEF ConnTypes, connRest
<1>3. Mutex'
    BY <1>1, Assumed DEF Mutex, connRest
<1>4. LostByFault'
    BY <1>1, Assumed DEF LostByFault, connRest, ConnTypes
<1> QED BY <1>1, <1>2, <1>3, <1>4

LEMMA ConnSame ==
  ASSUME ConnTypes, Mutex, LostByFault, UNCHANGED connVars
  PROVE  ConnTypes' /\ Mutex' /\ LostByFault'
  BY DEF ConnTypes, Mutex, LostByFault, connVars

\* A request that neither inserts nor holds a table's mutex has not asked.
LEMMA AwayWhen ==
  ASSUME ConnInv, NEW r \in Requests, ~In(r, "insert"), \A t \in Tables : lock[t] # r
  PROVE  at[r] = "away"
  BY DEF ConnInv, Asking

\* What one request does.
LEMMA WorkKeeps ==
  ASSUME ConnInv, Inv, NEW r \in Requests,
         Work(r) \/ Resend(r) \/ \E b \in Accepted(r) : Receive(r, b)
  PROVE  ConnInv'
<1> USE DEF ConnInv
<1>1. /\ Types /\ Held /\ faults \in Nat /\ MaxFaults \in Nat
      /\ \A p \in Plain : copies[p] \in Nat
    BY TsdbAssumption DEF Inv, Types, ConnTypes
<1>2. ASSUME NextRecord(r) \/ Resend(r) \/ \E b \in Accepted(r) : Receive(r, b)
      PROVE  ConnInv'
  <2>1. /\ UNCHANGED connVars
        /\ UNCHANGED <<fresh, lock, copies, unsure>>
        /\ req[r].pc \in {"record", "error", "idle"}
        /\ \A q \in Requests \ {r} : req'[q] = req[q]
      BY <1>1, <1>2 DEF NextRecord, Resend, Receive, In, Types
  <2>2. ConnTypes' /\ Mutex' /\ LostByFault'
      BY <2>1, ConnSame
  <2>3. \A t \in Tables : lock[t] # r
    <3>1. \A t \in Tables : ~In(r, t)
        BY <2>1 DEF In, Tables
    <3> QED BY <3>1, Elsewhere
  <2>4. at[r] = "away" /\ at' = at
    <3>1. ~In(r, "insert")
        BY <2>1 DEF In
    <3> QED BY <2>1, <2>3, <3>1, AwayWhen DEF connVars
  <2>5. Asking'
      BY <2>1, <2>4 DEF Asking, In
  <2>6. Counted'
    <3>1. faults' = faults
        BY <2>1 DEF connVars
    <3>2. \A p \in Plain : (p = r => copies[p] <= faults)
        BY <1>1, <2>1 DEF Counted, In
    <3>3. \A p \in Plain \cap Requests : p # r => req'[p] = req[p]
        BY <2>1
    <3>4. Plain \subseteq Requests
        BY DEF Requests
    <3> QED BY <1>1, <2>1, <3>1, <3>2, <3>3, <3>4 DEF Counted, In
  <2> QED BY <2>2, <2>5, <2>6
<1>3. ASSUME NEW t \in Tables, LoadCached(r, t) PROVE ConnInv'
  <2>1. /\ UNCHANGED connVars /\ UNCHANGED <<fresh, lock, copies, unsure>>
        /\ In(r, t) /\ lock[t] = Free /\ Resolved(r, t, cached[t])
      BY <1>3 DEF LoadCached
  <2>2. ConnTypes' /\ Mutex' /\ LostByFault'
      BY <2>1, ConnSame
  <2>3. \A u \in Tables : lock[u] # r
    <3>1. \A u \in Tables : u # t => ~In(r, u)
        BY <2>1 DEF In
    <3> QED BY <2>1, <3>1, Elsewhere, Assumed
  <2>4. at[r] = "away" /\ at' = at
    <3>1. ~In(r, "insert")
        BY <2>1 DEF In, Tables
    <3> QED BY <2>1, <2>3, <3>1, AwayWhen DEF connVars
  <2>5. \A q \in Requests \ {r} : req'[q] = req[q]
      BY <1>1, <2>1 DEF Resolved, Types
  <2>6. Asking'
      BY <2>1, <2>4, <2>5 DEF Asking, In
  <2>7. Counted'
    <3>1. faults' = faults /\ Plain \subseteq Requests
        BY <2>1 DEF connVars, Requests
    <3>2. r \in Plain => copies[r] <= faults
        BY <1>1, <2>1 DEF Counted, In, Tables
    <3> QED BY <1>1, <2>1, <2>5, <3>1, <3>2 DEF Counted, In
  <2> QED BY <2>2, <2>6, <2>7
<1>4. ASSUME NEW t \in Tables, LoadLock(r, t) PROVE ConnInv'
  <2>1. /\ UNCHANGED <<fresh, copies, unsure, req, faults>> /\ UNCHANGED connRest
        /\ In(r, t) /\ lock[t] = Free /\ lock' = [lock EXCEPT ![t] = r]
        /\ at' = [at EXCEPT ![r] = "waiting"]
      BY <1>4 DEF LoadLock, AskConn
  <2>2. \A u \in Tables : lock[u] # r
    <3>1. \A u \in Tables : u # t => ~In(r, u)
        BY <2>1 DEF In
    <3> QED BY <2>1, <3>1, Elsewhere, Assumed
  <2>3. at[r] = "away"
    <3>1. ~In(r, "insert")
        BY <2>1 DEF In, Tables
    <3> QED BY <2>2, <3>1, AwayWhen
  <2>4. /\ ConnTypes' /\ Mutex' /\ LostByFault'
        /\ at'[r] = "waiting" /\ \A q \in Requests \ {r} : at'[q] = at[q]
    <3>1. faults' \in 0..MaxFaults /\ faults' >= faults
        BY <1>1, <2>1 DEF ConnTypes
    <3> QED BY <2>1, <2>3, <3>1, AskOrLeave
  <2>5. lock'[t] = r /\ \A u \in Tables \ {t} : lock'[u] = lock[u]
      BY <1>1, <2>1 DEF Types
  <2>6. Asking'
    <3>1. \A u \in Tables : lock'[u] # Free => at'[lock'[u]] # "away"
        BY <1>1, <2>4, <2>5 DEF Asking, Types
    <3>2. \A q \in Requests : In(q, "insert")' <=> In(q, "insert")
        BY <2>1 DEF In
    <3>3. ASSUME NEW q \in Requests \ {r}, \E u \in Tables : lock[u] = q
          PROVE  \E u \in Tables : lock'[u] = q
        BY <2>1, <2>5, <3>3, Assumed
    <3> QED BY <2>4, <2>5, <3>1, <3>2, <3>3 DEF Asking
  <2>7. Counted'
      BY <2>1 DEF Counted, In
  <2> QED BY <2>4, <2>6, <2>7
<1>5. ASSUME NEW t \in Tables, FetchReturns(r, t) \/ FetchFails(r, t) PROVE ConnInv'
  <2>1. /\ UNCHANGED <<copies, unsure>> /\ UNCHANGED connRest
        /\ In(r, t) /\ lock[t] = r /\ lock' = [lock EXCEPT ![t] = Free]
        /\ at[r] # "dialing" /\ at' = [at EXCEPT ![r] = "away"]
        /\ fresh' \in [Tables -> BOOLEAN] /\ \E v : Resolved(r, t, v)
    <3>1. CASE FetchReturns(r, t)
      <4>1. PICK none \in BOOLEAN :
              fresh' = [fresh EXCEPT ![t] = IF none THEN @ ELSE TRUE]
          BY <3>1 DEF FetchReturns
      <4>2. fresh' \in [Tables -> BOOLEAN]
          BY <4>1 DEF Counted
      <4> QED BY <3>1, <4>2 DEF FetchReturns, LeaveConn
    <3>2. CASE FetchFails(r, t)
        BY <3>2 DEF FetchFails, LeaveConn, Counted
    <3> QED BY <1>5, <3>1, <3>2
  <2>2. faults' \in 0..MaxFaults /\ faults' >= faults
    <3>1. CASE FetchReturns(r, t)
        BY <1>1, <3>1 DEF FetchReturns, ConnTypes
    <3>2. CASE FetchFails(r, t)
        BY <3>2, FaultBound DEF FetchFails
    <3> QED BY <1>5, <3>1, <3>2
  <2>3. /\ ConnTypes' /\ Mutex' /\ LostByFault'
        /\ at'[r] = "away" /\ \A q \in Requests \ {r} : at'[q] = at[q]
      BY <2>1, <2>2, AskOrLeave
  <2>4. \A u \in Tables \ {t} : lock[u] # r
    <3>1. \A u \in Tables : u # t => ~In(r, u)
        BY <2>1 DEF In
    <3> QED BY <3>1, Elsewhere
  <2>5. lock'[t] = Free /\ \A u \in Tables \ {t} : lock'[u] = lock[u]
      BY <1>1, <2>1 DEF Types
  <2>6. \A q \in Requests \ {r} : req'[q] = req[q]
      BY <1>1, <2>1 DEF Resolved, Types
  <2>7. Asking'
    <3>1. \A u \in Tables : lock'[u] # Free => at'[lock'[u]] # "away"
        BY <1>1, <2>3, <2>4, <2>5 DEF Asking, Types
    <3>2. \A q \in Requests \ {r} : In(q, "insert")' <=> In(q, "insert")
        BY <2>6 DEF In
    <3>3. ASSUME NEW q \in Requests \ {r}, \E u \in Tables : lock[u] = q
          PROVE  \E u \in Tables : lock'[u] = q
        BY <2>1, <2>5, <3>3
    <3> QED BY <2>3, <3>1, <3>2, <3>3 DEF Asking
  <2>8. Counted'
    <3>1. Plain \subseteq Requests
        BY DEF Requests
    <3>2. r \in Plain => copies[r] <= faults
        BY <1>1, <2>1 DEF Counted, In, Tables
    <3>3. faults' \in Nat /\ faults' >= faults
        BY <2>2
    <3>4. \A p \in Plain : copies[p] <= faults' + (IF In(p, "ok")' THEN 1 ELSE 0)
        BY <1>1, <2>6, <3>1, <3>2, <3>3 DEF Counted, In
    <3> QED BY <1>1, <2>1, <3>3, <3>4 DEF Counted
  <2> QED BY <2>3, <2>7, <2>8
<1>6. CASE InsertAsk(r)
  <2>1. /\ UNCHANGED <<fresh, lock, copies, unsure, req, faults>> /\ UNCHANGED connRest
        /\ In(r, "insert") /\ at[r] = "away" /\ at' = [at EXCEPT ![r] = "waiting"]
      BY <1>6 DEF InsertAsk, AskConn, trafficVars
  <2>2. faults' \in 0..MaxFaults /\ faults' >= faults
      BY <1>1, <2>1 DEF ConnTypes
  <2>3. /\ ConnTypes' /\ Mutex' /\ LostByFault'
        /\ at'[r] = "waiting" /\ \A q \in Requests \ {r} : at'[q] = at[q]
      BY <2>1, <2>2, AskOrLeave
  <2>4. Asking' /\ Counted'
      BY <1>1, <2>1, <2>3 DEF Asking, Counted, In, Types
  <2> QED BY <2>3, <2>4
<1>7. ASSUME InsertChunk(r) \/ InsertFails(r) \/ InsertUnsure(r)
      PROVE  ConnInv'
  <2>1. /\ UNCHANGED <<fresh, lock>> /\ UNCHANGED connRest
        /\ In(r, "insert") /\ at[r] # "dialing"
        /\ \A q \in Requests \ {r} : req'[q] = req[q]
      BY <1>1, <1>7 DEF InsertChunk, InsertFails, InsertUnsure, Move, Types
  <2>2. faults' \in 0..MaxFaults /\ faults' >= faults
    <3>1. CASE InsertChunk(r)
        BY <1>1, <3>1 DEF InsertChunk, ConnTypes
    <3>2. CASE InsertFails(r)
        BY <3>2, FaultBound DEF InsertFails
    <3>3. CASE InsertUnsure(r)
        BY <1>1, <3>3, FaultBound DEF InsertUnsure
    <3> QED BY <1>7, <3>1, <3>2, <3>3
  <2>3. \/ at' = at /\ In(r, "insert")'
        \/ at' = [at EXCEPT ![r] = "away"]
    <3>1. CASE InsertChunk(r)
        BY <1>1, <3>1 DEF InsertChunk, In, LeaveConn, Types, Progresses
    <3>2. CASE InsertFails(r) \/ InsertUnsure(r)
        BY <3>2 DEF InsertFails, InsertUnsure, LeaveConn
    <3> QED BY <1>7, <3>1, <3>2
  <2>4. ConnTypes' /\ Mutex' /\ LostByFault'
    <3>1. CASE at' = at
        BY <1>1, <2>1, <2>2, <3>1 DEF ConnTypes, Mutex, LostByFault, connRest
    <3>2. CASE at' = [at EXCEPT ![r] = "away"]
        BY <2>1, <2>2, <3>2, AskOrLeave
    <3> QED BY <2>3, <3>1, <3>2
  <2>5. \A t \in Tables : lock[t] # r
    <3>1. \A t \in Tables : ~In(r, t)
        BY <2>1 DEF In, Tables
    <3> QED BY <3>1, Elsewhere
  <2>6. Asking'
    <3>1. \A q \in Requests \ {r} : at'[q] = at[q]
        BY <2>3, Assumed DEF ConnTypes
    <3>2. at'[r] = "away" \/ In(r, "insert")'
        BY <2>3, Assumed DEF ConnTypes
    <3> QED BY <1>1, <2>1, <2>5, <3>1, <3>2 DEF Asking, In, Types
  <2>7. unsure' > 0 => faults' > 0
    <3>1. CASE InsertChunk(r)
        BY <3>1 DEF InsertChunk, Counted
    <3>2. CASE InsertFails(r)
      <4>1. CASE unsure' = unsure
          BY <1>1, <2>2, <4>1 DEF Counted
      <4>2. CASE at[r] = "has" /\ dbUp
        <5>1. FaultIf(FALSE)
            BY <3>2, <4>2 DEF InsertFails, FaultIf
        <5> QED BY <1>1, <5>1 DEF FaultIf, Fault
      <4>3. CASE at[r] = "has" /\ ~dbUp
          BY <1>1, <2>2, <4>3, Assumed DEF LostByFault
      <4> QED BY <3>2, <4>1, <4>2, <4>3 DEF InsertFails, ConnTypes
    <3>3. CASE InsertUnsure(r)
        BY <1>1, <3>3 DEF InsertUnsure, Fault
    <3> QED BY <1>7, <3>1, <3>2, <3>3
  <2>8. ASSUME NEW p \in Plain
        PROVE  copies'[p] <= faults' + (IF In(p, "ok")' THEN 1 ELSE 0)
    <3>1. p \in Requests /\ copies[p] \in Nat
        BY <1>1 DEF Requests
    <3>2. CASE p # r
      <4>1. copies'[p] = copies[p]
          BY <1>1, <1>7, <3>2 DEF InsertChunk, InsertFails, InsertUnsure, StoreChunk, Types
      <4>2. In(p, "ok")' <=> In(p, "ok")
          BY <2>1, <3>1, <3>2 DEF In
      <4> QED BY <1>1, <2>2, <3>1, <4>1, <4>2 DEF Counted
    <3>3. CASE p = r
      <4>1. copies[r] <= faults
          BY <1>1, <2>1, <3>3 DEF Counted, In
      <4>2. CASE InsertChunk(r)
        <5>1. copies'[r] = copies[r] + 1 /\ faults' = faults
            BY <1>1, <3>3, <4>2 DEF InsertChunk, StoreChunk, Types
        <5>2. In(r, "ok")'
            BY <1>1, <3>3, <4>2 DEF InsertChunk, LastChunk, Move, In, Types, Progresses
        <5> QED BY <1>1, <3>1, <3>3, <4>1, <5>1, <5>2
      <4>3. CASE InsertFails(r)
        <5>1. copies'[r] = copies[r]
            BY <4>3 DEF InsertFails
        <5> QED BY <1>1, <2>2, <3>1, <3>3, <4>1, <5>1
      <4>4. CASE InsertUnsure(r)
        <5>1. copies'[r] = copies[r] + 1 /\ faults' = faults + 1
            BY <1>1, <3>3, <4>4 DEF InsertUnsure, StoreChunk, Fault, Types
        <5> QED BY <1>1, <3>1, <3>3, <4>1, <5>1
      <4> QED BY <1>7, <4>2, <4>3, <4>4
    <3> QED BY <3>2, <3>3
  <2> QED BY <2>1, <2>4, <2>6, <2>7, <2>8 DEF Counted
<1> QED BY <1>2, <1>3, <1>4, <1>5, <1>6, <1>7 DEF Work, Load, Insert

LEMMA ConnInvNext ==
  Inv /\ ConnInv /\ [TrafficNext]_<<trafficVars, connVars>> => ConnInv'
<1> SUFFICES ASSUME Inv, ConnInv, [TrafficNext]_<<trafficVars, connVars>>
             PROVE  ConnInv'
    OBVIOUS
<1>1. Types /\ Held
    BY DEF Inv
<1>2. CASE ConnNext /\ UNCHANGED trafficVars
    BY <1>1, <1>2, ConnKeeps
<1>3. ASSUME NEW t \in Tables, Expire(t) \/ \E v \in 0..Versions : Edit(t, v)
      PROVE  ConnInv'
  <2>1. /\ UNCHANGED connVars /\ UNCHANGED <<lock, req, copies, unsure>>
        /\ fresh' \in [Tables -> BOOLEAN]
      BY <1>3 DEF Expire, Edit, ConnInv, Counted
  <2>2. ConnTypes' /\ Mutex' /\ LostByFault'
      BY <2>1, ConnSame DEF ConnInv
  <2> QED BY <2>1, <2>2 DEF ConnInv, Asking, Counted, In, connVars
<1>4. CASE UNCHANGED <<trafficVars, connVars>>
  <2>1. UNCHANGED connVars /\ UNCHANGED <<fresh, lock, req, copies, unsure>>
      BY <1>4 DEF trafficVars
  <2>2. ConnTypes' /\ Mutex' /\ LostByFault'
      BY <2>1, ConnSame DEF ConnInv
  <2> QED BY <2>1, <2>2 DEF ConnInv, Asking, Counted, In, connVars
<1> QED BY <1>2, <1>3, <1>4, WorkKeeps DEF TrafficNext

\* Every mutex of the ingest path has its rightful holder, for any number of
\* callers and probes: whoever dials or pings has the connection's, whoever loads
\* a table has that table's and is on its way through the connection (conn,
\* status, loadClientRules, loadTitleOverrides).
THEOREM IngestTypes == TrafficSpec => []IngestTypeOK
<1>1. TrafficInit /\ ConnInit => ConnInv
  <2> SUFFICES ASSUME TrafficInit, ConnInit PROVE ConnInv
      OBVIOUS
  <2>1. ConnTypes
    <3>1. 0 \in 0..MaxFaults
        BY TsdbAssumption
    <3> QED BY <3>1 DEF ConnInit, ConnTypes
  <2>5. LostByFault
      BY DEF ConnInit, LostByFault
  <2>2. Mutex
      BY DEF ConnInit, Mutex
  <2>3. Asking
      BY Assumed DEF TrafficInit, ConnInit, Asking
  <2>4. Counted
      BY DEF TrafficInit, ConnInit, Counted
  <2> QED BY <2>1, <2>2, <2>3, <2>4, <2>5 DEF ConnInv
<1>2. Inv /\ ConnInv => IngestTypeOK
  <2> SUFFICES ASSUME Inv, ConnInv PROVE TrafficTypeOK
      BY ConnTypeIs DEF IngestTypeOK, ConnInv
  <2>1. \A r \in Requests : /\ req[r].pc \in {"idle", "record", "insert"} \cup Tables \cup Answers
                            /\ ToSet(req[r].rows) \subseteq RowTypes
    <3> TAKE r \in Requests
    <3>1. req[r].pc \in {"idle", "record", "insert"} \cup Tables \cup Answers
        BY ReqTypes DEF Progresses, Resolving
    <3>2. ToSet(req[r].rows) \subseteq RowTypes
        BY ReqTypes DEF ToSet
    <3> QED BY <3>1, <3>2
  <2>2. \A t \in Tables : lock[t] # Free => In(lock[t], t) /\ at[lock[t]] # "away"
      BY DEF Inv, Held, ConnInv, Asking
  <2>3. copies \in [Plain -> 0..(MaxFaults + 1)]
    <3>1. copies \in [Plain -> Nat] /\ faults \in 0..MaxFaults /\ MaxFaults \in Nat
        BY TsdbAssumption DEF Inv, Types, ConnInv, ConnTypes
    <3>2. \A p \in Plain : copies[p] <= MaxFaults + 1
        BY <3>1 DEF ConnInv, Counted
    <3>3. \A p \in Plain : copies[p] \in 0..(MaxFaults + 1)
        BY <3>1, <3>2
    <3> QED BY <3>1, <3>3
  <2> QED BY <2>1, <2>2, <2>3 DEF TrafficTypeOK, Inv, Types, ConnInv, Counted
<1>3. Inv /\ [TrafficNext]_<<trafficVars, connVars>> => Inv'
    BY NextInv
<1> QED BY <1>1, <1>2, <1>3, InitInv, ConnInvNext, PTL DEF TrafficSpec
=============================================================================
