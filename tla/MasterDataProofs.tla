--------------------------- MODULE MasterDataProofs ---------------------------
(***************************************************************************)
(* For any workers, titles, records and requests with lists of any length: *)
(* a record changes only under lockRedis in a request for its own title,   *)
(* and as long as commands are executed or throw, an answer "200" is what  *)
(* it says, up to the records the BY_KEYWORDS operations cannot see.       *)
(*                                                                         *)
(* Whoever is in an operation owns lockRedis (OwnerInv), so what the items *)
(* before the present one have left in the cache and in the local lists    *)
(* (Progress) is still true at the next command; the operator, who moves   *)
(* records at any time, changes only where they are.                       *)
(***************************************************************************)
EXTENDS MasterData, TLAPS

Inside == {"item", "del", "hset", "hget", "keys", "each"}

FunctionsInv ==
    /\ batch \in [Workers -> Batches \cup {<<>>}]
    /\ pos \in [Workers -> Nat \ {0}]
    /\ DOMAIN answer = Workers /\ DOMAIN listed = Workers

\* A worker is in an operation exactly while it owns lockRedis.
OwnerInv == \A w \in Workers : step[w] \in Inside <=> lockRedis = w

\* Where a worker with operation o is fits its operation and its items.
Placed(o, t, b, s, n, f) ==
    /\ o \in Operations
    /\ \A i \in 1 .. n - 1 : b[i].id \in Ids
    /\ s \in {"del", "hset", "hget"} => n \in 1 .. Len(b) /\ b[n].id \in Ids
    /\ s = "del" => o \in {"CREATE", "DELETE_KEYS"}
    /\ s = "hset" => o = "CREATE"
    /\ s = "hget" => o = "LIST_KEYS"
    /\ s \in {"keys", "each"} => o \in ByKeywords
    /\ \A k \in f : k \in Keys /\ k[1] = t

PlaceInv ==
    \A w \in Workers :
      /\ step[w] \in {"idle", "waiting"} => pos[w] = 1 /\ listed[w] = {} /\ found[w] = {}
      /\ step[w] = "waiting" => op[w] \in Operations
      /\ step[w] # "idle" => answer[w] = NoAnswer
      /\ step[w] \in Inside => Placed(op[w], title[w], batch[w], step[w], pos[w], found[w])

Records(st, k) == IF st[k] = Absent THEN {} ELSE {<<k, st[k]>>}

\* What operation o on title t with items b has done before item n: l and f
\* are its local lists, st is the cache, at what the new node holds of it.
Progress(o, t, b, s, n, l, f, st, at) ==
    /\ o = "CREATE" =>
         \A i \in 1 .. n - 1 :
           (\A j \in i + 1 .. n - 1 : b[j].id # b[i].id) =>
              \/ s = "hset" /\ b[i].id = b[n].id
              \/ st[<<t, b[i].id>>] = b[i].value
    /\ o = "LIST_KEYS" => l = UNION {Records(st, <<t, b[i].id>>) : i \in 1 .. n - 1}
    /\ o = "DELETE_KEYS" =>
         /\ l \subseteq {<<t, b[i].id>> : i \in 1 .. n - 1}
         /\ \A i \in 1 .. n - 1 : st[<<t, b[i].id>>] = Absent
    /\ o = "LIST_KEYWORDS" =>
         /\ s # "each" => l = {}
         /\ l \subseteq {<<k, st[k]>> : k \in {j \in Keys : j[1] = t /\ st[j] # Absent}}
         /\ s = "each" => \A k \in Keys : (k[1] = t /\ st[k] # Absent /\ k \notin at) =>
                                             k \in f \/ <<k, st[k]>> \in l
    /\ o = "DELETE_KEYWORDS" =>
         (s = "each" => \A k \in Keys : (k[1] = t /\ st[k] # Absent) => k \in f \cup at)

ProgressInv ==
    OnlyThrows => \A w \in Workers :
      step[w] \in Inside => Progress(op[w], title[w], batch[w], step[w], pos[w],
                                     listed[w], found[w], store, atNew)

MasterInv ==
    /\ MasterTypeOK
    /\ FunctionsInv
    /\ OwnerInv
    /\ PlaceInv
    /\ ProgressInv

-----------------------------------------------------------------------------
(* An operation and its place                                              *)

LEMMA BatchFacts ==
    ASSUME MasterInv, NEW w \in Workers
    PROVE  /\ batch[w] \in Seq(MasterItems) /\ Len(batch[w]) \in Nat
           /\ \A i \in 1 .. Len(batch[w]) : batch[w][i] \in MasterItems
           /\ pos[w] \in 1 .. Len(batch[w]) + 1 /\ pos[w] \in Nat \ {0}
<1>1. batch[w] \in Seq(MasterItems)
  <2>1. batch[w] \in Batches \cup {<<>>}
    BY DEF MasterInv, FunctionsInv
  <2>2. <<>> \in Seq(MasterItems)
    OBVIOUS
  <2>. QED BY <2>1, <2>2, MasterAssumption
<1>2. Len(batch[w]) \in Nat /\ \A i \in 1 .. Len(batch[w]) : batch[w][i] \in MasterItems
  BY <1>1
<1>3. pos[w] \in 1 .. Len(batch[w]) + 1 /\ pos[w] \in Nat \ {0}
  BY DEF MasterInv, MasterTypeOK, FunctionsInv
<1>. QED BY <1>1, <1>2, <1>3

\* The invariant of the worker that is in an operation.
LEMMA InOperation ==
    ASSUME MasterInv, NEW w \in Workers, step[w] \in Inside
    PROVE  /\ lockRedis = w /\ answer[w] = NoAnswer /\ title[w] \in Titles
           /\ store \in [Keys -> Values \cup {Absent}]
           /\ atNew \subseteq {k \in Keys : store[k] # Absent}
           /\ listed[w] \subseteq Keys \cup (Keys \X Values) /\ found[w] \subseteq Keys
           /\ pos[w] \in 1 .. Len(batch[w]) + 1 /\ Len(batch[w]) \in Nat
           /\ Placed(op[w], title[w], batch[w], step[w], pos[w], found[w])
           /\ OnlyThrows => Progress(op[w], title[w], batch[w], step[w], pos[w],
                                     listed[w], found[w], store, atNew)
           /\ Item(w) = batch[w][pos[w]]
BY BatchFacts DEF MasterInv, MasterTypeOK, OwnerInv, PlaceInv, ProgressInv, Inside, Item

\* The local lists after a step.
LEMMA LocalsAre ==
    ASSUME MasterInv, NEW w \in Workers, NEW l, NEW f, Locals(w, l, f)
    PROVE  /\ title' = title
           /\ \A u \in Workers \ {w} : listed'[u] = listed[u] /\ found'[u] = found[u]
           /\ listed'[w] = (IF step'[w] = "idle" THEN {} ELSE l)
           /\ found'[w] = (IF step'[w] = "idle" THEN {} ELSE f)
           /\ DOMAIN listed' = Workers /\ DOMAIN found' = Workers
<1>1. DOMAIN listed = Workers /\ DOMAIN found = Workers
  BY DEF MasterInv, MasterTypeOK, FunctionsInv
<1>. QED BY <1>1 DEF Locals

\* The function returns: nobody owns lockRedis any more.
LEMMA ReturnKeeps ==
    ASSUME MasterInv, NEW w \in Workers, lockRedis = w,
           NEW code, NEW data, Return(w, code, data), NEW l, NEW f, Locals(w, l, f),
           store' \in [Keys -> Values \cup {Absent}],
           atNew' \subseteq {k \in Keys : store'[k] # Absent}
    PROVE  MasterInv'
<1>0. /\ step \in [Workers -> {"idle", "waiting", "item", "del", "hset", "hget", "keys", "each"}]
      /\ batch \in [Workers -> Batches \cup {<<>>}] /\ pos \in [Workers -> Nat \ {0}]
      /\ DOMAIN answer = Workers /\ NoWorker \notin Workers
      /\ \A u \in Workers \ {w} : step[u] \notin Inside
  BY CacheAssumption DEF MasterInv, MasterTypeOK, FunctionsInv, OwnerInv
<1>1. /\ lockRedis' = NoWorker /\ UNCHANGED <<op, asked, crashed, faults>>
      /\ step' = [step EXCEPT ![w] = "idle"] /\ batch' = [batch EXCEPT ![w] = <<>>]
      /\ pos' = [pos EXCEPT ![w] = 1]
      /\ answer' = [answer EXCEPT ![w] = [code |-> code, data |-> data]]
  BY DEF Return, Goto
<1>2. \A u \in Workers : step'[u] \in {"idle", "waiting"}
  BY <1>0, <1>1 DEF Inside
<1>3. \A u \in Workers \ {w} : /\ step'[u] = step[u] /\ batch'[u] = batch[u]
                                /\ pos'[u] = pos[u] /\ answer'[u] = answer[u]
                                /\ listed'[u] = listed[u] /\ found'[u] = found[u]
  BY <1>0, <1>1, LocalsAre
<1>4. /\ step'[w] = "idle" /\ batch'[w] = <<>> /\ pos'[w] = 1
      /\ listed'[w] = {} /\ found'[w] = {} /\ title' = title
  BY <1>0, <1>1, LocalsAre
<1>5. FunctionsInv'
  BY <1>0, <1>1, LocalsAre DEF FunctionsInv
<1>6. MasterTypeOK'
  <2>1. \A u \in Workers : pos'[u] \in 1 .. Len(batch'[u]) + 1
    BY <1>3, <1>4 DEF MasterInv, MasterTypeOK
  <2>2. step' \in [Workers -> {"idle", "waiting", "item", "del", "hset", "hget", "keys", "each"}]
    BY <1>0, <1>1
  <2>3. \A u \in Workers : listed'[u] \subseteq Keys \cup (Keys \X Values)
    BY <1>3, <1>4 DEF MasterInv, MasterTypeOK
  <2>4. found' = [found EXCEPT ![w] = {}]
    BY <1>4 DEF Locals
  <2>5. found' \in [Workers -> SUBSET Keys]
    BY <2>4 DEF MasterInv, MasterTypeOK
  <2>. QED BY <1>1, <1>2, <1>4, <2>1, <2>2, <2>3, <2>5 DEF MasterInv, MasterTypeOK
<1>7. OwnerInv'
  BY <1>0, <1>1, <1>2 DEF OwnerInv, Inside
<1>8. PlaceInv'
  BY <1>1, <1>2, <1>3, <1>4 DEF MasterInv, PlaceInv, Inside
<1>9. ProgressInv'
  BY <1>2 DEF ProgressInv, Inside
<1>. QED BY <1>5, <1>6, <1>7, <1>8, <1>9 DEF MasterInv

\* It goes on with item n: its place must fit, and its progress.
LEMMA ContinueKeeps ==
    ASSUME MasterInv, NEW w \in Workers, lockRedis = w,
           NEW s \in Inside, NEW n \in 1 .. Len(batch[w]) + 1, Continue(w, s, n),
           NEW l, NEW f, Locals(w, l, f),
           store' \in [Keys -> Values \cup {Absent}],
           atNew' \subseteq {k \in Keys : store'[k] # Absent},
           l \subseteq Keys \cup (Keys \X Values), f \subseteq Keys,
           Placed(op[w], title[w], batch[w], s, n, f),
           OnlyThrows => Progress(op[w], title[w], batch[w], s, n, l, f, store', atNew')
    PROVE  MasterInv'
<1>0. /\ step \in [Workers -> {"idle", "waiting", "item", "del", "hset", "hget", "keys", "each"}]
      /\ batch \in [Workers -> Batches \cup {<<>>}] /\ pos \in [Workers -> Nat \ {0}]
      /\ \A u \in Workers \ {w} : step[u] \notin Inside
      /\ step[w] \in Inside /\ op[w] \in Operations /\ answer[w] = NoAnswer
  <2>1. step[w] \in Inside
    BY DEF MasterInv, OwnerInv
  <2>. QED BY <2>1, InOperation DEF MasterInv, MasterTypeOK, FunctionsInv, OwnerInv, Placed
<1>1. /\ UNCHANGED <<lockRedis, op, batch, answer, asked, crashed, faults>>
      /\ step' = [step EXCEPT ![w] = s] /\ pos' = [pos EXCEPT ![w] = n]
  BY DEF Continue, Goto
<1>2. \A u \in Workers \ {w} : /\ step'[u] = step[u] /\ pos'[u] = pos[u]
                                /\ listed'[u] = listed[u] /\ found'[u] = found[u]
  BY <1>0, <1>1, LocalsAre
<1>3. /\ step'[w] = s /\ pos'[w] = n /\ n \in Nat \ {0} /\ title' = title
      /\ listed'[w] = l /\ found'[w] = f
  BY <1>0, <1>1, BatchFacts, LocalsAre DEF Inside
<1>4. FunctionsInv'
  BY <1>0, <1>1, <1>3, LocalsAre DEF MasterInv, FunctionsInv
<1>5. MasterTypeOK'
  <2>1. \A u \in Workers : pos'[u] \in 1 .. Len(batch'[u]) + 1
    BY <1>1, <1>2, <1>3 DEF MasterInv, MasterTypeOK
  <2>2. step' \in [Workers -> {"idle", "waiting", "item", "del", "hset", "hget", "keys", "each"}]
    BY <1>0, <1>1 DEF Inside
  <2>3. \A u \in Workers : step'[u] \in {"del", "hset", "hget"} => More(u)'
    <3>1. s \in {"del", "hset", "hget"} => More(w)'
      BY <1>1, <1>3 DEF More, Placed
    <3>2. \A u \in Workers \ {w} : step'[u] \notin {"del", "hset", "hget"}
      BY <1>0, <1>2 DEF Inside
    <3>. QED BY <1>3, <3>1, <3>2
  <2>4. \A u \in Workers : listed'[u] \subseteq Keys \cup (Keys \X Values)
    BY <1>2, <1>3 DEF MasterInv, MasterTypeOK
  <2>5. found' = [found EXCEPT ![w] = f]
    BY <1>3, <1>0 DEF Locals, Inside
  <2>6. found' \in [Workers -> SUBSET Keys]
    BY <2>5 DEF MasterInv, MasterTypeOK
  <2>. QED BY <1>1, <1>3, <2>1, <2>2, <2>3, <2>4, <2>6 DEF MasterInv, MasterTypeOK
<1>6. OwnerInv'
  BY <1>0, <1>1, <1>2, <1>3 DEF MasterInv, OwnerInv
<1>7. PlaceInv'
  <2>1. ASSUME NEW u \in Workers \ {w}
        PROVE  /\ step'[u] \notin Inside
               /\ step'[u] \in {"idle", "waiting"} => pos'[u] = 1 /\ listed'[u] = {} /\ found'[u] = {}
               /\ step'[u] = "waiting" => op'[u] \in Operations
               /\ step'[u] # "idle" => answer'[u] = NoAnswer
    BY <1>0, <1>1, <1>2 DEF MasterInv, PlaceInv
  <2>2. s \notin {"idle", "waiting"}
    BY DEF Inside
  <2>. QED BY <1>0, <1>1, <1>3, <2>1, <2>2 DEF PlaceInv
<1>8. ProgressInv'
  BY <1>0, <1>1, <1>2, <1>3 DEF ProgressInv, OnlyThrows
<1>. QED BY <1>4, <1>5, <1>6, <1>7, <1>8 DEF MasterInv

\* The process dies of a stale reply.
LEMMA DieKeeps ==
    ASSUME MasterInv, NEW w \in Workers, step[w] \in Inside, "stale" \in faults, Die,
           NEW l, NEW f, Locals(w, l, f), store' = store, atNew' = atNew,
           l \subseteq Keys \cup (Keys \X Values), f \subseteq found[w]
    PROVE  MasterInv'
<1>1. /\ UNCHANGED <<lockRedis, step, op, batch, pos, answer, asked, faults>> /\ crashed' = TRUE
  BY DEF Die
<1>2. /\ listed'[w] = l /\ found'[w] = f /\ title' = title
      /\ \A u \in Workers \ {w} : listed'[u] = listed[u] /\ found'[u] = found[u]
  BY <1>1, LocalsAre DEF Inside
<1>3. found' = [found EXCEPT ![w] = f] /\ found' \in [Workers -> SUBSET Keys]
  <2>1. found' = [found EXCEPT ![w] = f]
    BY <1>1 DEF Locals, Inside
  <2>. QED BY <2>1 DEF MasterInv, MasterTypeOK
<1>4. MasterTypeOK'
  BY <1>1, <1>2, <1>3 DEF MasterInv, MasterTypeOK, More
<1>5. FunctionsInv' /\ OwnerInv'
  BY <1>1, LocalsAre DEF MasterInv, FunctionsInv, OwnerInv
<1>6. PlaceInv'
  <2>1. ASSUME NEW u \in Workers \ {w}
        PROVE  /\ step'[u] \in {"idle", "waiting"} => pos'[u] = 1 /\ listed'[u] = {} /\ found'[u] = {}
               /\ step'[u] = "waiting" => op'[u] \in Operations
               /\ step'[u] # "idle" => answer'[u] = NoAnswer
               /\ step'[u] \in Inside => Placed(op'[u], title'[u], batch'[u], step'[u], pos'[u], found'[u])
    BY <1>1, <1>2 DEF MasterInv, PlaceInv
  <2>2. Placed(op[w], title[w], batch[w], step[w], pos[w], f)
    BY InOperation DEF Placed
  <2>3. step[w] \notin {"idle", "waiting"} /\ answer[w] = NoAnswer
    BY InOperation DEF Inside
  <2>. QED BY <1>1, <1>2, <2>1, <2>2, <2>3 DEF PlaceInv
<1>7. ProgressInv'
  BY <1>1 DEF ProgressInv, OnlyThrows
<1>. QED BY <1>4, <1>5, <1>6, <1>7 DEF MasterInv

LEMMA ReadFailsKeeps ==
    ASSUME MasterInv, NEW w \in Workers, step[w] \in Inside, NEW code, ReadFails(w, code),
           NEW l, NEW f, Locals(w, l, f), atNew' = atNew,
           l \subseteq Keys \cup (Keys \X Values), f \subseteq found[w]
    PROVE  MasterInv'
<1>1. CASE "stale" \in faults /\ Die
  <2>1. store' = store
    BY <1>1 DEF Die
  <2>. QED BY <1>1, <2>1, DieKeeps
<1>2. CASE Return(w, code, NoData) /\ store' = store
  BY <1>2, ReturnKeeps, InOperation
<1>. QED BY <1>1, <1>2 DEF ReadFails

\* Where records are written while the slot is being moved.
LEMMA PlaceFacts ==
    ASSUME atNew \subseteq Keys, Place
    PROVE  /\ atNew' \subseteq {k \in Keys : store'[k] # Absent}
           /\ \A k \in atNew : store'[k] # Absent => k \in atNew'
BY DEF Place

LEMMA KeyFacts ==
    ASSUME NEW t \in Titles, NEW i \in Ids
    PROVE  <<t, i>> \in Keys /\ <<t, i>>[1] = t
BY MasterAssumption

LEMMA RecordIs ==
    ASSUME store \in [Keys -> Values \cup {Absent}], NEW k \in Keys
    PROVE  /\ Record(k) = Records(store, k) /\ Record(k) \subseteq Keys \X Values
           /\ \A r \in Replies(k) : r \subseteq Keys \X Values
           /\ OnlyThrows => Replies(k) = {Record(k)}
BY DEF Record, Records, Replies, OnlyThrows

-----------------------------------------------------------------------------
(* The steps of an operation                                               *)

LEMMA ReceiveKeeps ==
    ASSUME MasterInv, NEW w \in Workers, ReceiveMaster(w)
    PROVE  MasterInv'
<1>0. /\ step \in [Workers -> {"idle", "waiting", "item", "del", "hset", "hget", "keys", "each"}]
      /\ batch \in [Workers -> Batches \cup {<<>>}] /\ pos \in [Workers -> Nat \ {0}]
      /\ DOMAIN answer = Workers /\ op \in [Workers -> Operations \cup {"none"}]
      /\ title \in [Workers -> Titles] /\ lockRedis \in Workers \cup {NoWorker}
  BY DEF MasterInv, MasterTypeOK, FunctionsInv
<1>1. PICK o \in Operations, t \in Titles, b \in Batches \cup {<<>>} :
        Receive(w, o, b) /\ title' = [title EXCEPT ![w] = t]
  BY DEF ReceiveMaster
<1>2. /\ UNCHANGED <<store, lockRedis, pos, crashed, faults, listed, found, atNew>>
      /\ step[w] = "idle" /\ step' = [step EXCEPT ![w] = "waiting"]
      /\ op' = [op EXCEPT ![w] = o] /\ batch' = [batch EXCEPT ![w] = b]
      /\ answer' = [answer EXCEPT ![w] = NoAnswer]
  BY <1>1 DEF ReceiveMaster, Receive, Goto, nodeVars
<1>3. \A u \in Workers \ {w} : /\ step'[u] = step[u] /\ op'[u] = op[u] /\ batch'[u] = batch[u]
                                /\ answer'[u] = answer[u] /\ title'[u] = title[u]
  BY <1>0, <1>1, <1>2
<1>4. /\ step'[w] = "waiting" /\ op'[w] = o /\ batch'[w] = b /\ answer'[w] = NoAnswer
      /\ pos[w] = 1 /\ listed[w] = {} /\ found[w] = {}
  BY <1>0, <1>2 DEF MasterInv, PlaceInv
<1>5. Len(b) \in Nat
  <2>1. <<>> \in Seq(MasterItems)
    OBVIOUS
  <2>2. b \in Seq(MasterItems)
    BY <2>1, MasterAssumption
  <2>. QED BY <2>2
<1>6. MasterTypeOK'
  <2>1. \A u \in Workers : pos'[u] \in 1 .. Len(batch'[u]) + 1
    BY <1>2, <1>3, <1>4, <1>5 DEF MasterInv, MasterTypeOK
  <2>2. \A u \in Workers : step'[u] \in {"del", "hset", "hget"} => More(u)'
    BY <1>2, <1>3, <1>4 DEF MasterInv, MasterTypeOK, More
  <2>3. /\ step' \in [Workers -> {"idle", "waiting", "item", "del", "hset", "hget", "keys", "each"}]
        /\ op' \in [Workers -> Operations \cup {"none"}] /\ title' \in [Workers -> Titles]
    BY <1>0, <1>1, <1>2
  <2>. QED BY <1>2, <2>1, <2>2, <2>3 DEF MasterInv, MasterTypeOK
<1>7. FunctionsInv' /\ OwnerInv'
  BY <1>0, <1>2, <1>3, <1>4 DEF MasterInv, FunctionsInv, OwnerInv, Inside
<1>8. PlaceInv'
  BY <1>2, <1>3, <1>4 DEF MasterInv, PlaceInv, Inside
<1>9. ProgressInv'
  BY <1>2, <1>3, <1>4 DEF MasterInv, ProgressInv, OnlyThrows, Inside
<1>. QED BY <1>6, <1>7, <1>8, <1>9 DEF MasterInv

LEMMA LockKeeps ==
    ASSUME MasterInv, NEW w \in Workers, LockMaster(w)
    PROVE  MasterInv'
<1>0. step \in [Workers -> {"idle", "waiting", "item", "del", "hset", "hget", "keys", "each"}]
      /\ NoWorker \notin Workers
  BY CacheAssumption DEF MasterInv, MasterTypeOK
<1>1. /\ UNCHANGED <<store, op, batch, pos, answer, crashed, faults, title, listed, found, atNew>>
      /\ step[w] = "waiting" /\ lockRedis = NoWorker
      /\ lockRedis' = w /\ step' = [step EXCEPT ![w] = "item"]
  BY DEF LockMaster, Lock, Goto, localVars, nodeVars
<1>2. step'[w] = "item" /\ \A u \in Workers \ {w} : step'[u] = step[u] /\ step[u] \notin Inside
  BY <1>0, <1>1 DEF MasterInv, OwnerInv
<1>3. pos[w] = 1 /\ listed[w] = {} /\ found[w] = {} /\ op[w] \in Operations /\ answer[w] = NoAnswer
  BY <1>1 DEF MasterInv, PlaceInv
<1>4. MasterTypeOK'
  <2>1. step' \in [Workers -> {"idle", "waiting", "item", "del", "hset", "hget", "keys", "each"}]
    BY <1>0, <1>1
  <2>2. \A u \in Workers : step'[u] \in {"del", "hset", "hget"} => More(u)'
    BY <1>1, <1>2 DEF MasterInv, MasterTypeOK, More
  <2>. QED BY <1>1, <2>1, <2>2 DEF MasterInv, MasterTypeOK
<1>5. FunctionsInv' /\ OwnerInv'
  BY <1>1, <1>2 DEF MasterInv, FunctionsInv, OwnerInv, Inside
<1>6. PlaceInv'
  <2>1. Placed(op[w], title[w], batch[w], "item", 1, {})
    BY <1>3 DEF Placed
  <2>. QED BY <1>1, <1>2, <1>3, <2>1 DEF MasterInv, PlaceInv
<1>7. ProgressInv'
  <2>1. Progress(op[w], title[w], batch[w], "item", 1, {}, {}, store, atNew)
    BY DEF Progress
  <2>. QED BY <1>1, <1>2, <1>3, <2>1 DEF ProgressInv
<1>. QED BY <1>4, <1>5, <1>6, <1>7 DEF MasterInv

\* The three ends of an operation.
LEMMA EndKeeps ==
    ASSUME MasterInv, NEW w \in Workers, NoMoreItems(w) \/ BadItem(w) \/ NoMoreKeys(w)
    PROVE  MasterInv'
<1>1. step[w] \in Inside
  BY DEF NoMoreItems, BadItem, NoMoreKeys, AtItem, Inside
<1>2. /\ store' = store /\ atNew' = atNew /\ Locals(w, listed[w], found[w])
      /\ Answer(w) \/ Unknown(w)
  BY DEF NoMoreItems, BadItem, NoMoreKeys, SameLocals, nodeVars
<1>3. \E code, data : Return(w, code, data)
  BY <1>2 DEF Answer, Unknown
<1>. QED BY <1>1, <1>2, <1>3, InOperation, ReturnKeeps

LEMMA ExistsKeeps ==
    ASSUME MasterInv, NEW w \in Workers, Exists(w)
    PROVE  MasterInv'
<1> DEFINE t == title[w]
           b == batch[w]
           n == pos[w]
           k == <<t, b[n].id>>
<1>1. step[w] = "item" /\ step[w] \in Inside /\ op[w] \notin ByKeywords
  BY DEF Exists, AtItem, Inside
<1>2. /\ lockRedis = w /\ t \in Titles /\ n \in 1 .. Len(b) /\ n + 1 \in 1 .. Len(b) + 1
      /\ b[n].id \in Ids /\ store \in [Keys -> Values \cup {Absent}]
      /\ atNew \subseteq {j \in Keys : store[j] # Absent}
      /\ listed[w] \subseteq Keys \cup (Keys \X Values) /\ found[w] \subseteq Keys
      /\ k = Key(w) /\ op[w] \in {"CREATE", "LIST_KEYS", "DELETE_KEYS"}
      /\ Placed(op[w], t, b, "item", n, found[w])
      /\ OnlyThrows => Progress(op[w], t, b, "item", n, listed[w], found[w], store, atNew)
  <2>1. n \in 1 .. Len(b) /\ b[n].id # NoId
    BY <1>1, InOperation DEF Exists, More
  <2>2. b[n].id \in Ids
    BY <2>1, BatchFacts DEF MasterItems
  <2>. QED BY <1>1, <2>1, <2>2, InOperation DEF Key, Placed, Operations, ByKeywords
<1>3. /\ Locals(w, listed[w], found[w]) /\ atNew' = atNew
      /\ \/ store' = store /\ \E there \in ExistsReplies(k) : AfterExists(w, there)
         \/ ReadFails(w, UnknownError(w))
  BY <1>2 DEF Exists, SameLocals, nodeVars
<1>4. CASE ReadFails(w, UnknownError(w))
  BY <1>1, <1>2, <1>3, <1>4, ReadFailsKeeps
<1>5. ASSUME store' = store, NEW there \in ExistsReplies(k), AfterExists(w, there)
      PROVE  MasterInv'
  <2>0. OnlyThrows => there = (store[k] # Absent)
    BY <1>5 DEF ExistsReplies, OnlyThrows
  <2>1. CASE Continue(w, "hget", n) /\ op[w] = "LIST_KEYS"
    <3>1. Placed(op[w], t, b, "hget", n, found[w])
      BY <1>2, <2>1 DEF Placed
    <3>2. OnlyThrows => Progress(op[w], t, b, "hget", n, listed[w], found[w], store, atNew)
      BY <1>2, <2>1 DEF Progress
    <3>. QED BY <1>2, <1>3, <1>5, <2>1, <3>1, <3>2, ContinueKeeps DEF Inside
  <2>2. CASE Continue(w, "del", n) /\ op[w] # "LIST_KEYS"
    <3>1. Placed(op[w], t, b, "del", n, found[w])
      BY <1>2, <2>2 DEF Placed
    <3>2. OnlyThrows => Progress(op[w], t, b, "del", n, listed[w], found[w], store, atNew)
      BY <1>2, <2>2 DEF Progress
    <3>. QED BY <1>2, <1>3, <1>5, <2>2, <3>1, <3>2, ContinueKeeps DEF Inside
  <2>3. CASE Continue(w, "hset", n) /\ op[w] = "CREATE"
    <3>1. Placed(op[w], t, b, "hset", n, found[w])
      BY <1>2, <2>3 DEF Placed
    <3>2. OnlyThrows => Progress(op[w], t, b, "hset", n, listed[w], found[w], store, atNew)
      BY <1>2, <2>3 DEF Progress
    <3>. QED BY <1>2, <1>3, <1>5, <2>3, <3>1, <3>2, ContinueKeeps DEF Inside
  <2>4. CASE Continue(w, "item", n + 1) /\ op[w] # "CREATE" /\ ~there
    <3>1. Placed(op[w], t, b, "item", n + 1, found[w])
      BY <1>2, <2>4 DEF Placed
    <3>2. ASSUME OnlyThrows
          PROVE  Progress(op[w], t, b, "item", n + 1, listed[w], found[w], store, atNew)
      <4>0. store[k] = Absent
        BY <2>0, <2>4, <3>2
      <4>1. store[k] = Absent /\ n \in Nat /\ (n + 1) - 1 = n
        BY <1>2, <4>0
      <4>2. 1 .. n = (1 .. n - 1) \cup {n}
        BY <1>2
      <4>3. CASE op[w] = "LIST_KEYS"
        <5>1. Records(store, k) = {}
          BY <4>1 DEF Records
        <5>2. listed[w] = UNION {Records(store, <<t, b[i].id>>) : i \in 1 .. n - 1}
          BY <1>2, <3>2, <4>3 DEF Progress
        <5>3. listed[w] = UNION {Records(store, <<t, b[i].id>>) : i \in 1 .. n}
          BY <4>2, <5>1, <5>2
        <5>. QED BY <4>1, <4>3, <5>3 DEF Progress
      <4>4. CASE op[w] = "DELETE_KEYS"
        BY <1>2, <3>2, <4>1, <4>2, <4>4 DEF Progress
      <4>. QED BY <1>2, <2>4, <4>3, <4>4
    <3>. QED BY <1>2, <1>3, <1>5, <2>4, <3>1, <3>2, ContinueKeeps DEF Inside
  <2>. QED BY <1>2, <1>5, <2>1, <2>2, <2>3, <2>4 DEF AfterExists, NextItem, ExistsReplies
<1>. QED BY <1>3, <1>4, <1>5

\* What a step on an item starts from.
LEMMA AtAnItem ==
    ASSUME MasterInv, NEW w \in Workers, step[w] \in {"del", "hset", "hget"}
    PROVE  /\ step[w] \in Inside /\ lockRedis = w /\ title[w] \in Titles
           /\ pos[w] \in Nat /\ pos[w] \in 1 .. Len(batch[w])
           /\ pos[w] + 1 \in 1 .. Len(batch[w]) + 1 /\ (pos[w] + 1) - 1 = pos[w]
           /\ 1 .. pos[w] = (1 .. pos[w] - 1) \cup {pos[w]}
           /\ batch[w][pos[w]].id \in Ids /\ batch[w][pos[w]].value \in Values
           /\ \A i \in 1 .. pos[w] - 1 : batch[w][i].id \in Ids
           /\ Item(w) = batch[w][pos[w]] /\ Key(w) = <<title[w], batch[w][pos[w]].id>>
           /\ Key(w) \in Keys /\ store \in [Keys -> Values \cup {Absent}]
           /\ atNew \subseteq {j \in Keys : store[j] # Absent}
           /\ listed[w] \subseteq Keys \cup (Keys \X Values) /\ found[w] \subseteq Keys
           /\ Placed(op[w], title[w], batch[w], step[w], pos[w], found[w])
           /\ OnlyThrows => Progress(op[w], title[w], batch[w], step[w], pos[w],
                                     listed[w], found[w], store, atNew)
<1>1. step[w] \in Inside
  BY DEF Inside
<1>2. /\ Len(batch[w]) \in Nat /\ pos[w] \in 1 .. Len(batch[w])
      /\ batch[w][pos[w]].id \in Ids /\ \A i \in 1 .. pos[w] - 1 : batch[w][i].id \in Ids
  BY <1>1, InOperation DEF Placed
<1>3. batch[w][pos[w]].value \in Values
  BY <1>2, BatchFacts DEF MasterItems
<1>4. Key(w) = <<title[w], batch[w][pos[w]].id>> /\ Item(w) = batch[w][pos[w]]
  BY DEF Key, Item
<1>5. Key(w) \in Keys
  BY <1>1, <1>2, <1>4, InOperation, KeyFacts
<1>6. /\ pos[w] + 1 \in 1 .. Len(batch[w]) + 1 /\ (pos[w] + 1) - 1 = pos[w] /\ pos[w] \in Nat
      /\ 1 .. pos[w] = (1 .. pos[w] - 1) \cup {pos[w]}
  BY <1>2
<1>. QED BY <1>1, <1>2, <1>3, <1>4, <1>5, <1>6, InOperation

LEMMA HGetKeeps ==
    ASSUME MasterInv, NEW w \in Workers, HGet(w)
    PROVE  MasterInv'
<1> DEFINE t == title[w]
           b == batch[w]
           n == pos[w]
<1>1. step[w] = "hget" /\ op[w] = "LIST_KEYS"
  BY InOperation DEF HGet, Placed, Inside
<1>2. PICK r \in Replies(Key(w)) :
        /\ Read(w, r, NextItem(w)) \/ ReadFails(w, UnknownError(w))
        /\ Locals(w, listed[w] \cup r, {})
  BY DEF HGet
<1>3. atNew' = atNew
  BY DEF HGet, nodeVars
<1>4. r \subseteq Keys \X Values /\ (OnlyThrows => r = Records(store, Key(w)))
  BY <1>1, AtAnItem, RecordIs
<1>5. CASE ReadFails(w, UnknownError(w))
  BY <1>1, <1>2, <1>3, <1>4, <1>5, AtAnItem, ReadFailsKeeps
<1>6. CASE (\E code, data : Return(w, code, data)) /\ store' = store
  BY <1>1, <1>2, <1>3, <1>6, AtAnItem, ReturnKeeps
<1>7. CASE Continue(w, "item", n + 1) /\ store' = store
  <2>1. Placed(op[w], t, b, "item", n + 1, {})
    BY <1>1, AtAnItem DEF Placed
  <2>2. ASSUME OnlyThrows
        PROVE  Progress(op[w], t, b, "item", n + 1, listed[w] \cup r, {}, store, atNew)
    <3>1. listed[w] = UNION {Records(store, <<t, b[i].id>>) : i \in 1 .. n - 1}
      BY <1>1, <2>2, AtAnItem DEF Progress
    <3>2. r = Records(store, <<t, b[n].id>>)
      BY <1>1, <1>4, <2>2, AtAnItem
    <3>3. listed[w] \cup r = UNION {Records(store, <<t, b[i].id>>) : i \in 1 .. n}
      <4>1. 1 .. n = (1 .. n - 1) \cup {n}
        BY <1>1, AtAnItem
      <4>. QED BY <3>1, <3>2, <4>1
    <3>4. (n + 1) - 1 = n
      BY <1>1, AtAnItem
    <3>. QED BY <1>1, <3>3, <3>4 DEF Progress
  <2>3. "item" \in Inside
    BY DEF Inside
  <2>. QED BY <1>1, <1>2, <1>3, <1>4, <1>7, <2>1, <2>2, <2>3, AtAnItem, ContinueKeeps
<1>8. Read(w, r, NextItem(w)) =>
        store' = store /\ ((\E code, data : Return(w, code, data)) \/ Continue(w, "item", n + 1))
  BY DEF Read, NilReply, Unknown, NextItem
<1>. QED BY <1>2, <1>5, <1>6, <1>7, <1>8

LEMMA DelKeeps ==
    ASSUME MasterInv, NEW w \in Workers, Del(w)
    PROVE  MasterInv'
<1> DEFINE t == title[w]
           b == batch[w]
           n == pos[w]
           l == IF op[w] = "CREATE" THEN {} ELSE listed[w] \cup {Key(w)}
<1>1. step[w] = "del" /\ op[w] \in {"CREATE", "DELETE_KEYS"}
  BY InOperation DEF Del, Placed, Inside
<1>2. Place /\ Locals(w, l, {})
  BY DEF Del
<1>3. l \subseteq Keys \cup (Keys \X Values)
  BY <1>1, AtAnItem
<1>4. \/ store' = [store EXCEPT ![Key(w)] = Absent]
      \/ store' = store
  BY DEF Del, Write
<1>5. /\ store' \in [Keys -> Values \cup {Absent}]
      /\ atNew' \subseteq {j \in Keys : store'[j] # Absent}
  BY <1>1, <1>2, <1>4, AtAnItem, PlaceFacts
<1>6. CASE \E code, data : Return(w, code, data)
  BY <1>1, <1>2, <1>5, <1>6, AtAnItem, ReturnKeeps
<1>7. CASE /\ op[w] = "CREATE" /\ Continue(w, "hset", n)
           /\ OnlyThrows => store' = [store EXCEPT ![Key(w)] = Absent]
  <2>1. Placed(op[w], t, b, "hset", n, {})
    BY <1>1, <1>7, AtAnItem DEF Placed
  <2>2. ASSUME OnlyThrows
        PROVE  Progress(op[w], t, b, "hset", n, l, {}, store', atNew')
    <3>1. SUFFICES ASSUME NEW i \in 1 .. n - 1, \A j \in i + 1 .. n - 1 : b[j].id # b[i].id,
                          b[i].id # b[n].id
                   PROVE  store'[<<t, b[i].id>>] = b[i].value
      BY <1>7 DEF Progress
    <3>2. store[<<t, b[i].id>>] = b[i].value
      BY <1>1, <1>7, <2>2, <3>1, AtAnItem DEF Progress
    <3>3. <<t, b[i].id>> \in Keys /\ <<t, b[i].id>> # Key(w)
      <4>1. t \in Titles /\ b[i].id \in Ids /\ Key(w) = <<t, b[n].id>>
        BY <1>1, AtAnItem
      <4>. QED BY <3>1, <4>1, KeyFacts
    <3>. QED BY <1>1, <1>7, <2>2, <3>2, <3>3, AtAnItem
  <2>3. "hset" \in Inside
    BY DEF Inside
  <2>4. lockRedis = w /\ n \in 1 .. Len(b) + 1
    BY <1>1, AtAnItem, BatchFacts
  <2>. HIDE DEF l
  <2>. QED BY <1>2, <1>3, <1>5, <1>7, <2>1, <2>2, <2>3, <2>4, ContinueKeeps
<1>8. CASE /\ op[w] = "DELETE_KEYS" /\ Continue(w, "item", n + 1)
           /\ OnlyThrows => store' = [store EXCEPT ![Key(w)] = Absent]
  <2>1. Placed(op[w], t, b, "item", n + 1, {})
    BY <1>1, <1>8, AtAnItem DEF Placed
  <2>2. ASSUME OnlyThrows
        PROVE  Progress(op[w], t, b, "item", n + 1, l, {}, store', atNew')
    <3>1. /\ listed[w] \subseteq {<<t, b[i].id>> : i \in 1 .. n - 1}
          /\ \A i \in 1 .. n - 1 : store[<<t, b[i].id>>] = Absent
      BY <1>1, <1>8, <2>2, AtAnItem DEF Progress
    <3>2. l \subseteq {<<t, b[i].id>> : i \in 1 .. n}
      BY <1>1, <1>8, <3>1, AtAnItem
    <3>3. \A i \in 1 .. n : <<t, b[i].id>> \in Keys
      BY <1>1, AtAnItem, KeyFacts
    <3>4. \A i \in 1 .. n : store'[<<t, b[i].id>>] = Absent
      <4>. SUFFICES ASSUME NEW i \in 1 .. n PROVE store'[<<t, b[i].id>>] = Absent
        OBVIOUS
      <4>1. store' = [store EXCEPT ![Key(w)] = Absent] /\ store \in [Keys -> Values \cup {Absent}]
        BY <1>1, <1>8, <2>2, AtAnItem
      <4>2. CASE i \in 1 .. n - 1
        BY <3>1, <3>3, <4>1, <4>2
      <4>3. CASE i = n
        <5>1. Key(w) = <<t, b[i].id>>
          BY <1>1, <4>3, AtAnItem
        <5>. QED BY <3>3, <4>1, <5>1
      <4>. QED BY <1>1, <4>2, <4>3, AtAnItem
    <3>5. (n + 1) - 1 = n
      BY <1>1, AtAnItem
    <3>. QED BY <1>8, <3>2, <3>4, <3>5 DEF Progress
  <2>3. "item" \in Inside
    BY DEF Inside
  <2>4. lockRedis = w /\ n + 1 \in 1 .. Len(b) + 1
    BY <1>1, AtAnItem
  <2>. HIDE DEF l
  <2>. QED BY <1>2, <1>3, <1>5, <1>8, <2>1, <2>2, <2>3, <2>4, ContinueKeeps
<1>9. \/ \E code, data : Return(w, code, data)
      \/ /\ IF op[w] = "CREATE" THEN Continue(w, "hset", n) ELSE Continue(w, "item", n + 1)
         /\ OnlyThrows => store' = [store EXCEPT ![Key(w)] = Absent]
  BY DEF Del, Write, OnlyThrows, NextItem
<1>. QED BY <1>1, <1>6, <1>7, <1>8, <1>9

LEMMA HSetKeeps ==
    ASSUME MasterInv, NEW w \in Workers, HSet(w)
    PROVE  MasterInv'
<1> DEFINE t == title[w]
           b == batch[w]
           n == pos[w]
<1>1. step[w] = "hset" /\ op[w] = "CREATE"
  BY InOperation DEF HSet, Placed, Inside
<1>2. Place /\ Locals(w, listed[w], found[w])
  BY DEF HSet, SameLocals
<1>4. \/ store' = [store EXCEPT ![Key(w)] = b[n].value]
      \/ store' = store
  BY DEF HSet, Write, Item
<1>5. /\ store' \in [Keys -> Values \cup {Absent}]
      /\ atNew' \subseteq {j \in Keys : store'[j] # Absent}
  BY <1>1, <1>2, <1>4, AtAnItem, PlaceFacts
<1>6. CASE \E code, data : Return(w, code, data)
  BY <1>1, <1>2, <1>5, <1>6, AtAnItem, ReturnKeeps
<1>7. CASE /\ Continue(w, "item", n + 1)
           /\ OnlyThrows => store' = [store EXCEPT ![Key(w)] = b[n].value]
  <2>1. Placed(op[w], t, b, "item", n + 1, found[w])
    BY <1>1, AtAnItem DEF Placed
  <2>2. ASSUME OnlyThrows
        PROVE  Progress(op[w], t, b, "item", n + 1, listed[w], found[w], store', atNew')
    <3>0. (n + 1) - 1 = n /\ n \in Nat
      BY <1>1, AtAnItem
    <3>1. SUFFICES ASSUME NEW i \in 1 .. n, \A j \in i + 1 .. n : b[j].id # b[i].id
                   PROVE  store'[<<t, b[i].id>>] = b[i].value
      BY <1>1, <3>0 DEF Progress
    <3>2. CASE i = n
      BY <1>1, <1>7, <2>2, <3>2, AtAnItem
    <3>3. CASE i # n
      <4>1. i \in 1 .. n - 1 /\ n \in i + 1 .. n /\ \A j \in i + 1 .. n - 1 : b[j].id # b[i].id
        BY <3>0, <3>1, <3>3
      <4>2. store[<<t, b[i].id>>] = b[i].value
        BY <1>1, <2>2, <3>1, <4>1, AtAnItem DEF Progress
      <4>3. <<t, b[i].id>> \in Keys /\ <<t, b[i].id>> # Key(w)
        <5>1. t \in Titles /\ b[i].id \in Ids /\ Key(w) = <<t, b[n].id>>
          BY <1>1, <4>1, AtAnItem
        <5>2. b[i].id # b[n].id
          BY <3>1, <4>1
        <5>. QED BY <5>1, <5>2, KeyFacts
      <4>. QED BY <1>1, <1>7, <2>2, <4>2, <4>3, AtAnItem
    <3>. QED BY <3>2, <3>3
  <2>3. "item" \in Inside
    BY DEF Inside
  <2>. QED BY <1>1, <1>2, <1>5, <1>7, <2>1, <2>2, <2>3, AtAnItem, ContinueKeeps
<1>9. \/ \E code, data : Return(w, code, data)
      \/ /\ Continue(w, "item", n + 1)
         /\ OnlyThrows => store' = [store EXCEPT ![Key(w)] = b[n].value]
  BY DEF HSet, Write, OnlyThrows, NextItem, Item
<1>. QED BY <1>6, <1>7, <1>9

\* What a step on the keys found starts from.
LEMMA AtAKey ==
    ASSUME MasterInv, NEW w \in Workers, step[w] \in Inside,
           step[w] \in {"keys", "each"} \/ op[w] \in ByKeywords
    PROVE  /\ lockRedis = w /\ op[w] \in ByKeywords
           /\ pos[w] \in 1 .. Len(batch[w]) + 1
           /\ store \in [Keys -> Values \cup {Absent}]
           /\ atNew \subseteq {j \in Keys : store[j] # Absent}
           /\ listed[w] \subseteq Keys \cup (Keys \X Values)
           /\ \A k \in found[w] : k \in Keys /\ k[1] = title[w]
           /\ Placed(op[w], title[w], batch[w], step[w], pos[w], found[w])
           /\ OnlyThrows => Progress(op[w], title[w], batch[w], step[w], pos[w],
                                     listed[w], found[w], store, atNew)
BY InOperation DEF Placed

LEMMA ExistsPatternKeeps ==
    ASSUME MasterInv, NEW w \in Workers, ExistsPattern(w)
    PROVE  MasterInv'
<1>1. step[w] = "item" /\ step[w] \in Inside /\ op[w] \in ByKeywords
  BY DEF ExistsPattern, Inside
<1>2. Locals(w, listed[w], found[w]) /\ atNew' = atNew
  BY DEF ExistsPattern, SameLocals, nodeVars
<1>3. CASE ReadFails(w, UnknownError(w))
  BY <1>1, <1>2, <1>3, AtAKey, ReadFailsKeeps
<1>4. CASE Continue(w, "keys", pos[w]) /\ store' = store
  <2>1. Placed(op[w], title[w], batch[w], "keys", pos[w], found[w])
    BY <1>1, AtAKey DEF Placed
  <2>2. OnlyThrows => Progress(op[w], title[w], batch[w], "keys", pos[w],
                               listed[w], found[w], store, atNew)
    BY <1>1, AtAKey DEF Progress
  <2>3. "keys" \in Inside /\ found[w] \subseteq Keys
    BY <1>1, AtAKey DEF Inside
  <2>. QED BY <1>1, <1>2, <1>4, <2>1, <2>2, <2>3, AtAKey, ContinueKeeps
<1>. QED BY <1>3, <1>4 DEF ExistsPattern

LEMMA FindKeysKeeps ==
    ASSUME MasterInv, NEW w \in Workers, FindKeys(w)
    PROVE  MasterInv'
<1>1. step[w] = "keys" /\ step[w] \in Inside /\ atNew' = atNew
  BY DEF FindKeys, Inside, nodeVars
<1>2. CASE ReadFails(w, UnknownError(w)) /\ SameLocals(w)
  BY <1>1, <1>2, AtAKey, ReadFailsKeeps DEF SameLocals
<1>3. ASSUME Continue(w, "each", pos[w]), store' = store, NEW f \in SUBSET Keys, Locals(w, {}, f),
             \A k \in f : k[1] = title[w],
             OnlyThrows => f = KeysAtOldNode(title[w])
      PROVE  MasterInv'
  <2>1. Placed(op[w], title[w], batch[w], "each", pos[w], f)
    BY <1>1, <1>3, AtAKey DEF Placed
  <2>2. OnlyThrows => Progress(op[w], title[w], batch[w], "each", pos[w], {}, f, store, atNew)
    BY <1>1, <1>3, AtAKey DEF Progress, KeysAtOldNode, ByKeywords
  <2>3. "each" \in Inside
    BY DEF Inside
  <2>. QED BY <1>1, <1>3, <2>1, <2>2, <2>3, AtAKey, ContinueKeeps
<1>4. KeysAtOldNode(title[w]) \in SUBSET Keys /\ \A k \in KeysAtOldNode(title[w]) : k[1] = title[w]
  BY DEF KeysAtOldNode
<1>5. \/ ReadFails(w, UnknownError(w)) /\ SameLocals(w)
      \/ /\ Continue(w, "each", pos[w]) /\ store' = store
         /\ \/ Locals(w, {}, KeysAtOldNode(title[w]))
            \/ ~OnlyThrows /\ Locals(w, {}, {})
  BY DEF FindKeys, OnlyThrows
<1>. QED BY <1>2, <1>3, <1>4, <1>5

LEMMA ListKeyKeeps ==
    ASSUME MasterInv, NEW w \in Workers, ListKey(w)
    PROVE  MasterInv'
<1>1. step[w] = "each" /\ step[w] \in Inside /\ op[w] = "LIST_KEYWORDS" /\ atNew' = atNew
  BY DEF ListKey, Inside, nodeVars
<1>2. PICK k \in found[w] : \E r \in Replies(k) :
        /\ Read(w, r, Continue(w, "each", pos[w])) \/ ReadFails(w, UnknownError(w))
        /\ Locals(w, listed[w] \cup r, found[w] \ {k})
  BY DEF ListKey
<1>3. PICK r \in Replies(k) :
        /\ Read(w, r, Continue(w, "each", pos[w])) \/ ReadFails(w, UnknownError(w))
        /\ Locals(w, listed[w] \cup r, found[w] \ {k})
  BY <1>2
<1>4. k \in Keys /\ k[1] = title[w] /\ r \subseteq Keys \X Values
      /\ (OnlyThrows => r = Records(store, k))
  BY <1>1, AtAKey, RecordIs
<1>5. CASE ReadFails(w, UnknownError(w))
  BY <1>1, <1>3, <1>4, <1>5, AtAKey, ReadFailsKeeps
<1>6. CASE (\E code, data : Return(w, code, data)) /\ store' = store
  BY <1>1, <1>3, <1>6, AtAKey, ReturnKeeps
<1>7. CASE r # {} /\ Continue(w, "each", pos[w]) /\ store' = store
  <2>1. Placed(op[w], title[w], batch[w], "each", pos[w], found[w] \ {k})
    BY <1>1, AtAKey DEF Placed
  <2>2. ASSUME OnlyThrows
        PROVE  Progress(op[w], title[w], batch[w], "each", pos[w],
                        listed[w] \cup r, found[w] \ {k}, store, atNew)
    <3>1. r = {<<k, store[k]>>} /\ store[k] # Absent
      BY <1>4, <1>7, <2>2 DEF Records
    <3>2. /\ listed[w] \subseteq {<<j, store[j]>> : j \in {i \in Keys : i[1] = title[w] /\ store[i] # Absent}}
          /\ \A j \in Keys : (j[1] = title[w] /\ store[j] # Absent /\ j \notin atNew) =>
                               j \in found[w] \/ <<j, store[j]>> \in listed[w]
      BY <1>1, <2>2, AtAKey DEF Progress
    <3>3. listed[w] \cup r \subseteq {<<j, store[j]>> : j \in {i \in Keys : i[1] = title[w] /\ store[i] # Absent}}
      BY <1>4, <3>1, <3>2
    <3>4. \A j \in Keys : (j[1] = title[w] /\ store[j] # Absent /\ j \notin atNew) =>
                            j \in found[w] \ {k} \/ <<j, store[j]>> \in listed[w] \cup r
      BY <3>1, <3>2
    <3>. QED BY <1>1, <3>3, <3>4 DEF Progress
  <2>3. "each" \in Inside /\ found[w] \ {k} \subseteq Keys
        /\ listed[w] \cup r \subseteq Keys \cup (Keys \X Values)
    BY <1>1, <1>4, AtAKey DEF Inside
  <2>. QED BY <1>1, <1>3, <1>7, <2>1, <2>2, <2>3, AtAKey, ContinueKeeps
<1>8. Read(w, r, Continue(w, "each", pos[w])) =>
        /\ store' = store
        /\ \/ \E code, data : Return(w, code, data)
           \/ r # {} /\ Continue(w, "each", pos[w])
  BY <1>1 DEF Read, NilReply, Unknown, ByKeywords
<1>. QED BY <1>3, <1>5, <1>6, <1>7, <1>8

LEMMA DeleteKeyKeeps ==
    ASSUME MasterInv, NEW w \in Workers, DeleteKey(w)
    PROVE  MasterInv'
<1>1. step[w] = "each" /\ step[w] \in Inside /\ op[w] = "DELETE_KEYWORDS"
  BY DEF DeleteKey, Inside
<1>2. PICK k \in found[w] :
        /\ Write(w, k, Absent, Continue(w, "each", pos[w]), UnknownError(w))
        /\ Locals(w, listed[w] \cup {k}, found[w] \ {k})
  BY DEF DeleteKey
<1>3. Place
  BY DEF DeleteKey
<1>4. k \in Keys /\ k[1] = title[w]
  BY <1>1, AtAKey
<1>5. /\ store' \in [Keys -> Values \cup {Absent}]
      /\ atNew' \subseteq {j \in Keys : store'[j] # Absent}
      /\ \A j \in atNew : store'[j] # Absent => j \in atNew'
  <2>1. store' = [store EXCEPT ![k] = Absent] \/ store' = store
    BY <1>2 DEF Write
  <2>. QED BY <1>1, <1>3, <2>1, AtAKey, PlaceFacts
<1>6. CASE \E code, data : Return(w, code, data)
  BY <1>1, <1>2, <1>5, <1>6, AtAKey, ReturnKeeps
<1>7. CASE /\ Continue(w, "each", pos[w])
           /\ OnlyThrows => store' = [store EXCEPT ![k] = Absent]
  <2>1. Placed(op[w], title[w], batch[w], "each", pos[w], found[w] \ {k})
    BY <1>1, AtAKey DEF Placed
  <2>2. ASSUME OnlyThrows
        PROVE  Progress(op[w], title[w], batch[w], "each", pos[w],
                        listed[w] \cup {k}, found[w] \ {k}, store', atNew')
    <3>1. \A j \in Keys : (j[1] = title[w] /\ store[j] # Absent) => j \in found[w] \cup atNew
      BY <1>1, <2>2, AtAKey DEF Progress
    <3>2. store' = [store EXCEPT ![k] = Absent] /\ store \in [Keys -> Values \cup {Absent}]
      BY <1>1, <1>7, <2>2, AtAKey
    <3>3. \A j \in Keys : (j[1] = title[w] /\ store'[j] # Absent) => j \in (found[w] \ {k}) \cup atNew'
      BY <1>5, <3>1, <3>2
    <3>. QED BY <1>1, <3>3 DEF Progress
  <2>3. "each" \in Inside /\ found[w] \ {k} \subseteq Keys
        /\ listed[w] \cup {k} \subseteq Keys \cup (Keys \X Values)
    BY <1>1, <1>4, AtAKey DEF Inside
  <2>. QED BY <1>1, <1>2, <1>5, <1>7, <2>1, <2>2, <2>3, AtAKey, ContinueKeeps
<1>8. \/ \E code, data : Return(w, code, data)
      \/ /\ Continue(w, "each", pos[w])
         /\ OnlyThrows => store' = [store EXCEPT ![k] = Absent]
  BY <1>2 DEF Write, OnlyThrows
<1>. QED BY <1>6, <1>7, <1>8

\* The operator changes where records are, and only in one direction.
LEMMA OperatorKeeps ==
    ASSUME MasterInv, UNCHANGED <<cacheVars, localVars>>,
           atNew \subseteq atNew', atNew' \subseteq {k \in Keys : store[k] # Absent}
    PROVE  MasterInv'
<1>1. UNCHANGED <<store, lockRedis, step, op, batch, pos, answer, asked, crashed, faults,
                  title, listed, found>>
  BY DEF cacheVars, localVars
<1>2. MasterTypeOK'
  BY <1>1 DEF MasterInv, MasterTypeOK, More
<1>3. FunctionsInv' /\ OwnerInv' /\ PlaceInv'
  BY <1>1 DEF MasterInv, FunctionsInv, OwnerInv, PlaceInv
<1>4. ProgressInv'
  <2>. SUFFICES ASSUME OnlyThrows, NEW w \in Workers, step[w] \in Inside
                PROVE  Progress(op[w], title[w], batch[w], step[w], pos[w],
                                listed[w], found[w], store, atNew')
    BY <1>1 DEF ProgressInv, OnlyThrows
  <2>1. Progress(op[w], title[w], batch[w], step[w], pos[w], listed[w], found[w], store, atNew)
    BY DEF MasterInv, ProgressInv
  <2>. QED BY <2>1 DEF Progress
<1>. QED BY <1>2, <1>3, <1>4 DEF MasterInv

-----------------------------------------------------------------------------
(* The specification                                                       *)

LEMMA MasterInvStep == MasterInv /\ [MasterNext]_masterVars => MasterInv'
<1>. SUFFICES ASSUME MasterInv, [MasterNext]_masterVars PROVE MasterInv'
  OBVIOUS
<1>1. CASE UNCHANGED masterVars
  BY <1>1, OperatorKeeps DEF masterVars, nodeVars, MasterInv, MasterTypeOK
<1>2. CASE StartMoving
  BY <1>2, OperatorKeeps DEF StartMoving, MasterInv, MasterTypeOK
<1>3. CASE \E k \in Keys : MoveKey(k)
  BY <1>3, OperatorKeeps DEF MoveKey, MasterInv, MasterTypeOK
<1>4. CASE \E w \in Workers :
             \/ ReceiveMaster(w) \/ LockMaster(w) \/ NoMoreItems(w) \/ BadItem(w) \/ Exists(w)
             \/ Del(w) \/ HSet(w) \/ HGet(w) \/ ExistsPattern(w) \/ FindKeys(w)
             \/ NoMoreKeys(w) \/ ListKey(w) \/ DeleteKey(w)
  BY <1>4, ReceiveKeeps, LockKeeps, EndKeeps, ExistsKeeps, DelKeeps, HSetKeeps, HGetKeeps,
     ExistsPatternKeeps, FindKeysKeeps, ListKeyKeeps, DeleteKeyKeeps
<1>. QED BY <1>1, <1>2, <1>3, <1>4 DEF MasterNext

LEMMA InitMasterInv == MasterInit => MasterInv
<1>. SUFFICES ASSUME MasterInit PROVE MasterInv
  OBVIOUS
<1>1. /\ store = [k \in Keys |-> Absent] /\ lockRedis = NoWorker /\ asked = 0
      /\ step = [w \in Workers |-> "idle"] /\ op = [w \in Workers |-> "none"]
      /\ batch = [w \in Workers |-> <<>>] /\ pos = [w \in Workers |-> 1]
      /\ answer = [w \in Workers |-> NoAnswer] /\ crashed = FALSE
      /\ title = [w \in Workers |-> AreaTitle] /\ listed = [w \in Workers |-> {}]
      /\ found = [w \in Workers |-> {}] /\ atNew = {}
  BY DEF MasterInit, CacheInit
<1>2. MasterTypeOK
  <2>1. \A w \in Workers : pos[w] = 1 /\ Len(batch[w]) = 0 /\ step[w] = "idle" /\ listed[w] = {}
    BY <1>1
  <2>2. ASSUME NEW w \in Workers PROVE pos[w] \in 1 .. Len(batch[w]) + 1
    <3>1. pos[w] = 1 /\ Len(batch[w]) = 0
      BY <2>1
    <3>. QED BY <3>1
  <2>3. /\ op \in [Workers -> Operations \cup {"none"}] /\ title \in [Workers -> Titles]
        /\ step \in [Workers -> {"idle", "waiting", "item", "del", "hset", "hget", "keys", "each"}]
        /\ store \in [Keys -> Values \cup {Absent}] /\ found \in [Workers -> SUBSET Keys]
    BY <1>1, MasterAssumption
  <2>. QED BY <1>1, <2>1, <2>2, <2>3 DEF MasterTypeOK
<1>3. FunctionsInv /\ OwnerInv /\ PlaceInv /\ ProgressInv
  BY <1>1, CacheAssumption DEF FunctionsInv, OwnerInv, PlaceInv, ProgressInv, Inside
<1>. QED BY <1>2, <1>3 DEF MasterInv

\* The invariant: whoever is in an operation owns lockRedis, and what its
\* items have left so far is in the cache and in the lists of the function.
THEOREM MasterInvariant == MasterSpec => []MasterInv
<1>. QED BY InitMasterInv, MasterInvStep, PTL DEF MasterSpec

\* The operations keep their types; an item is looked at only if there is
\* one, and the new node holds only records that exist.
THEOREM MasterTypeCorrect == MasterSpec => []MasterTypeOK
<1>1. MasterInv => MasterTypeOK
  BY DEF MasterInv
<1>. QED BY <1>1, MasterInvariant, PTL

-----------------------------------------------------------------------------
(* What the answers say                                                    *)

\* Only the end of an operation answers 200.
LEMMA SuccessIs ==
    ASSUME MasterInv, MasterNext, OnlyThrows, NEW w \in Workers, Succeeds(w)
    PROVE  /\ step[w] \in Inside /\ store' = store /\ atNew' = atNew
           /\ op[w] # "CREATE" => answer'[w].data = listed[w]
           /\ op[w] \in Deletes => listed[w] # {}
           /\ op[w] \in ByKeywords => step[w] = "each" /\ found[w] = {}
           /\ op[w] \notin ByKeywords => pos[w] - 1 = Len(batch[w]) /\ step[w] = "item"
<1>0. DOMAIN answer = Workers
  BY DEF MasterInv, FunctionsInv
<1>1. answer' # answer
  BY DEF Succeeds
<1>2. ~Die /\ ~StartMoving /\ \A k : ~MoveKey(k)
  BY <1>1 DEF Die, StartMoving, MoveKey, cacheVars
<1>3. \A u \in Workers : \A code, data : Return(u, code, data) =>
        u = w /\ code = 200 /\ answer'[w].data = data
  BY <1>0 DEF Return, Succeeds
<1>4. \A u, s, n : ~Continue(u, s, n)
  BY <1>1 DEF Continue
<1>5. ASSUME NEW u \in Workers PROVE ~Unknown(u)
  BY <1>3 DEF Unknown, UnknownError
<1>6. ASSUME NEW u \in Workers PROVE ~ReceiveMaster(u) /\ ~LockMaster(u)
  <2>1. ~LockMaster(u)
    BY <1>1 DEF LockMaster, Lock
  <2>2. ASSUME ReceiveMaster(u) PROVE FALSE
    <3>1. answer' = [answer EXCEPT ![u] = NoAnswer]
      BY <2>2 DEF ReceiveMaster, Receive
    <3>. QED BY <1>0, <3>1 DEF Succeeds, NoAnswer
  <2>. QED BY <2>1, <2>2
<1>7. ASSUME NEW u \in Workers PROVE \A v : ~ReadFails(u, UnknownError(v)) \/ v # u
  BY <1>2, <1>5 DEF ReadFails, Unknown
<1>8. ASSUME NEW u \in Workers
      PROVE  ~BadItem(u) /\ ~ExistsPattern(u) /\ ~FindKeys(u)
  BY <1>4, <1>5, <1>7 DEF BadItem, ExistsPattern, FindKeys
<1>9. ASSUME NEW u \in Workers PROVE ~Exists(u)
  <2>1. ASSUME NEW there \in BOOLEAN PROVE ~AfterExists(u, there)
    BY <1>4 DEF AfterExists, NextItem
  <2>2. ExistsReplies(Key(u)) \subseteq BOOLEAN
    BY DEF ExistsReplies
  <2>. QED BY <1>7, <2>1, <2>2 DEF Exists
<1>10. ASSUME NEW u \in Workers PROVE ~Del(u) /\ ~HSet(u) /\ ~DeleteKey(u)
  <2>1. ASSUME NEW k, NEW v, NEW s, NEW n PROVE ~Write(u, k, v, Continue(u, s, n), UnknownError(u))
    BY <1>4, <1>5 DEF Write, Unknown
  <2>2. ~Del(u)
    BY <1>4, <1>5 DEF Del, Write, Unknown, NextItem
  <2>. QED BY <2>1, <2>2 DEF HSet, DeleteKey, NextItem
<1>11. ASSUME NEW u \in Workers PROVE ~HGet(u) /\ ~ListKey(u)
  <2>1. ~Return(u, JSON_READ_OR_WRITE_ERROR, NoData)
    BY <1>3 DEF JSON_READ_OR_WRITE_ERROR
  <2>2. ~NilReply(u)
    BY <1>4, <1>5 DEF NilReply, NextItem
  <2>3. ASSUME NEW r, NEW s, NEW n PROVE ~Read(u, r, Continue(u, s, n))
    BY <1>4, <2>1, <2>2 DEF Read
  <2>. QED BY <1>7, <2>3 DEF HGet, ListKey, NextItem
<1>12. PICK u \in Workers : NoMoreItems(u) \/ NoMoreKeys(u)
  BY <1>2, <1>6, <1>8, <1>9, <1>10, <1>11 DEF MasterNext
<1>13. Answer(u)
  BY <1>12 DEF NoMoreItems, NoMoreKeys
<1>14. /\ op[u] # "CREATE" => Return(u, 200, listed[u])
       /\ op[u] = "CREATE" => Return(u, 200, NoData)
       /\ op[u] \in Deletes => listed[u] # {}
  BY <1>5, <1>13 DEF Answer, Deletes
<1>15. u = w
  BY <1>3, <1>14
<1>16. op[w] # "CREATE" => answer'[w].data = listed[w]
  BY <1>3, <1>14, <1>15
<1>17. step[w] \in Inside /\ store' = store /\ atNew' = atNew
  BY <1>12, <1>15 DEF NoMoreItems, NoMoreKeys, AtItem, Inside, nodeVars
<1>18. /\ op[w] \in ByKeywords => step[w] = "each" /\ found[w] = {}
       /\ op[w] \notin ByKeywords => pos[w] - 1 = Len(batch[w]) /\ step[w] = "item"
  <2>1. CASE NoMoreItems(w)
    BY <1>17, <2>1, InOperation DEF NoMoreItems, AtItem, More
  <2>2. CASE NoMoreKeys(w)
    BY <1>17, <2>2, InOperation DEF NoMoreKeys, Placed
  <2>. QED BY <1>12, <1>15, <2>1, <2>2
<1>. QED BY <1>14, <1>15, <1>16, <1>17, <1>18

\* The progress of an operation that has come to its end.
LEMMA ProgressAtEnd ==
    ASSUME MasterInv, MasterNext, OnlyThrows, NEW w \in Workers, Succeeds(w)
    PROVE  Progress(op[w], title[w], batch[w], step[w], pos[w], listed[w], found[w], store, atNew)
BY SuccessIs, InOperation

\* A list by keys holds what is stored when it is answered.
THEOREM ListsAreExact == MasterSpec => KeyListExact
<1>1. ASSUME MasterInv, [MasterNext]_masterVars
      PROVE  [\A w \in Workers : (Succeeds(w) /\ OnlyThrows /\ op[w] = "LIST_KEYS") =>
                answer'[w].data = UNION {Record(k) : k \in Asked(w)}]_masterVars
  <2>. SUFFICES ASSUME MasterNext, NEW w \in Workers, Succeeds(w), OnlyThrows, op[w] = "LIST_KEYS"
                PROVE  answer'[w].data = UNION {Record(k) : k \in Asked(w)}
    BY <1>1
  <2>1. answer'[w].data = listed[w] /\ pos[w] - 1 = Len(batch[w])
    BY <1>1, SuccessIs DEF ByKeywords
  <2>2. listed[w] = UNION {Records(store, <<title[w], batch[w][i].id>>) : i \in 1 .. Len(batch[w])}
    BY <1>1, <2>1, ProgressAtEnd DEF Progress
  <2>3. {Records(store, <<title[w], batch[w][i].id>>) : i \in 1 .. Len(batch[w])}
          = {Records(store, k) : k \in Asked(w)}
    BY DEF Asked
  <2>4. {Records(store, k) : k \in Asked(w)} = {Record(k) : k \in Asked(w)}
    BY DEF Record, Records
  <2>. QED BY <2>1, <2>2, <2>3, <2>4
<1>. QED BY <1>1, MasterInvariant, PTL DEF MasterSpec, KeyListExact

\* A batch that is answered 200 is there as a whole.
THEOREM BatchesAreStored == MasterSpec => CreatedIsStored
<1>1. ASSUME MasterInv, [MasterNext]_masterVars
      PROVE  [\A w \in Workers : (Succeeds(w) /\ OnlyThrows /\ op[w] = "CREATE") =>
                \A i \in 1 .. Len(batch[w]) :
                  LET b == batch[w] IN
                  (\A j \in i + 1 .. Len(b) : b[j].id # b[i].id)
                     => store'[<<title[w], b[i].id>>] = b[i].value]_masterVars
  <2>. SUFFICES ASSUME MasterNext, NEW w \in Workers, Succeeds(w), OnlyThrows, op[w] = "CREATE",
                       NEW i \in 1 .. Len(batch[w]),
                       \A j \in i + 1 .. Len(batch[w]) : batch[w][j].id # batch[w][i].id
                PROVE  store'[<<title[w], batch[w][i].id>>] = batch[w][i].value
    BY <1>1
  <2>1. store' = store /\ pos[w] - 1 = Len(batch[w]) /\ step[w] = "item"
    BY <1>1, SuccessIs DEF ByKeywords
  <2>. QED BY <1>1, <2>1, ProgressAtEnd DEF Progress
<1>. QED BY <1>1, MasterInvariant, PTL DEF MasterSpec, CreatedIsStored

\* DELETE_AREAS_BY_KEYS leaves none of the areas it was asked to delete.
THEOREM DeletionsAreComplete == MasterSpec => DeletedIsGone
<1>1. ASSUME MasterInv, [MasterNext]_masterVars
      PROVE  [\A w \in Workers : (Succeeds(w) /\ OnlyThrows /\ op[w] = "DELETE_KEYS") =>
                /\ answer'[w].data # {} /\ answer'[w].data \subseteq Asked(w)
                /\ \A k \in Asked(w) : store'[k] = Absent]_masterVars
  <2>. SUFFICES ASSUME MasterNext, NEW w \in Workers, Succeeds(w), OnlyThrows, op[w] = "DELETE_KEYS"
                PROVE  /\ answer'[w].data # {} /\ answer'[w].data \subseteq Asked(w)
                       /\ \A k \in Asked(w) : store'[k] = Absent
    BY <1>1
  <2>1. /\ answer'[w].data = listed[w] /\ listed[w] # {}
        /\ store' = store /\ pos[w] - 1 = Len(batch[w])
    BY <1>1, SuccessIs DEF ByKeywords, Deletes
  <2>. QED BY <1>1, <2>1, ProgressAtEnd DEF Progress, Asked
<1>. QED BY <1>1, MasterInvariant, PTL DEF MasterSpec, DeletedIsGone

\* The BY_KEYWORDS operations lose nothing but what has moved.
THEOREM KeywordsReach == MasterSpec => KeywordsReachUnmoved
<1>1. ASSUME MasterInv, [MasterNext]_masterVars
      PROVE  [\A w \in Workers : (Succeeds(w) /\ OnlyThrows /\ op[w] \in ByKeywords) =>
                LET all == {k \in Keys : k[1] = title[w] /\ store'[k] # Absent} IN
                IF op[w] = "DELETE_KEYWORDS"
                THEN all \subseteq atNew'
                ELSE /\ {<<k, store'[k]>> : k \in all \ atNew'} \subseteq answer'[w].data
                     /\ answer'[w].data \subseteq {<<k, store'[k]>> : k \in all}
             ]_masterVars
  <2>. SUFFICES ASSUME MasterNext, NEW w \in Workers, Succeeds(w), OnlyThrows, op[w] \in ByKeywords
                PROVE  LET all == {k \in Keys : k[1] = title[w] /\ store'[k] # Absent} IN
                       IF op[w] = "DELETE_KEYWORDS"
                       THEN all \subseteq atNew'
                       ELSE /\ {<<k, store'[k]>> : k \in all \ atNew'} \subseteq answer'[w].data
                            /\ answer'[w].data \subseteq {<<k, store'[k]>> : k \in all}
    BY <1>1
  <2>1. /\ store' = store /\ atNew' = atNew /\ step[w] = "each" /\ found[w] = {}
        /\ op[w] \in {"LIST_KEYWORDS", "DELETE_KEYWORDS"} /\ answer'[w].data = listed[w]
    BY <1>1, SuccessIs DEF ByKeywords
  <2>2. CASE op[w] = "DELETE_KEYWORDS"
    BY <1>1, <2>1, <2>2, ProgressAtEnd DEF Progress
  <2>3. CASE op[w] = "LIST_KEYWORDS"
    BY <1>1, <2>1, <2>3, ProgressAtEnd DEF Progress
  <2>. QED BY <2>1, <2>2, <2>3
<1>. QED BY <1>1, MasterInvariant, PTL DEF MasterSpec, KeywordsReachUnmoved

\* Whatever fails and wherever the slot is: a record changes only under
\* lockRedis, in a request for its own title.
THEOREM TitlesAreSeparate == MasterSpec => OneTitleAtATime
<1>1. ASSUME MasterInv, [MasterNext]_masterVars
      PROVE  [\A k \in Keys : store'[k] # store[k] =>
                \E w \in Workers : /\ lockRedis = w
                                   /\ title[w] = k[1]
                                   /\ op[w] \in {"CREATE"} \cup Deletes]_masterVars
  <2>. SUFFICES ASSUME MasterNext, NEW k \in Keys, store'[k] # store[k]
                PROVE  \E w \in Workers : /\ lockRedis = w
                                          /\ title[w] = k[1]
                                          /\ op[w] \in {"CREATE"} \cup Deletes
    BY <1>1
  <2>1. PICK w \in Workers : Del(w) \/ HSet(w) \/ DeleteKey(w)
    BY DEF MasterNext, ReceiveMaster, Receive, LockMaster, Lock, NoMoreItems, BadItem, Exists,
           HGet, Read, ReadFails, Die, ExistsPattern, FindKeys, NoMoreKeys, ListKey,
           StartMoving, MoveKey, cacheVars
  <2>2. store \in [Keys -> Values \cup {Absent}]
    BY <1>1 DEF MasterInv, MasterTypeOK
  <2>3. CASE Del(w) \/ HSet(w)
    <3>1. step[w] \in {"del", "hset"}
      BY <2>3 DEF Del, HSet
    <3>2. k = Key(w)
      <4>1. \E v : store' = [store EXCEPT ![Key(w)] = v] \/ store' = store
        BY <2>3 DEF Del, HSet, Write
      <4>. QED BY <2>2, <4>1
    <3>3. lockRedis = w /\ k[1] = title[w] /\ op[w] \in {"CREATE", "DELETE_KEYS"}
      BY <1>1, <3>1, <3>2, AtAnItem DEF Placed
    <3>. QED BY <3>3 DEF Deletes
  <2>4. CASE DeleteKey(w)
    <3>1. step[w] = "each" /\ step[w] \in Inside /\ op[w] = "DELETE_KEYWORDS"
      BY <2>4 DEF DeleteKey, Inside
    <3>2. k \in found[w]
      <4>1. \E j \in found[w] : store' = [store EXCEPT ![j] = Absent] \/ store' = store
        BY <2>4 DEF DeleteKey, Write
      <4>. QED BY <2>2, <4>1
    <3>. QED BY <1>1, <3>1, <3>2, AtAKey DEF Deletes
  <2>. QED BY <2>1, <2>3, <2>4
<1>. QED BY <1>1, MasterInvariant, PTL DEF MasterSpec, OneTitleAtATime
=============================================================================
