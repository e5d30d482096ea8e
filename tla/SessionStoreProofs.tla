-------------------------- MODULE SessionStoreProofs --------------------------
(***************************************************************************)
(* For any workers, sessions and requests with lists of any length: a      *)
(* session changes only under lockRedis, and as long as commands are       *)
(* executed or throw, an answer "200" is true, the session that QUERY      *)
(* dereferences is there, and the operations implement SessionMap.         *)
(*                                                                         *)
(* All of it rests on who owns lockRedis (OwnerInv): between the commands  *)
(* of an operation nobody else changes the cache, so what "exists" has     *)
(* said stays true until the write (SeenInv), and what a batch has written *)
(* is there when it is answered (WrittenInv).                              *)
(***************************************************************************)
EXTENDS SessionStore, TLAPS

Inside == {"item", "del", "set", "get"}

\* The types, with the functions that are indexed by the workers.
FunctionsInv ==
    /\ batch \in [Workers -> Batches \cup {<<>>}]
    /\ pos \in [Workers -> Nat \ {0}]
    /\ DOMAIN answer = Workers

\* A worker is in an operation exactly while it owns lockRedis.
OwnerInv == \A w \in Workers : step[w] \in Inside <=> lockRedis = w

\* Where a worker is fits its operation and its item.
PlaceInv ==
    \A w \in Workers :
      /\ step[w] # "idle" => op[w] \in Operations
      /\ step[w] \in {"idle", "waiting"} \/ ~ReadsValueFirst(w) => pos[w] = 1
      /\ \A i \in 1 .. pos[w] - 1 : batch[w][i].id \in Keys
      /\ step[w] \in {"del", "set", "get"} => Item(w).id \in Keys
      /\ step[w] = "del" => op[w] \in {"ADD", "DELETE", "UPDATE"}
      /\ step[w] = "set" => op[w] \in {"CREATE", "ADD", "UPDATE"} /\ Item(w).value # NoChild
      /\ step[w] = "del" /\ op[w] = "ADD" => Item(w).value # NoChild
      /\ step[w] = "get" => op[w] = "QUERY"
      /\ step[w] # "idle" => answer[w] = NoAnswer

\* What the operation has seen of its session is still true.
SeenInv ==
    OnlyThrows => \A w \in Workers :
      /\ step[w] \in {"del", "get"} => store[Item(w).id] # Absent
      /\ step[w] = "set" => /\ store[Item(w).id] = Absent
                            /\ op[w] # "CREATE" => deleted # Absent

\* The item that has been written last for session k, among the first n.
LastOf(b, k, n, j) ==
    /\ j \in 1 .. n /\ b[j].id = k
    /\ \A m \in j + 1 .. n : b[m].id # k

\* A batch has left what it was asked for, but for the item it is at.
WrittenInv ==
    OnlyThrows => \A w \in Workers :
      lockRedis = w /\ ReadsValueFirst(w) =>
        \A i \in 1 .. pos[w] - 1 :
          LET k == batch[w][i].id IN
          \/ step[w] = "set" /\ k = Item(w).id
          \/ \E j \in 1 .. pos[w] - 1 : /\ LastOf(batch[w], k, pos[w] - 1, j)
                                        /\ store[k] = Stored(batch[w][j].value)

SessionInv ==
    /\ SessionTypeOK
    /\ FunctionsInv
    /\ OwnerInv
    /\ PlaceInv
    /\ SeenInv
    /\ WrittenInv

-----------------------------------------------------------------------------
(* Lists of items                                                          *)

LEMMA BatchFacts ==
    ASSUME SessionInv, NEW w \in Workers
    PROVE  /\ batch[w] \in Seq(SessionItems) /\ Len(batch[w]) \in Nat
           /\ \A i \in 1 .. Len(batch[w]) : batch[w][i] \in SessionItems
           /\ pos[w] \in 1 .. Len(batch[w]) + 1 /\ pos[w] \in Nat \ {0}
           /\ More(w) => Item(w) \in SessionItems
<1>1. batch[w] \in Seq(SessionItems)
  <2>1. batch[w] \in Batches \cup {<<>>}
    BY DEF SessionInv, FunctionsInv
  <2>2. <<>> \in Seq(SessionItems)
    OBVIOUS
  <2>. QED BY <2>1, <2>2, SessionAssumption
<1>2. Len(batch[w]) \in Nat /\ \A i \in 1 .. Len(batch[w]) : batch[w][i] \in SessionItems
  BY <1>1
<1>3. pos[w] \in 1 .. Len(batch[w]) + 1 /\ pos[w] \in Nat \ {0}
  BY DEF SessionInv, SessionTypeOK, FunctionsInv
<1>. QED BY <1>1, <1>2, <1>3 DEF More, Item

\* What is written for an item is a value.
LEMMA StoredIsValue ==
    ASSUME NEW i \in SessionItems, i.value # NoChild
    PROVE  Stored(i.value) \in Values
BY SessionAssumption DEF SessionItems, Stored

-----------------------------------------------------------------------------
(* How an operation goes on                                                *)

\* The function returns: nobody owns lockRedis any more.
LEMMA ReturnKeeps ==
    ASSUME SessionInv, NEW w \in Workers, lockRedis = w, NEW code, NEW data,
           Return(w, code, data),
           store' \in [Keys -> Values \cup {Absent}], deleted' \in Values \cup {Absent}
    PROVE  SessionInv'
<1>0. /\ step \in [Workers -> {"idle", "waiting", "item", "del", "set", "get"}]
      /\ batch \in [Workers -> Batches \cup {<<>>}] /\ pos \in [Workers -> Nat \ {0}]
      /\ DOMAIN answer = Workers /\ NoWorker \notin Workers
      /\ \A u \in Workers \ {w} : step[u] \notin Inside
  BY CacheAssumption DEF SessionInv, SessionTypeOK, FunctionsInv, OwnerInv
<1>1. /\ lockRedis' = NoWorker /\ UNCHANGED <<op, asked, crashed, faults>>
      /\ step' = [step EXCEPT ![w] = "idle"] /\ batch' = [batch EXCEPT ![w] = <<>>]
      /\ pos' = [pos EXCEPT ![w] = 1]
      /\ answer' = [answer EXCEPT ![w] = [code |-> code, data |-> data]]
  BY DEF Return, Goto
<1>2. \A u \in Workers : step'[u] \in {"idle", "waiting"}
  BY <1>0, <1>1 DEF Inside
<1>3. \A u \in Workers \ {w} : /\ step'[u] = step[u] /\ batch'[u] = batch[u]
                                /\ pos'[u] = pos[u] /\ answer'[u] = answer[u]
  BY <1>0, <1>1
<1>4. step'[w] = "idle" /\ batch'[w] = <<>> /\ pos'[w] = 1
  BY <1>0, <1>1
<1>5. FunctionsInv'
  BY <1>0, <1>1 DEF FunctionsInv
<1>6. SessionTypeOK'
  <2>1. \A u \in Workers : pos'[u] \in 1 .. Len(batch'[u]) + 1
    BY <1>3, <1>4 DEF SessionInv, SessionTypeOK
  <2>2. step' \in [Workers -> {"idle", "waiting", "item", "del", "set", "get"}]
    BY <1>0, <1>1
  <2>3. \A u \in Workers : batch'[u] \in Batches \cup {<<>>}
    BY <1>0, <1>3, <1>4
  <2>. QED BY <1>1, <1>2, <2>1, <2>2, <2>3 DEF SessionInv, SessionTypeOK
<1>7. OwnerInv'
  BY <1>0, <1>1, <1>2 DEF OwnerInv, Inside
<1>8. PlaceInv'
  BY <1>1, <1>2, <1>3, <1>4 DEF SessionInv, PlaceInv, ReadsValueFirst
<1>9. SeenInv' /\ WrittenInv'
  BY <1>0, <1>1, <1>2 DEF SeenInv, WrittenInv
<1>. QED BY <1>5, <1>6, <1>7, <1>8, <1>9 DEF SessionInv

\* It goes on with item n: what it has seen and written must hold for n.
LEMMA ContinueKeeps ==
    ASSUME SessionInv, NEW w \in Workers, lockRedis = w,
           NEW s \in Inside, NEW n \in 1 .. Len(batch[w]) + 1, Continue(w, s, n),
           store' \in [Keys -> Values \cup {Absent}], deleted' \in Values \cup {Absent},
           ~ReadsValueFirst(w) => n = 1,
           \A i \in 1 .. n - 1 : batch[w][i].id \in Keys,
           s # "item" => n \in 1 .. Len(batch[w]) /\ batch[w][n].id \in Keys,
           s = "del" => op[w] \in {"ADD", "DELETE", "UPDATE"},
           s = "set" => op[w] \in {"CREATE", "ADD", "UPDATE"} /\ batch[w][n].value # NoChild,
           s = "del" /\ op[w] = "ADD" => batch[w][n].value # NoChild,
           s = "get" => op[w] = "QUERY",
           OnlyThrows =>
             /\ s \in {"del", "get"} => store'[batch[w][n].id] # Absent
             /\ s = "set" => /\ store'[batch[w][n].id] = Absent
                             /\ op[w] # "CREATE" => deleted' # Absent
             /\ ReadsValueFirst(w) =>
                  \A i \in 1 .. n - 1 :
                    \/ s = "set" /\ batch[w][i].id = batch[w][n].id
                    \/ \E j \in 1 .. n - 1 :
                         /\ LastOf(batch[w], batch[w][i].id, n - 1, j)
                         /\ store'[batch[w][i].id] = Stored(batch[w][j].value)
    PROVE  SessionInv'
<1>0. /\ step \in [Workers -> {"idle", "waiting", "item", "del", "set", "get"}]
      /\ batch \in [Workers -> Batches \cup {<<>>}] /\ pos \in [Workers -> Nat \ {0}]
      /\ \A u \in Workers \ {w} : step[u] \notin Inside
      /\ step[w] \in Inside /\ op[w] \in Operations
  BY DEF SessionInv, SessionTypeOK, FunctionsInv, OwnerInv, PlaceInv, Inside
<1>1. /\ UNCHANGED <<lockRedis, op, batch, answer, asked, crashed, faults>>
      /\ step' = [step EXCEPT ![w] = s] /\ pos' = [pos EXCEPT ![w] = n]
  BY DEF Continue, Goto
<1>2. \A u \in Workers \ {w} : step'[u] = step[u] /\ pos'[u] = pos[u]
  BY <1>0, <1>1
<1>3. step'[w] = s /\ pos'[w] = n /\ n \in Nat \ {0} /\ Item(w)' = batch[w][n]
  BY <1>0, <1>1, BatchFacts DEF Item
<1>4. FunctionsInv'
  BY <1>0, <1>1, <1>3 DEF SessionInv, FunctionsInv
<1>5. SessionTypeOK'
  <2>1. \A u \in Workers : pos'[u] \in 1 .. Len(batch'[u]) + 1
    BY <1>1, <1>2, <1>3 DEF SessionInv, SessionTypeOK
  <2>2. step' \in [Workers -> {"idle", "waiting", "item", "del", "set", "get"}]
    BY <1>0, <1>1 DEF Inside
  <2>3. \A u \in Workers : step'[u] \in {"del", "set", "get"} => More(u)'
    <3>1. s # "item" => More(w)'
      BY <1>1, <1>3 DEF More
    <3>2. \A u \in Workers \ {w} : step'[u] \notin {"del", "set", "get"}
      BY <1>0, <1>2 DEF Inside
    <3>. QED BY <1>3, <3>1, <3>2
  <2>. QED BY <1>1, <2>1, <2>2, <2>3 DEF SessionInv, SessionTypeOK
<1>6. OwnerInv'
  BY <1>0, <1>1, <1>2, <1>3 DEF SessionInv, OwnerInv
<1>7. PlaceInv'
  <2>1. ASSUME NEW u \in Workers \ {w}
        PROVE  /\ step'[u] # "idle" => op'[u] \in Operations
               /\ step'[u] \in {"idle", "waiting"} \/ ~ReadsValueFirst(u)' => pos'[u] = 1
               /\ \A i \in 1 .. pos'[u] - 1 : batch'[u][i].id \in Keys
               /\ step'[u] \notin {"del", "set", "get"}
               /\ step'[u] # "idle" => answer'[u] = NoAnswer
    BY <1>0, <1>1, <1>2 DEF SessionInv, PlaceInv, ReadsValueFirst, Inside
  <2>2. answer[w] = NoAnswer
    BY <1>0 DEF SessionInv, PlaceInv, Inside
  <2>. QED BY <1>0, <1>1, <1>3, <2>1, <2>2 DEF PlaceInv, ReadsValueFirst, Inside
<1>8. SeenInv'
  <2>1. \A u \in Workers \ {w} : step'[u] \notin {"del", "set", "get"}
    BY <1>0, <1>2 DEF Inside
  <2>. QED BY <1>1, <1>3, <2>1 DEF SeenInv, OnlyThrows
<1>9. WrittenInv'
  BY <1>1, <1>3 DEF WrittenInv, OnlyThrows, ReadsValueFirst, LastOf
<1>. QED BY <1>4, <1>5, <1>6, <1>7, <1>8, <1>9 DEF SessionInv

-----------------------------------------------------------------------------
(* The steps of an operation                                               *)

\* The worker that is in an operation owns lockRedis; its item is a session.
LEMMA InOperation ==
    ASSUME SessionInv, NEW w \in Workers, step[w] \in Inside
    PROVE  /\ lockRedis = w /\ op[w] \in Operations /\ answer[w] = NoAnswer
           /\ store \in [Keys -> Values \cup {Absent}] /\ deleted \in Values \cup {Absent}
           /\ pos[w] \in 1 .. Len(batch[w]) + 1 /\ Len(batch[w]) \in Nat
           /\ ~ReadsValueFirst(w) => pos[w] = 1
           /\ \A i \in 1 .. pos[w] - 1 : batch[w][i].id \in Keys
           /\ step[w] # "item" => /\ pos[w] \in 1 .. Len(batch[w])
                                  /\ Item(w) \in SessionItems /\ Item(w).id \in Keys
           /\ Item(w) = batch[w][pos[w]]
BY BatchFacts DEF SessionInv, SessionTypeOK, OwnerInv, PlaceInv, Inside, More, Item

\* The request arrives.
LEMMA ReceiveKeeps ==
    ASSUME SessionInv, NEW w \in Workers, ReceiveSession(w)
    PROVE  SessionInv'
<1>0. /\ step \in [Workers -> {"idle", "waiting", "item", "del", "set", "get"}]
      /\ batch \in [Workers -> Batches \cup {<<>>}] /\ op \in [Workers -> Operations \cup {"none"}]
      /\ DOMAIN answer = Workers /\ step[w] = "idle" /\ pos[w] = 1
      /\ asked \in 0 .. MaxRequests /\ asked < MaxRequests
  BY DEF SessionInv, SessionTypeOK, FunctionsInv, PlaceInv, ReceiveSession, Receive
<1>1. PICK o \in Operations, b \in Batches : Receive(w, o, b)
  BY DEF ReceiveSession
<1>2. /\ op' = [op EXCEPT ![w] = o] /\ batch' = [batch EXCEPT ![w] = b]
      /\ answer' = [answer EXCEPT ![w] = NoAnswer] /\ asked' = asked + 1
      /\ step' = [step EXCEPT ![w] = "waiting"]
      /\ UNCHANGED <<store, lockRedis, pos, crashed, faults, deleted>>
  BY <1>1 DEF ReceiveSession, Receive, Goto
<1>3. /\ \A u \in Workers \ {w} : /\ step'[u] = step[u] /\ batch'[u] = batch[u]
                                   /\ op'[u] = op[u] /\ answer'[u] = answer[u]
      /\ step'[w] = "waiting" /\ batch'[w] = b /\ op'[w] = o /\ answer'[w] = NoAnswer
  BY <1>0, <1>2
<1>4. FunctionsInv'
  BY <1>0, <1>2 DEF SessionInv, FunctionsInv
<1>5. SessionTypeOK'
  <2>1. b \in Seq(SessionItems) /\ Len(b) \in Nat
    BY SessionAssumption
  <2>2. \A u \in Workers : pos'[u] \in 1 .. Len(batch'[u]) + 1
    BY <1>0, <1>2, <1>3, <2>1 DEF SessionInv, SessionTypeOK
  <2>3. asked' \in 0 .. MaxRequests
    BY <1>0, <1>2, CacheAssumption
  <2>4. /\ step' \in [Workers -> {"idle", "waiting", "item", "del", "set", "get"}]
        /\ op' \in [Workers -> Operations \cup {"none"}]
        /\ \A u \in Workers : batch'[u] \in Batches \cup {<<>>}
    BY <1>0, <1>2, <1>3
  <2>5. \A u \in Workers : step'[u] \in {"del", "set", "get"} => More(u)'
    BY <1>2, <1>3 DEF SessionInv, SessionTypeOK, More
  <2>. QED BY <1>2, <2>2, <2>3, <2>4, <2>5 DEF SessionInv, SessionTypeOK
<1>6. OwnerInv'
  BY <1>0, <1>2, <1>3 DEF SessionInv, OwnerInv, Inside
<1>7. PlaceInv'
  BY <1>0, <1>2, <1>3 DEF SessionInv, PlaceInv, ReadsValueFirst, Item
<1>8. SeenInv'
  BY <1>2, <1>3 DEF SessionInv, SeenInv, OnlyThrows, Item
<1>9. WrittenInv'
  <2>1. lockRedis # w
    BY <1>0 DEF SessionInv, OwnerInv, Inside
  <2>. QED BY <1>2, <1>3, <2>1 DEF SessionInv, WrittenInv, OnlyThrows, ReadsValueFirst, Item
<1>. QED BY <1>4, <1>5, <1>6, <1>7, <1>8, <1>9 DEF SessionInv

\* lockRedis is free: nobody else is in an operation.
LEMMA LockKeeps ==
    ASSUME SessionInv, NEW w \in Workers, LockSession(w)
    PROVE  SessionInv'
<1>0. /\ step \in [Workers -> {"idle", "waiting", "item", "del", "set", "get"}]
      /\ step[w] = "waiting" /\ pos[w] = 1
      /\ \A u \in Workers : step[u] \notin Inside
  BY CacheAssumption
     DEF SessionInv, SessionTypeOK, PlaceInv, OwnerInv, LockSession, Lock
<1>1. /\ lockRedis' = w /\ step' = [step EXCEPT ![w] = "item"]
      /\ UNCHANGED <<store, op, batch, pos, answer, asked, crashed, faults, deleted>>
  BY DEF LockSession, Lock, Goto
<1>2. /\ \A u \in Workers \ {w} : step'[u] = step[u] /\ step'[u] \notin Inside
      /\ step'[w] = "item"
  BY <1>0, <1>1
<1>3. FunctionsInv' /\ OwnerInv'
  BY <1>1, <1>2 DEF SessionInv, FunctionsInv, OwnerInv, Inside
<1>4. SessionTypeOK'
  <2>1. step' \in [Workers -> {"idle", "waiting", "item", "del", "set", "get"}]
    BY <1>0, <1>1
  <2>. QED BY <1>1, <1>2, <2>1 DEF SessionInv, SessionTypeOK, Inside
<1>5. PlaceInv'
  BY <1>0, <1>1, <1>2 DEF SessionInv, PlaceInv, ReadsValueFirst, Item, Inside
<1>6. SeenInv' /\ WrittenInv'
  BY <1>0, <1>1, <1>2 DEF SeenInv, WrittenInv, Inside
<1>. QED BY <1>3, <1>4, <1>5, <1>6 DEF SessionInv

\* The process dies.
LEMMA DieKeeps ==
    ASSUME SessionInv, Die, deleted' = deleted
    PROVE  SessionInv'
BY DEF Die, SessionInv, SessionTypeOK, FunctionsInv, OwnerInv, PlaceInv, SeenInv,
       WrittenInv, OnlyThrows, ReadsValueFirst, Item, More

\* The list ends, or its item cannot be used.
LEMMA LoopEndKeeps ==
    ASSUME SessionInv, NEW w \in Workers, NoMoreItems(w) \/ BadItem(w)
    PROVE  SessionInv'
<1>1. step[w] = "item" /\ deleted' = deleted
  BY DEF NoMoreItems, BadItem
<1>2. /\ lockRedis = w
      /\ store \in [Keys -> Values \cup {Absent}] /\ deleted \in Values \cup {Absent}
  BY <1>1, InOperation DEF Inside
<1>3. CASE Die
  BY <1>1, <1>3, DieKeeps
<1>4. CASE store' = store /\ \E code : Return(w, code, NoData)
  BY <1>1, <1>2, <1>4, ReturnKeeps
<1>. QED BY <1>3, <1>4 DEF NoMoreItems, BadItem, Unknown

\* What "exists" has said leads to the next command, or to an answer.
LEMMA ExistsKeeps ==
    ASSUME SessionInv, NEW w \in Workers, Exists(w)
    PROVE  SessionInv'
<1>0. /\ step[w] = "item" /\ More(w) /\ ~MissingField(w) /\ deleted' = deleted
  BY DEF Exists
<1>1. /\ lockRedis = w /\ op[w] \in Operations
      /\ store \in [Keys -> Values \cup {Absent}] /\ deleted \in Values \cup {Absent}
      /\ pos[w] \in 1 .. Len(batch[w]) + 1 /\ Item(w) = batch[w][pos[w]]
      /\ ~ReadsValueFirst(w) => pos[w] = 1
      /\ \A i \in 1 .. pos[w] - 1 : batch[w][i].id \in Keys
  BY <1>0, InOperation DEF Inside
<1>2. /\ pos[w] \in 1 .. Len(batch[w]) /\ Item(w).id \in Keys
      /\ ReadsValueFirst(w) => Item(w).value # NoChild
  <2>1. Item(w) \in SessionItems /\ Item(w).id # NoId
    BY <1>0, BatchFacts DEF MissingField
  <2>2. Len(batch[w]) \in Nat
    BY BatchFacts
  <2>. QED BY <1>0, <1>1, <2>1, <2>2 DEF MissingField, SessionItems, More
<1>3. OnlyThrows /\ ReadsValueFirst(w) =>
        \A i \in 1 .. pos[w] - 1 :
          \E j \in 1 .. pos[w] - 1 : /\ LastOf(batch[w], batch[w][i].id, pos[w] - 1, j)
                                     /\ store[batch[w][i].id] = Stored(batch[w][j].value)
  BY <1>0, <1>1 DEF SessionInv, WrittenInv
<1>4. CASE ReadFails(w, UnknownError(op[w]))
  BY <1>0, <1>1, <1>4, DieKeeps, ReturnKeeps DEF ReadFails
<1>5. ASSUME NEW there \in ExistsReplies(Item(w).id), store' = store,
             IF there THEN Found(w) ELSE NotFound(w)
      PROVE  SessionInv'
  <2>1. there \in BOOLEAN /\ (OnlyThrows => (there <=> store[Item(w).id] # Absent))
    BY <1>5 DEF ExistsReplies, OnlyThrows
  <2>2. CASE \E code : Return(w, code, NoData)
    BY <1>0, <1>1, <1>5, <2>2, ReturnKeeps
  <2>3. CASE there /\ op[w] = "QUERY" /\ Continue(w, "get", pos[w])
    BY <1>0, <1>1, <1>2, <1>5, <2>1, <2>3, ContinueKeeps DEF Inside, ReadsValueFirst
  <2>4. CASE there /\ op[w] \in {"ADD", "DELETE", "UPDATE"} /\ Continue(w, "del", pos[w])
    BY <1>0, <1>1, <1>2, <1>3, <1>5, <2>1, <2>4, ContinueKeeps DEF Inside, ReadsValueFirst
  <2>5. CASE ~there /\ op[w] = "CREATE" /\ Continue(w, "set", pos[w])
    BY <1>0, <1>1, <1>2, <1>3, <1>5, <2>1, <2>5, ContinueKeeps DEF Inside, ReadsValueFirst
  <2>. QED BY <1>1, <1>5, <2>1, <2>2, <2>3, <2>4, <2>5 DEF Found, NotFound, Operations
<1>. QED BY <1>0, <1>4, <1>5 DEF Exists

\* A deleted session is the one the operation is at.
LEMMA DelKeeps ==
    ASSUME SessionInv, NEW w \in Workers, Del(w)
    PROVE  SessionInv'
<1>0. step[w] = "del" /\ deleted' = store[Item(w).id]
  BY DEF Del
<1>1. /\ lockRedis = w /\ op[w] \in {"ADD", "DELETE", "UPDATE"}
      /\ store \in [Keys -> Values \cup {Absent}]
      /\ pos[w] \in 1 .. Len(batch[w]) /\ Item(w) = batch[w][pos[w]] /\ Item(w).id \in Keys
      /\ ~ReadsValueFirst(w) => pos[w] = 1
      /\ \A i \in 1 .. pos[w] - 1 : batch[w][i].id \in Keys
      /\ op[w] = "ADD" => Item(w).value # NoChild
      /\ OnlyThrows => store[Item(w).id] # Absent
  BY <1>0, InOperation DEF Inside, SessionInv, PlaceInv, SeenInv
<1>2. /\ deleted' \in Values \cup {Absent}
      /\ store' \in [Keys -> Values \cup {Absent}]
      /\ \A k \in Keys : k # Item(w).id => store'[k] = store[k]
      /\ OnlyThrows /\ ~(\E code : Return(w, code, NoData)) => store'[Item(w).id] = Absent
  BY <1>0, <1>1 DEF Del, Write, OnlyThrows
<1>3. OnlyThrows /\ ReadsValueFirst(w) =>
        \A i \in 1 .. pos[w] - 1 :
          \/ batch[w][i].id = Item(w).id
          \/ \E j \in 1 .. pos[w] - 1 : /\ LastOf(batch[w], batch[w][i].id, pos[w] - 1, j)
                                        /\ store'[batch[w][i].id] = Stored(batch[w][j].value)
  <2>. SUFFICES ASSUME OnlyThrows, ReadsValueFirst(w), NEW i \in 1 .. pos[w] - 1,
                       batch[w][i].id # Item(w).id
                PROVE  \E j \in 1 .. pos[w] - 1 :
                         /\ LastOf(batch[w], batch[w][i].id, pos[w] - 1, j)
                         /\ store'[batch[w][i].id] = Stored(batch[w][j].value)
    OBVIOUS
  <2>1. PICK j \in 1 .. pos[w] - 1 : /\ LastOf(batch[w], batch[w][i].id, pos[w] - 1, j)
                                     /\ store[batch[w][i].id] = Stored(batch[w][j].value)
    BY <1>0, <1>1 DEF SessionInv, WrittenInv
  <2>2. store'[batch[w][i].id] = store[batch[w][i].id]
    BY <1>1, <1>2
  <2>. QED BY <2>1, <2>2
<1>4. CASE \E code : Return(w, code, NoData)
  BY <1>1, <1>2, <1>4, ReturnKeeps
<1>5. CASE /\ ~(\E code : Return(w, code, NoData))
           /\ Continue(w, "set", pos[w]) /\ op[w] \in {"ADD", "UPDATE"}
           /\ Item(w).value # NoChild
  <2>1. OnlyThrows => store'[batch[w][pos[w]].id] = Absent /\ deleted' # Absent
    BY <1>0, <1>1, <1>2, <1>5
  <2>2. OnlyThrows /\ ReadsValueFirst(w) =>
        \A i \in 1 .. pos[w] - 1 :
          \/ batch[w][i].id = batch[w][pos[w]].id
          \/ \E j \in 1 .. pos[w] - 1 : /\ LastOf(batch[w], batch[w][i].id, pos[w] - 1, j)
                                        /\ store'[batch[w][i].id] = Stored(batch[w][j].value)
    BY <1>1, <1>3
  <2>3. pos[w] \in 1 .. Len(batch[w]) + 1
    BY BatchFacts
  <2>. QED BY <1>1, <1>2, <1>5, <2>1, <2>2, <2>3, ContinueKeeps DEF Inside
<1>. QED BY <1>0, <1>1, <1>4, <1>5 DEF Del, Write, Deleted, Unknown

\* A batch goes on when its item has been written.
LEMMA SetKeeps ==
    ASSUME SessionInv, NEW w \in Workers, Set(w)
    PROVE  SessionInv'
<1>0. step[w] = "set" /\ deleted' = Absent
  BY DEF Set
<1> DEFINE b == batch[w]
           p == pos[w]
           k == Item(w).id
           v == Stored(Item(w).value)
<1>1. /\ lockRedis = w /\ op[w] \in {"CREATE", "ADD", "UPDATE"}
      /\ store \in [Keys -> Values \cup {Absent}]
      /\ p \in 1 .. Len(b) /\ Len(b) \in Nat /\ Item(w) = b[p] /\ k \in Keys
      /\ Item(w) \in SessionItems /\ v \in Values
      /\ \A i \in 1 .. p - 1 : b[i].id \in Keys
  BY <1>0, InOperation, StoredIsValue DEF Inside, SessionInv, PlaceInv
<1>2. /\ store' \in [Keys -> Values \cup {Absent}]
      /\ store' = store \/ store' = [store EXCEPT ![k] = v]
      /\ OnlyThrows /\ ~(\E code : Return(w, code, NoData)) => store' = [store EXCEPT ![k] = v]
  BY <1>0, <1>1 DEF Set, Write, OnlyThrows
<1>3. CASE \E code : Return(w, code, NoData)
  BY <1>0, <1>1, <1>2, <1>3, ReturnKeeps
<1>4. CASE /\ ~(\E code : Return(w, code, NoData)) /\ op[w] # "UPDATE"
           /\ Continue(w, "item", p + 1)
  <2>1. ASSUME OnlyThrows, NEW i \in 1 .. p
        PROVE  \E j \in 1 .. p : LastOf(b, b[i].id, p, j) /\ store'[b[i].id] = Stored(b[j].value)
    <3>1. store' = [store EXCEPT ![k] = v]
      BY <1>2, <1>4, <2>1
    <3>2. CASE b[i].id = k
      <4>1. LastOf(b, b[i].id, p, p)
        BY <1>1, <3>2 DEF LastOf
      <4>2. store'[b[i].id] = Stored(b[p].value) /\ p \in 1 .. p
        BY <1>1, <3>1, <3>2
      <4>. QED BY <4>1, <4>2
    <3>3. CASE b[i].id # k
      <4>1. i \in 1 .. p - 1
        BY <1>1, <3>3
      <4>2. PICK j \in 1 .. p - 1 : /\ LastOf(b, b[i].id, p - 1, j)
                                    /\ store[b[i].id] = Stored(b[j].value)
        BY <1>0, <1>1, <1>4, <2>1, <3>3, <4>1 DEF SessionInv, WrittenInv, ReadsValueFirst
      <4>3. LastOf(b, b[i].id, p, j) /\ j \in 1 .. p
        BY <1>1, <3>3, <4>2 DEF LastOf
      <4>4. store'[b[i].id] = store[b[i].id]
        BY <1>1, <3>1, <3>3
      <4>. QED BY <4>2, <4>3, <4>4
    <3>. QED BY <3>2, <3>3
  <2>2. p + 1 \in 1 .. Len(b) + 1 /\ (p + 1) - 1 = p
    BY <1>1
  <2>3. ReadsValueFirst(w)
    BY <1>1, <1>4 DEF ReadsValueFirst
  <2>a. \A i \in 1 .. (p + 1) - 1 : b[i].id \in Keys
    BY <1>1
  <2> HIDE DEF p, b
  <2>4. OnlyThrows => \A i \in 1 .. (p + 1) - 1 : \E j \in 1 .. (p + 1) - 1 :
          LastOf(b, b[i].id, (p + 1) - 1, j) /\ store'[b[i].id] = Stored(b[j].value)
    BY <2>1, <2>2
  <2>. QED BY <1>0, <1>1, <1>2, <1>4, <2>a, <2>2, <2>3, <2>4, ContinueKeeps DEF Inside, p, b
<1>. QED BY <1>1, <1>3, <1>4 DEF Set, Write, AfterSet

\* A query answers.
LEMMA GetKeeps ==
    ASSUME SessionInv, NEW w \in Workers, Get(w)
    PROVE  SessionInv'
<1>1. step[w] = "get" /\ deleted' = deleted
  BY DEF Get
<1>2. /\ lockRedis = w
      /\ store \in [Keys -> Values \cup {Absent}] /\ deleted \in Values \cup {Absent}
  BY <1>1, InOperation DEF Inside
<1>3. CASE Die
  BY <1>1, <1>3, DieKeeps
<1>4. CASE store' = store /\ \E code, data : Return(w, code, data)
  BY <1>1, <1>2, <1>4, ReturnKeeps
<1>. QED BY <1>3, <1>4 DEF Get, ReadFails

LEMMA SessionInvStep ==
    ASSUME SessionInv, [SessionNext]_sessionVars
    PROVE  SessionInv'
<1>1. CASE UNCHANGED sessionVars
  BY <1>1 DEF sessionVars, cacheVars, SessionInv, SessionTypeOK, FunctionsInv, OwnerInv,
              PlaceInv, SeenInv, WrittenInv, OnlyThrows, ReadsValueFirst, Item, More
<1>2. CASE SessionNext
  BY <1>2, ReceiveKeeps, LockKeeps, LoopEndKeeps, ExistsKeeps, DelKeeps, SetKeeps, GetKeeps
     DEF SessionNext
<1>. QED BY <1>1, <1>2

LEMMA InitSessionInv == SessionInit => SessionInv
<1>. SUFFICES ASSUME SessionInit PROVE SessionInv
  OBVIOUS
<1>1. /\ store = [k \in Keys |-> Absent] /\ lockRedis = NoWorker
      /\ step = [w \in Workers |-> "idle"] /\ op = [w \in Workers |-> "none"]
      /\ batch = [w \in Workers |-> <<>>] /\ pos = [w \in Workers |-> 1]
      /\ answer = [w \in Workers |-> NoAnswer]
      /\ asked = 0 /\ crashed = FALSE /\ deleted = Absent
  BY DEF SessionInit, CacheInit
<1>2. SessionTypeOK
  <2>0. 1 \in 1 .. Len(<<>>) + 1
    OBVIOUS
  <2>1. \A w \in Workers : pos[w] = 1 /\ batch[w] = <<>>
    BY <1>1
  <2>2. asked \in 0 .. MaxRequests
    BY <1>1, CacheAssumption
  <2>3. \A w \in Workers : pos[w] \in 1 .. Len(batch[w]) + 1
    BY <2>0, <2>1
  <2>. QED BY <1>1, <2>1, <2>2, <2>3 DEF SessionTypeOK
<1>3. FunctionsInv /\ OwnerInv /\ PlaceInv /\ SeenInv /\ WrittenInv
  BY <1>1, CacheAssumption
     DEF FunctionsInv, OwnerInv, PlaceInv, SeenInv, WrittenInv, Inside
<1>. QED BY <1>2, <1>3 DEF SessionInv

-----------------------------------------------------------------------------
(* What follows for the clients                                            *)

\* The invariant of the session operations holds in every reachable state.
THEOREM SessionInvariant == SessionSpec => []SessionInv
<1>1. SessionInit => SessionInv
  BY InitSessionInv
<1>2. SessionInv /\ [SessionNext]_sessionVars => SessionInv'
  BY SessionInvStep
<1>. QED BY <1>1, <1>2, PTL DEF SessionSpec

\* The session operations keep their types; an item of a request is looked at
\* only if there is one.
THEOREM SessionTypeCorrect == SessionSpec => []SessionTypeOK
<1>1. SessionInv => SessionTypeOK
  BY DEF SessionInv
<1>. QED BY <1>1, SessionInvariant, PTL

\* The reply of "get" that QUERY_SESSION dereferences is never nil.
THEOREM QueriesAreSafe == SessionSpec => []QueriedSessionExists
<1>1. SessionInv => QueriedSessionExists
  BY DEF SessionInv, SeenInv, QueriedSessionExists
<1>. QED BY <1>1, SessionInvariant, PTL

\* A session changes only in "set" or "del" of the owner of lockRedis.
LEMMA WriterOwnsLock ==
    ASSUME SessionInv, SessionNext, NEW k \in Keys, store'[k] # store[k]
    PROVE  \E w \in Workers : lockRedis = w /\ step[w] \in {"del", "set"} /\ Item(w).id = k
<1>1. PICK w \in Workers : \/ ReceiveSession(w) \/ LockSession(w)
                           \/ NoMoreItems(w) \/ BadItem(w) \/ Exists(w)
                           \/ Del(w) \/ Set(w) \/ Get(w)
  BY DEF SessionNext
<1>2. CASE ReceiveSession(w) \/ LockSession(w) \/ NoMoreItems(w) \/ BadItem(w)
           \/ Exists(w) \/ Get(w)
  BY <1>2 DEF ReceiveSession, Receive, LockSession, Lock, NoMoreItems, BadItem, Exists,
              Get, ReadFails, Die
<1>3. CASE Del(w) \/ Set(w)
  <2>1. step[w] \in {"del", "set"} /\ lockRedis = w
    BY <1>3 DEF Del, Set, SessionInv, OwnerInv, Inside
  <2>2. store \in [Keys -> Values \cup {Absent}]
    BY DEF SessionInv, SessionTypeOK
  <2>3. store' = store \/ \E v : store' = [store EXCEPT ![Item(w).id] = v]
    BY <1>3 DEF Del, Set, Write
  <2>. QED BY <2>1, <2>2, <2>3
<1>. QED BY <1>1, <1>2, <1>3

\* Whatever fails, a session changes only under lockRedis, in a request for it.
THEOREM WritesAreLocked == SessionSpec => WritesUnderLock
<1>1. SessionInv /\ [SessionNext]_sessionVars =>
        [\A k \in Keys : store'[k] # store[k] =>
           \E w \in Workers : /\ lockRedis = w
                              /\ step[w] \in {"del", "set"}
                              /\ Item(w).id = k]_sessionVars
  BY WriterOwnsLock
<1>. QED BY <1>1, SessionInvariant, PTL DEF SessionSpec, WritesUnderLock

\* CHOOSE finds the item that LastOf describes.
LEMMA LastValueIs ==
    ASSUME NEW b \in Seq(SessionItems), NEW k, NEW j, LastOf(b, k, Len(b), j)
    PROVE  LastValue(b, k) = Stored(b[j].value)
<1> DEFINE P(i) == b[i].id = k /\ \A m \in i + 1 .. Len(b) : b[m].id # k
<1>1. j \in 1 .. Len(b) /\ P(j) /\ Len(b) \in Nat
  BY DEF LastOf
<1>2. ASSUME NEW i \in 1 .. Len(b), P(i) PROVE i = j
  <2>1. ~(i < j) /\ ~(j < i)
    BY <1>1, <1>2
  <2>. QED BY <1>1, <2>1
<1>3. (CHOOSE i \in 1 .. Len(b) : P(i)) = j
  <2>. HIDE DEF P
  <2>. QED BY <1>1, <1>2
<1>. QED BY <1>3 DEF LastValue

\* The answers of an operation that has failed.
LEMMA UnknownIsNoSuccess ==
    ASSUME NEW o \in Operations
    PROVE  UnknownError(o) \notin {0, 200} /\ UnknownError(o) \notin {-8025, -8035, -8045, -8055}
BY DEF Operations, UnknownError

\* One step of the worker that answers.
LEMMA AnswerStep ==
    ASSUME SessionInv, SessionNext, OnlyThrows, NEW w \in Workers
    PROVE  AnswerIsTrue(w)
<1>. SUFFICES ASSUME answer'[w].code = 200, answer[w].code # 200 PROVE AnswerIsTrue(w)
  BY DEF AnswerIsTrue
<1>0. /\ DOMAIN answer = Workers
      /\ store \in [Keys -> Values \cup {Absent}]
      /\ batch[w] \in Seq(SessionItems) /\ Len(batch[w]) \in Nat
      /\ pos[w] \in 1 .. Len(batch[w]) + 1
  BY BatchFacts DEF SessionInv, FunctionsInv, SessionTypeOK
<1>1. ~Die
  BY DEF Die
<1>2. \A u \in Workers : \A code, data : Return(u, code, data) =>
        u = w /\ code = 200 /\ answer'[w].data = data
  BY <1>0 DEF Return
<1>3. \A u \in Workers : \A s, n : ~Continue(u, s, n)
  BY DEF Continue
<1>4. PICK u \in Workers : \/ ReceiveSession(u) \/ LockSession(u)
                           \/ NoMoreItems(u) \/ BadItem(u) \/ Exists(u)
                           \/ Del(u) \/ Set(u) \/ Get(u)
  BY DEF SessionNext
<1>5. ~ReceiveSession(u) /\ ~LockSession(u)
  BY <1>0 DEF ReceiveSession, Receive, LockSession, Lock, NoAnswer
<1>6. u = w /\ op[w] \in Operations /\ lockRedis = w /\ step[w] \in Inside
  <2>1. step[u] \in Inside
    BY <1>4, <1>5 DEF NoMoreItems, BadItem, Exists, Del, Set, Get, Inside
  <2>2. \E code, data : Return(u, code, data)
    <3>1. CASE NoMoreItems(u) \/ BadItem(u)
      BY <1>1, <3>1 DEF NoMoreItems, BadItem, Unknown
    <3>2. CASE Exists(u)
      BY <1>1, <1>3, <3>2 DEF Exists, Found, NotFound, ReadFails
    <3>3. CASE Del(u)
      <4>1. op[u] \in {"ADD", "DELETE", "UPDATE"}
        BY <3>3 DEF Del, SessionInv, PlaceInv
      <4>2. Deleted(u) \/ \E code, data : Return(u, code, data)
        BY <3>3 DEF Del, Write
      <4>3. ~Continue(u, "set", pos[u])
        BY <1>3
      <4>4. CASE Deleted(u)
        <5>. SUFFICES Return(u, 200, NoData) \/ Return(u, UnknownError(op[u]), NoData)
          OBVIOUS
        <5>1. CASE op[u] = "DELETE"
          BY <4>4, <5>1 DEF Deleted
        <5>2. CASE op[u] = "UPDATE"
          BY <4>3, <4>4, <5>2 DEF Deleted, Unknown
        <5>3. CASE op[u] = "ADD"
          BY <4>3, <4>4, <5>3 DEF Deleted
        <5>. QED BY <4>1, <5>1, <5>2, <5>3
      <4>. QED BY <4>2, <4>4
    <3>4. CASE Set(u)
      BY <1>3, <3>4 DEF Set, Write, AfterSet
    <3>5. CASE Get(u)
      BY <1>1, <3>5 DEF Get, ReadFails
    <3>. QED BY <1>4, <1>5, <3>1, <3>2, <3>3, <3>4, <3>5
  <2>. QED BY <1>2, <2>1, <2>2, InOperation
<1>7. UnknownError(op[w]) # 200
  BY <1>6, UnknownIsNoSuccess
<1>8. CASE NoMoreItems(w)
  <2>1. op[w] \in {"CREATE", "ADD"} /\ store' = store /\ step[w] = "item" /\ ~More(w)
    BY <1>1, <1>2, <1>8 DEF NoMoreItems, NoReturnValue, ReadsValueFirst
  <2>2. pos[w] - 1 = Len(batch[w])
    BY <1>0, <2>1 DEF More
  <2>3. ASSUME NEW i \in 1 .. Len(batch[w])
        PROVE  store'[batch[w][i].id] = LastValue(batch[w], batch[w][i].id)
    <3>1. PICK j \in 1 .. Len(batch[w]) : /\ LastOf(batch[w], batch[w][i].id, Len(batch[w]), j)
                                          /\ store[batch[w][i].id] = Stored(batch[w][j].value)
      BY <1>6, <2>1, <2>2 DEF SessionInv, WrittenInv, ReadsValueFirst
    <3>. QED BY <1>0, <2>1, <3>1, LastValueIs
  <2>. QED BY <2>1, <2>3 DEF AnswerIsTrue
<1>9. ~BadItem(w) /\ ~Exists(w)
  <2>1. CREATE_SESSION_KEY_EXIST # 200 /\ (op[w] # "CREATE" => KeyNotExist(op[w]) # 200)
    BY <1>6 DEF Operations, CREATE_SESSION_KEY_EXIST, KeyNotExist, QUERY_SESSION_KEY_NOT_EXIST
  <2>. QED BY <1>1, <1>2, <1>3, <1>7, <2>1
           DEF BadItem, Unknown, Exists, Found, NotFound, ReadFails
<1>10. CASE Del(w)
  <2>1. /\ op[w] = "DELETE" /\ store' = [store EXCEPT ![Item(w).id] = Absent]
        /\ Item(w).id \in Keys /\ Item(w) = batch[w][1]
    <3>1. op[w] \in {"ADD", "DELETE", "UPDATE"} /\ step[w] = "del"
      BY <1>10 DEF Del, SessionInv, PlaceInv
    <3>2. Deleted(w) /\ store' = [store EXCEPT ![Item(w).id] = Absent]
      BY <1>2, <1>7, <1>10 DEF Del, Write, OnlyThrows
    <3>3. op[w] = "DELETE"
      <4>. SUFFICES ASSUME op[w] # "DELETE" PROVE FALSE
        OBVIOUS
      <4>1. ~Continue(w, "set", pos[w])
        BY <1>3
      <4>2. ~Return(w, UnknownError(op[w]), NoData)
        BY <1>2, <1>7
      <4>3. CASE op[w] = "UPDATE"
        BY <3>2, <4>1, <4>2, <4>3 DEF Deleted, Unknown
      <4>4. CASE op[w] = "ADD"
        BY <3>2, <4>1, <4>4 DEF Deleted
      <4>. QED BY <3>1, <4>3, <4>4
    <3>. QED BY <1>6, <3>1, <3>2, <3>3, InOperation DEF ReadsValueFirst
  <2>2. store'[batch[w][1].id] = Absent
    BY <1>0, <2>1
  <2>. QED BY <2>1, <2>2 DEF AnswerIsTrue
<1>11. CASE Set(w)
  <2>1. /\ op[w] = "UPDATE"
        /\ store' = [store EXCEPT ![Item(w).id] = Stored(Item(w).value)]
        /\ Item(w).id \in Keys /\ Item(w) = batch[w][1]
    <3>1. step[w] = "set"
      BY <1>11 DEF Set
    <3>2. op[w] = "UPDATE" /\ store' = [store EXCEPT ![Item(w).id] = Stored(Item(w).value)]
      BY <1>2, <1>3, <1>7, <1>11 DEF Set, Write, AfterSet, OnlyThrows
    <3>. QED BY <1>6, <3>1, <3>2, InOperation DEF ReadsValueFirst
  <2>2. store'[batch[w][1].id] = Stored(batch[w][1].value)
    BY <1>0, <2>1
  <2>. QED BY <2>1, <2>2 DEF AnswerIsTrue
<1>12. CASE Get(w)
  <2>1. op[w] = "QUERY" /\ step[w] = "get"
    BY <1>12 DEF Get, SessionInv, PlaceInv
  <2>2. answer'[w].data = store[Item(w).id] /\ store' = store
    BY <1>1, <1>2, <1>7, <1>12 DEF Get, ReadFails, OnlyThrows, JSON_READ_OR_WRITE_ERROR
  <2>3. Item(w) = batch[w][1]
    BY <1>6, <2>1, InOperation DEF ReadsValueFirst
  <2>. QED BY <2>1, <2>2, <2>3 DEF AnswerIsTrue
<1>. QED BY <1>4, <1>5, <1>6, <1>8, <1>9, <1>10, <1>11, <1>12

\* "200" is true at the moment it is given: for any list of items, also with
\* one session several times, and any interleaving with other workers.
THEOREM AnswersAreTrue == SessionSpec => SuccessAmongThrows
<1>1. SessionInv /\ [SessionNext]_sessionVars =>
        [OnlyThrows => \A w \in Workers : AnswerIsTrue(w)]_sessionVars
  BY AnswerStep
<1>. QED BY <1>1, SessionInvariant, PTL DEF SessionSpec, SuccessAmongThrows

-----------------------------------------------------------------------------
(* The sessions as clients see them                                        *)

\* The three parts of the refinement mapping, when commands only throw.
Verdict(c) == CASE c = 0   -> "none"
                [] c = 200 -> "ok"
                [] c = CREATE_SESSION_KEY_EXIST -> "exist"
                [] c \in {-8035, -8045, -8055}  -> "missing"
                [] OTHER   -> "error"
Shown(data) == IF data = NoData THEN Absent ELSE data
Told == [w \in Workers |-> ToldClient(w)]

LEMMA ToldIs ==
    ASSUME NEW w
    PROVE  ToldClient(w) = <<Verdict(answer[w].code), Shown(answer[w].data)>>
BY DEF ToldClient, Verdict, Shown

\* What each answer tells the client.
LEMMA Verdicts ==
    /\ Verdict(0) = "none" /\ Verdict(200) = "ok" /\ Verdict(NoReturnValue) = "error"
    /\ Verdict(CREATE_SESSION_KEY_EXIST) = "exist" /\ Verdict(JSON_READ_OR_WRITE_ERROR) = "error"
    /\ \A o \in Operations : Verdict(UnknownError(o)) = "error"
    /\ \A o \in Operations \ {"CREATE"} : Verdict(KeyNotExist(o)) = "missing"
    /\ Shown(NoData) = Absent
    /\ \A v \in Values : Shown(v) = v
BY SessionAssumption
   DEF Verdict, Shown, NoReturnValue, CREATE_SESSION_KEY_EXIST, JSON_READ_OR_WRITE_ERROR,
       Operations, UnknownError, KeyNotExist, QUERY_SESSION_KEY_NOT_EXIST

\* A return tells the client, and only this one.
LEMMA ReturnTells ==
    ASSUME SessionInv, NEW w \in Workers, step[w] \in Inside,
           NEW code, NEW data, Return(w, code, data)
    PROVE  /\ Told[w] = <<"none", Absent>>
           /\ Told' = [Told EXCEPT ![w] = <<Verdict(code), Shown(data)>>]
<1>1. DOMAIN answer = Workers /\ answer[w] = NoAnswer
  BY InOperation DEF SessionInv, FunctionsInv
<1>2. answer' = [answer EXCEPT ![w] = [code |-> code, data |-> data]]
  BY DEF Return
<1>3. ToldClient(w)' = <<Verdict(code), Shown(data)>>
  BY <1>1, <1>2 DEF ToldClient, Verdict, Shown
<1>4. ASSUME NEW u \in Workers \ {w} PROVE ToldClient(u)' = ToldClient(u)
  <2>1. answer'[u] = answer[u]
    BY <1>1, <1>2
  <2>. QED BY <2>1 DEF ToldClient
<1>5. Told[w] = <<"none", Absent>>
  BY <1>1, ToldIs, Verdicts DEF Told, NoAnswer
<1>. QED BY <1>3, <1>4, <1>5 DEF Told

LEMMA ToldKept == UNCHANGED answer => UNCHANGED Told
BY DEF Told, ToldClient

\* Only the worker in the operation has deleted a session to set it again.
LEMMA SeenAlone ==
    ASSUME SessionInv, NEW w \in Workers, step[w] \in Inside
    PROVE  SessionsSeen = IF step[w] = "set" /\ op[w] # "CREATE"
                          THEN [store EXCEPT ![Item(w).id] = deleted] ELSE store
<1>1. store \in [Keys -> Values \cup {Absent}] /\ lockRedis = w
  BY InOperation
<1>2. \A u \in Workers \ {w} : step[u] # "set"
  BY <1>1 DEF SessionInv, OwnerInv, Inside
<1>3. CASE step[w] = "set" /\ op[w] # "CREATE"
  <2>1. Pending = {w}
    BY <1>2, <1>3 DEF Pending
  <2>. QED BY <1>1, <1>3, <2>1 DEF SessionsSeen
<1>4. CASE ~(step[w] = "set" /\ op[w] # "CREATE")
  <2>1. Pending = {}
    BY <1>2, <1>4 DEF Pending
  <2>. QED BY <1>1, <1>4, <2>1 DEF SessionsSeen
<1>. QED BY <1>3, <1>4

\* When it returns, the sessions are what is stored.
LEMMA SeenOnReturn ==
    ASSUME SessionInv, NEW w \in Workers, step[w] \in Inside,
           NEW code, NEW data, Return(w, code, data),
           store' \in [Keys -> Values \cup {Absent}]
    PROVE  SessionsSeen' = store'
<1>1. /\ step \in [Workers -> {"idle", "waiting", "item", "del", "set", "get"}]
      /\ step' = [step EXCEPT ![w] = "idle"] /\ lockRedis = w
  BY InOperation DEF Return, Goto, SessionInv, SessionTypeOK
<1>2. \A u \in Workers : step'[u] # "set"
  BY <1>1 DEF SessionInv, OwnerInv, Inside
<1>3. Pending' = {}
  BY <1>2 DEF Pending
<1>. QED BY <1>3 DEF SessionsSeen

\* When it goes on, a session it is about to set again is still there.
LEMMA SeenOnContinue ==
    ASSUME SessionInv, NEW w \in Workers, step[w] \in Inside,
           NEW s, NEW n, Continue(w, s, n),
           store' \in [Keys -> Values \cup {Absent}]
    PROVE  SessionsSeen' = IF s = "set" /\ op[w] # "CREATE"
                           THEN [store' EXCEPT ![batch[w][n].id] = deleted'] ELSE store'
<1>1. /\ step \in [Workers -> {"idle", "waiting", "item", "del", "set", "get"}]
      /\ pos \in [Workers -> Nat \ {0}] /\ lockRedis = w
      /\ step' = [step EXCEPT ![w] = s] /\ pos' = [pos EXCEPT ![w] = n]
      /\ op' = op /\ batch' = batch
  BY InOperation DEF Continue, Goto, SessionInv, SessionTypeOK, FunctionsInv
<1>2. \A u \in Workers \ {w} : step'[u] # "set"
  BY <1>1 DEF SessionInv, OwnerInv, Inside
<1>3. step'[w] = s /\ Item(w)' = batch[w][n]
  BY <1>1 DEF Item
<1>4. CASE s = "set" /\ op[w] # "CREATE"
  <2>1. Pending' = {w}
    BY <1>1, <1>2, <1>3, <1>4 DEF Pending
  <2>. QED BY <1>3, <1>4, <2>1 DEF SessionsSeen
<1>5. CASE ~(s = "set" /\ op[w] # "CREATE")
  <2>1. Pending' = {}
    BY <1>1, <1>2, <1>3, <1>5 DEF Pending
  <2>. QED BY <1>5, <2>1 DEF SessionsSeen
<1>. QED BY <1>4, <1>5

\* Nothing of a session changes: those about to be set again are the same.
LEMMA SeenKept ==
    ASSUME UNCHANGED <<store, deleted>>, Pending' = Pending,
           \A w \in Pending : Item(w)' = Item(w)
    PROVE  UNCHANGED SessionsSeen
BY DEF SessionsSeen

-----------------------------------------------------------------------------
(* The steps of an operation as steps of SessionMap                        *)

\* How the mapping is read while commands only throw.
LEMMA MapReads ==
    ASSUME OnlyThrows, OnlyThrows'
    PROVE  /\ Map!mapVars = <<SessionsSeen, op, Told>>
           /\ Map!mapVars' = <<SessionsSeen', op', Told'>>
BY DEF Map!mapVars, Told

LEMMA TellMaps ==
    ASSUME OnlyThrows, OnlyThrows', NEW w \in Workers, NEW verdict, NEW value,
           Told[w] = <<"none", Absent>>,
           Told' = [Told EXCEPT ![w] = <<verdict, value>>], op' = op
    PROVE  Map!Tell(w, verdict, value)
BY DEF Map!Tell, Told

\* What a return is for the map.
LEMMA ReturnMaps ==
    ASSUME SessionInv, OnlyThrows, NEW w \in Workers, step[w] \in Inside,
           NEW code, NEW data, Return(w, code, data),
           store' \in [Keys -> Values \cup {Absent}]
    PROVE  /\ OnlyThrows' /\ op' = op /\ SessionsSeen' = store'
           /\ Map!Tell(w, Verdict(code), Shown(data))
<1>1. OnlyThrows' /\ op' = op
  BY DEF Return, OnlyThrows
<1>. QED BY <1>1, ReturnTells, TellMaps, SeenOnReturn

\* A failure tells of an error.
LEMMA FailMaps ==
    ASSUME SessionInv, OnlyThrows, NEW w \in Workers, step[w] \in Inside,
           NEW code, Return(w, code, NoData), Verdict(code) = "error",
           store' = SessionsSeen, store' \in [Keys -> Values \cup {Absent}]
    PROVE  Map!Fail(w)
<1>1. OnlyThrows' /\ SessionsSeen' = SessionsSeen /\ Map!Tell(w, "error", Absent)
  BY ReturnMaps, Verdicts
<1>. QED BY <1>1 DEF Map!Fail

\* Going on tells nothing.
LEMMA ContinueMaps ==
    ASSUME SessionInv, OnlyThrows, NEW w \in Workers, step[w] \in Inside,
           NEW s, NEW n, Continue(w, s, n)
    PROVE  /\ OnlyThrows' /\ op' = op /\ Told' = Told
           /\ Map!Tell(w, "none", Absent)
<1>1. OnlyThrows' /\ op' = op /\ Told' = Told
  BY ToldKept DEF Continue, OnlyThrows
<1>2. Told[w] = <<"none", Absent>>
  BY InOperation, ToldIs, Verdicts DEF Told, NoAnswer
<1>3. Told' = [Told EXCEPT ![w] = <<"none", Absent>>]
  BY <1>1, <1>2 DEF Told
<1>. QED BY <1>1, <1>2, <1>3, TellMaps

\* The sessions do not change either.
LEMMA SilentMaps ==
    ASSUME SessionInv, OnlyThrows, NEW w \in Workers, step[w] \in Inside,
           NEW s, NEW n, Continue(w, s, n), SessionsSeen' = SessionsSeen
    PROVE  UNCHANGED Map!mapVars
BY ContinueMaps, MapReads

LEMMA DieMaps == ASSUME Die, deleted' = deleted PROVE UNCHANGED Map!mapVars
<1>1. /\ UNCHANGED <<store, deleted, step, op, batch, pos, answer, faults>>
  BY DEF Die
<1>2. UNCHANGED <<SessionsSeen, Told>> /\ OnlyThrows' = OnlyThrows
  BY <1>1, ToldKept, SeenKept DEF Pending, Item, OnlyThrows
<1>3. CASE OnlyThrows
  BY <1>1, <1>2, <1>3, MapReads
<1>4. CASE ~OnlyThrows
  BY <1>2, <1>4 DEF Map!mapVars
<1>. QED BY <1>3, <1>4

LEMMA ReceiveMaps ==
    ASSUME SessionInv, OnlyThrows, NEW w \in Workers, ReceiveSession(w)
    PROVE  Map!Ask(w)
<1>0. /\ step \in [Workers -> {"idle", "waiting", "item", "del", "set", "get"}]
      /\ DOMAIN answer = Workers
      /\ batch \in [Workers -> Batches \cup {<<>>}] /\ op \in [Workers -> Operations \cup {"none"}]
  BY DEF SessionInv, SessionTypeOK, FunctionsInv
<1>1. PICK o \in Operations, b \in Batches : Receive(w, o, b) /\ deleted' = deleted
  BY DEF ReceiveSession
<1>2. OnlyThrows' /\ op' = [op EXCEPT ![w] = o] /\ UNCHANGED <<store, deleted>>
  BY <1>1 DEF Receive, OnlyThrows
<1>3. SessionsSeen' = SessionsSeen
  <2>1. \A u \in Workers \ {w} : UNCHANGED <<step[u], op[u], batch[u], pos[u]>>
    BY <1>0, <1>1 DEF Receive, Goto
  <2>2. step[w] # "set" /\ step'[w] # "set"
    BY <1>0, <1>1 DEF Receive, Goto
  <2>3. Pending' = Pending /\ \A u \in Pending : Item(u)' = Item(u)
    BY <2>1, <2>2 DEF Pending, Item
  <2>. QED BY <1>2, <2>3, SeenKept
<1>4. Told' = [Told EXCEPT ![w] = <<"none", Absent>>]
  <2>1. answer' = [answer EXCEPT ![w] = NoAnswer]
    BY <1>1 DEF Receive
  <2>2. ToldClient(w)' = <<"none", Absent>>
    <3>1. answer'[w] = NoAnswer
      BY <1>0, <2>1
    <3>2. ToldClient(w)' = <<Verdict(answer'[w].code), Shown(answer'[w].data)>>
      BY DEF ToldClient, Verdict, Shown
    <3>. QED BY <3>1, <3>2, Verdicts DEF NoAnswer
  <2>3. ASSUME NEW u \in Workers \ {w} PROVE ToldClient(u)' = ToldClient(u)
    <3>1. answer'[u] = answer[u]
      BY <1>0, <2>1
    <3>. QED BY <3>1 DEF ToldClient
  <2>. QED BY <2>2, <2>3 DEF Told
<1>. QED BY <1>2, <1>3, <1>4 DEF Map!Ask, Told

LEMMA LockMaps ==
    ASSUME SessionInv, OnlyThrows, NEW w \in Workers, LockSession(w)
    PROVE  UNCHANGED Map!mapVars
<1>1. /\ UNCHANGED <<store, deleted, op, batch, pos, answer, faults>>
      /\ step[w] = "waiting" /\ step' = [step EXCEPT ![w] = "item"]
      /\ step \in [Workers -> {"idle", "waiting", "item", "del", "set", "get"}]
  BY DEF LockSession, Lock, Goto, SessionInv, SessionTypeOK
<1>2. Pending' = Pending /\ \A u \in Pending : Item(u)' = Item(u)
  BY <1>1 DEF Pending, Item
<1>3. UNCHANGED <<SessionsSeen, Told>> /\ OnlyThrows'
  BY <1>1, <1>2, SeenKept, ToldKept DEF OnlyThrows
<1>. QED BY <1>1, <1>3, MapReads

LEMMA LoopEndMaps ==
    ASSUME SessionInv, OnlyThrows, NEW w \in Workers, NoMoreItems(w)
    PROVE  Map!Succeed(w) \/ Map!Fail(w) \/ UNCHANGED Map!mapVars
<1>1. step[w] = "item" /\ step[w] \in Inside /\ SessionsSeen = store
  BY SeenAlone DEF NoMoreItems, Inside
<1>2. store \in [Keys -> Values \cup {Absent}]
  BY <1>1, InOperation
<1>3. CASE ReadsValueFirst(w) /\ Return(w, 200, NoData) /\ store' = store
  <2>1. OnlyThrows' /\ SessionsSeen' = SessionsSeen /\ Map!Tell(w, "ok", Absent)
    BY <1>1, <1>2, <1>3, ReturnMaps, Verdicts
  <2>. QED BY <1>3, <2>1 DEF Map!Succeed, ReadsValueFirst
<1>4. CASE Return(w, NoReturnValue, NoData) /\ store' = store
  BY <1>1, <1>2, <1>4, FailMaps, Verdicts
<1>5. CASE Die /\ deleted' = deleted
  BY <1>5, DieMaps
<1>. QED BY <1>3, <1>4, <1>5 DEF NoMoreItems

LEMMA BadItemMaps ==
    ASSUME SessionInv, OnlyThrows, NEW w \in Workers, BadItem(w)
    PROVE  Map!Fail(w)
<1>1. step[w] = "item" /\ step[w] \in Inside /\ SessionsSeen = store
  BY SeenAlone DEF BadItem, Inside
<1>. QED BY <1>1, InOperation, FailMaps, Verdicts DEF BadItem, Unknown

LEMMA ExistsMaps ==
    ASSUME SessionInv, OnlyThrows, NEW w \in Workers, Exists(w)
    PROVE  \/ Map!Fail(w) \/ UNCHANGED Map!mapVars
           \/ \E k \in Keys : Map!RefuseMissing(w, k) \/ Map!RefuseExisting(w, k)
<1>1. step[w] = "item" /\ step[w] \in Inside /\ SessionsSeen = store
  BY SeenAlone DEF Exists, Inside
<1>2. store \in [Keys -> Values \cup {Absent}] /\ op[w] \in Operations
  BY <1>1, InOperation
<1>3. Item(w).id \in Keys
  BY BatchFacts DEF Exists, MissingField, SessionItems
<1> DEFINE k == Item(w).id
<1>4. CASE ReadFails(w, UnknownError(op[w])) /\ store' = store
  <2>1. Return(w, UnknownError(op[w]), NoData)
    BY <1>4 DEF ReadFails, OnlyThrows
  <2>. QED BY <1>1, <1>2, <1>4, <2>1, FailMaps, Verdicts
<1>5. CASE store[k] # Absent /\ Found(w) /\ store' = store
  <2>1. CASE op[w] = "CREATE"
    <3>1. Return(w, CREATE_SESSION_KEY_EXIST, NoData)
      BY <1>5, <2>1 DEF Found
    <3>2. OnlyThrows' /\ SessionsSeen' = SessionsSeen /\ Map!Tell(w, "exist", Absent)
      BY <1>1, <1>2, <1>5, <3>1, ReturnMaps, Verdicts
    <3>3. Map!RefuseExisting(w, k)
      BY <1>1, <1>5, <2>1, <3>2 DEF Map!RefuseExisting
    <3>. QED BY <1>3, <3>3
  <2>2. CASE op[w] # "CREATE"
    <3>1. PICK s \in {"get", "del"} : Continue(w, s, pos[w])
      BY <1>5, <2>2 DEF Found
    <3>2. SessionsSeen' = SessionsSeen
      BY <1>1, <1>2, <1>5, <3>1, SeenOnContinue
    <3>. QED BY <1>1, <3>1, <3>2, SilentMaps
  <2>. QED BY <2>1, <2>2
<1>6. CASE store[k] = Absent /\ NotFound(w) /\ store' = store
  <2>1. CASE op[w] = "CREATE"
    <3>1. Continue(w, "set", pos[w])
      BY <1>6, <2>1 DEF NotFound
    <3>2. SessionsSeen' = SessionsSeen
      BY <1>1, <1>2, <1>6, <2>1, <3>1, SeenOnContinue
    <3>. QED BY <1>1, <3>1, <3>2, SilentMaps
  <2>2. CASE op[w] # "CREATE"
    <3>1. Return(w, KeyNotExist(op[w]), NoData)
      BY <1>6, <2>2 DEF NotFound
    <3>2. OnlyThrows' /\ SessionsSeen' = SessionsSeen /\ Map!Tell(w, "missing", Absent)
      BY <1>1, <1>2, <1>6, <2>2, <3>1, ReturnMaps, Verdicts
    <3>3. Map!RefuseMissing(w, k)
      BY <1>1, <1>6, <2>2, <3>2 DEF Map!RefuseMissing
    <3>. QED BY <1>3, <3>3
  <2>. QED BY <2>1, <2>2
<1>7. ExistsReplies(k) = {store[k] # Absent}
  BY DEF ExistsReplies, OnlyThrows
<1>8. \/ store' = store /\ \E found \in ExistsReplies(k) : IF found THEN Found(w) ELSE NotFound(w)
      \/ ReadFails(w, UnknownError(op[w]))
  BY DEF Exists
<1>9. ReadFails(w, UnknownError(op[w])) => store' = store
  BY DEF ReadFails, Die
<1>. QED BY <1>4, <1>5, <1>6, <1>7, <1>8, <1>9

\* The throw of a write: the client is told of an error.
LEMMA LoseMaps ==
    ASSUME SessionInv, OnlyThrows, NEW w \in Workers, step[w] \in Inside,
           Return(w, UnknownError(op[w]), NoData), NEW k \in Keys,
           op[w] \in {"ADD", "UPDATE", "DELETE"}, SessionsSeen[k] # Absent,
           store' = [SessionsSeen EXCEPT ![k] = Absent],
           store' \in [Keys -> Values \cup {Absent}]
    PROVE  Map!Lose(w, k)
<1>1. OnlyThrows' /\ SessionsSeen' = store' /\ Map!Tell(w, "error", Absent)
  BY ReturnMaps, Verdicts, InOperation
<1>. QED BY <1>1 DEF Map!Lose

LEMMA DelMaps ==
    ASSUME SessionInv, OnlyThrows, NEW w \in Workers, Del(w)
    PROVE  \/ Map!Fail(w) \/ UNCHANGED Map!mapVars
           \/ \E k \in Keys : Map!Remove(w, k) \/ Map!Lose(w, k)
<1>1. step[w] = "del" /\ step[w] \in Inside /\ SessionsSeen = store
  BY SeenAlone DEF Del, Inside
<1>2. /\ store \in [Keys -> Values \cup {Absent}] /\ op[w] \in {"ADD", "DELETE", "UPDATE"}
      /\ Item(w).id \in Keys /\ Item(w) = batch[w][pos[w]] /\ op[w] \in Operations
      /\ store[Item(w).id] # Absent /\ deleted' = store[Item(w).id]
  BY <1>1, InOperation DEF SessionInv, PlaceInv, SeenInv, Del
<1> DEFINE k == Item(w).id
<1>3. CASE store' = [store EXCEPT ![k] = Absent] /\ Deleted(w)
  <2>0. store' \in [Keys -> Values \cup {Absent}]
    BY <1>2, <1>3
  <2>1. CASE op[w] = "DELETE"
    <3>1. Return(w, 200, NoData)
      BY <1>3, <2>1 DEF Deleted
    <3>2. OnlyThrows' /\ SessionsSeen' = store' /\ Map!Tell(w, "ok", Absent)
      BY <1>1, <2>0, <3>1, ReturnMaps, Verdicts
    <3>3. Map!Remove(w, k)
      BY <1>1, <1>2, <1>3, <2>1, <3>2 DEF Map!Remove
    <3>. QED BY <1>2, <3>3
  <2>2. CASE Continue(w, "set", pos[w]) /\ op[w] # "CREATE"
    <3>1. SessionsSeen' = [store' EXCEPT ![k] = deleted']
      BY <1>1, <1>2, <2>0, <2>2, SeenOnContinue
    <3>2. SessionsSeen' = SessionsSeen
      BY <1>1, <1>2, <1>3, <3>1
    <3>. QED BY <1>1, <2>2, <3>2, SilentMaps
  <2>3. CASE Return(w, UnknownError(op[w]), NoData) /\ op[w] = "UPDATE"
    <3>1. Map!Lose(w, k)
      BY <1>1, <1>2, <1>3, <2>0, <2>3, LoseMaps
    <3>. QED BY <1>2, <3>1
  <2>4. op[w] = "ADD" => Continue(w, "set", pos[w])
    BY <1>3 DEF Deleted
  <2>5. op[w] = "UPDATE" => \/ Return(w, UnknownError(op[w]), NoData)
                            \/ Continue(w, "set", pos[w])
    BY <1>3 DEF Deleted, Unknown
  <2>. QED BY <1>2, <2>1, <2>2, <2>3, <2>4, <2>5
<1>4. CASE store' = [store EXCEPT ![k] = Absent] /\ Return(w, UnknownError(op[w]), NoData)
  <2>1. store' \in [Keys -> Values \cup {Absent}]
    BY <1>2, <1>4
  <2>2. Map!Lose(w, k)
    BY <1>1, <1>2, <1>4, <2>1, LoseMaps
  <2>. QED BY <1>2, <2>2
<1>5. CASE store' = store /\ Return(w, UnknownError(op[w]), NoData)
  BY <1>1, <1>2, <1>5, FailMaps, Verdicts
<1>. QED BY <1>3, <1>4, <1>5 DEF Del, Write, OnlyThrows

LEMMA SetMaps ==
    ASSUME SessionInv, OnlyThrows, NEW w \in Workers, Set(w)
    PROVE  \/ Map!Fail(w)
           \/ \E k \in Keys : \/ Map!Lose(w, k)
                              \/ \E v \in Values : Map!Create(w, k, v) \/ Map!Replace(w, k, v)
<1>1. step[w] = "set" /\ step[w] \in Inside
  BY DEF Set, Inside
<1>2. /\ store \in [Keys -> Values \cup {Absent}] /\ op[w] \in {"CREATE", "ADD", "UPDATE"}
      /\ Item(w).id \in Keys /\ op[w] \in Operations /\ deleted \in Values \cup {Absent}
      /\ Item(w) \in SessionItems /\ Item(w).value # NoChild
      /\ store[Item(w).id] = Absent /\ (op[w] # "CREATE" => deleted # Absent)
  BY <1>1, InOperation DEF SessionInv, PlaceInv, SeenInv
<1> DEFINE k == Item(w).id
<1> DEFINE v == Stored(Item(w).value)
<1>3. v \in Values
  BY <1>2, StoredIsValue
<1>4. /\ op[w] = "CREATE" => SessionsSeen = store
      /\ op[w] # "CREATE" => SessionsSeen = [store EXCEPT ![k] = deleted]
  BY <1>1, SeenAlone
<1>. HIDE DEF v
<1>5. ASSUME OnlyThrows', SessionsSeen' = store', store' = [store EXCEPT ![k] = v],
             NEW verdict \in {"none", "ok", "error"}, Map!Tell(w, verdict, Absent)
      PROVE  Map!Create(w, k, v) \/ Map!Replace(w, k, v)
  <2>1. Map!Written(w)
    BY <1>5 DEF Map!Written
  <2>2. CASE op[w] = "CREATE"
    BY <1>2, <1>4, <1>5, <2>1, <2>2 DEF Map!Create
  <2>3. CASE op[w] # "CREATE"
    <3>1. SessionsSeen[k] # Absent /\ store' = [SessionsSeen EXCEPT ![k] = v]
      BY <1>2, <1>4, <1>5, <2>3
    <3>. QED BY <1>2, <1>5, <2>1, <2>3, <3>1 DEF Map!Replace
  <2>. QED BY <2>2, <2>3
<1>6. CASE store' = [store EXCEPT ![k] = v] /\ AfterSet(w)
  <2>0. store' \in [Keys -> Values \cup {Absent}]
    BY <1>2, <1>3, <1>6
  <2>1. CASE Return(w, 200, NoData)
    BY <1>1, <1>2, <1>3, <1>5, <1>6, <2>0, <2>1, ReturnMaps, Verdicts
  <2>2. CASE Continue(w, "item", pos[w] + 1)
    BY <1>1, <1>2, <1>3, <1>5, <1>6, <2>0, <2>2, ContinueMaps, SeenOnContinue
  <2>. QED BY <1>6, <2>1, <2>2 DEF AfterSet
<1>7. CASE store' = [store EXCEPT ![k] = v] /\ Return(w, UnknownError(op[w]), NoData)
  <2>0. store' \in [Keys -> Values \cup {Absent}]
    BY <1>2, <1>3, <1>7
  <2>. QED BY <1>1, <1>2, <1>3, <1>5, <1>7, <2>0, ReturnMaps, Verdicts
<1>8. CASE store' = store /\ Return(w, UnknownError(op[w]), NoData)
  <2>1. CASE op[w] = "CREATE"
    BY <1>1, <1>2, <1>4, <1>8, <2>1, FailMaps, Verdicts
  <2>2. CASE op[w] # "CREATE"
    <3>1. SessionsSeen[k] # Absent /\ store' = [SessionsSeen EXCEPT ![k] = Absent]
      BY <1>2, <1>4, <1>8, <2>2
    <3>2. Map!Lose(w, k)
      BY <1>1, <1>2, <1>8, <2>2, <3>1, LoseMaps
    <3>. QED BY <1>2, <3>2
  <2>. QED BY <2>1, <2>2
<1>. QED BY <1>6, <1>7, <1>8 DEF Set, Write, OnlyThrows, v

LEMMA GetMaps ==
    ASSUME SessionInv, OnlyThrows, NEW w \in Workers, Get(w)
    PROVE  \/ Map!Fail(w) \/ UNCHANGED Map!mapVars
           \/ \E k \in Keys : Map!Query(w, k)
<1>1. step[w] = "get" /\ step[w] \in Inside /\ SessionsSeen = store
  BY SeenAlone DEF Get, Inside
<1>2. /\ store \in [Keys -> Values \cup {Absent}] /\ op[w] = "QUERY"
      /\ Item(w).id \in Keys /\ op[w] \in Operations
      /\ store[Item(w).id] # Absent /\ deleted' = deleted
  BY <1>1, InOperation DEF SessionInv, PlaceInv, SeenInv, Get
<1> DEFINE k == Item(w).id
<1>3. CASE Return(w, 200, store[k]) /\ store' = store
  <2>1. OnlyThrows' /\ SessionsSeen' = SessionsSeen /\ Map!Tell(w, "ok", store[k])
    BY <1>1, <1>2, <1>3, ReturnMaps, Verdicts
  <2>2. Map!Query(w, k)
    BY <1>1, <1>2, <2>1 DEF Map!Query
  <2>. QED BY <1>2, <2>2
<1>4. CASE Return(w, UnknownError(op[w]), NoData) /\ store' = store
  BY <1>1, <1>2, <1>4, FailMaps, Verdicts
<1>. QED BY <1>2, <1>3, <1>4 DEF Get, ReadFails, OnlyThrows

-----------------------------------------------------------------------------
(* The specification                                                       *)

LEMMA FaultsKept ==
    ASSUME SessionInv, [SessionNext]_sessionVars
    PROVE  faults' = faults
<1>1. CASE UNCHANGED sessionVars
  BY <1>1 DEF sessionVars, cacheVars
<1>2. CASE SessionNext
  <2>1. PICK w \in Workers : \/ ReceiveSession(w) \/ LockSession(w)
                             \/ NoMoreItems(w) \/ BadItem(w) \/ Exists(w)
                             \/ Del(w) \/ Set(w) \/ Get(w)
    BY <1>2 DEF SessionNext
  <2>2. Die => faults' = faults
    BY DEF Die
  <2>3. ASSUME NEW code, NEW data PROVE Return(w, code, data) => faults' = faults
    BY DEF Return
  <2>4. ASSUME NEW s, NEW n PROVE Continue(w, s, n) => faults' = faults
    BY DEF Continue
  <2>5. CASE ReceiveSession(w) \/ LockSession(w)
    BY <2>5 DEF ReceiveSession, Receive, LockSession, Lock
  <2>6. CASE NoMoreItems(w) \/ BadItem(w)
    BY <2>2, <2>3, <2>6 DEF NoMoreItems, BadItem, Unknown
  <2>7. CASE Exists(w)
    BY <2>2, <2>3, <2>4, <2>7 DEF Exists, Found, NotFound, ReadFails
  <2>8. CASE Del(w)
    <3>1. op[w] \in {"ADD", "DELETE", "UPDATE"}
      BY <2>8 DEF Del, SessionInv, PlaceInv
    <3>2. CASE Deleted(w)
      <4>1. Return(w, 200, NoData) => faults' = faults
        BY <2>3
      <4>2. Unknown(w) => faults' = faults
        BY <2>3 DEF Unknown
      <4>3. Continue(w, "set", pos[w]) => faults' = faults
        BY <2>4
      <4>. QED BY <3>1, <3>2, <4>1, <4>2, <4>3 DEF Deleted
    <3>. QED BY <2>3, <2>8, <3>2 DEF Del, Write
  <2>9. CASE Set(w)
    BY <2>3, <2>4, <2>9 DEF Set, Write, AfterSet
  <2>10. CASE Get(w)
    BY <2>2, <2>3, <2>10 DEF Get, ReadFails
  <2>. QED BY <2>1, <2>5, <2>6, <2>7, <2>8, <2>9, <2>10
<1>. QED BY <1>1, <1>2

LEMMA StepMaps ==
    ASSUME SessionInv, [SessionNext]_sessionVars
    PROVE  [Map!MapNext]_(Map!mapVars)
<1>1. CASE ~OnlyThrows
  <2>1. faults' = faults
    BY FaultsKept
  <2>2. ~OnlyThrows'
    BY <1>1, <2>1 DEF OnlyThrows
  <2>. QED BY <1>1, <2>2 DEF Map!mapVars
<1>2. CASE OnlyThrows /\ SessionNext
  <2>1. PICK w \in Workers : \/ ReceiveSession(w) \/ LockSession(w)
                             \/ NoMoreItems(w) \/ BadItem(w) \/ Exists(w)
                             \/ Del(w) \/ Set(w) \/ Get(w)
    BY <1>2 DEF SessionNext
  <2>. SUFFICES \/ UNCHANGED Map!mapVars
                \/ Map!Ask(w) \/ Map!Succeed(w) \/ Map!Fail(w)
                \/ \E k \in Keys :
                     \/ \E v \in Values : Map!Create(w, k, v) \/ Map!Replace(w, k, v)
                     \/ Map!Remove(w, k) \/ Map!Lose(w, k) \/ Map!Query(w, k)
                     \/ Map!RefuseMissing(w, k) \/ Map!RefuseExisting(w, k)
    BY DEF Map!MapNext
  <2>. QED BY <1>2, <2>1, ReceiveMaps, LockMaps, LoopEndMaps, BadItemMaps, ExistsMaps,
              DelMaps, SetMaps, GetMaps
<1>3. CASE OnlyThrows /\ UNCHANGED sessionVars
  <2>1. UNCHANGED <<store, deleted, step, op, batch, pos, answer, faults>>
    BY <1>3 DEF sessionVars, cacheVars
  <2>2. UNCHANGED <<SessionsSeen, Told>> /\ OnlyThrows'
    BY <1>3, <2>1, ToldKept, SeenKept DEF Pending, Item, OnlyThrows
  <2>. QED BY <1>3, <2>1, <2>2, MapReads
<1>. QED BY <1>1, <1>2, <1>3

LEMMA InitMaps == SessionInit => Map!MapInit
<1>. SUFFICES ASSUME SessionInit PROVE Map!MapInit
  OBVIOUS
<1>1. Pending = {} /\ SessionsSeen = [k \in Keys |-> Absent]
  BY DEF SessionInit, CacheInit, Pending, SessionsSeen
<1>2. \A w \in Workers : ToldClient(w) = <<"none", Absent>>
  <2>. SUFFICES ASSUME NEW w \in Workers PROVE ToldClient(w) = <<"none", Absent>>
    OBVIOUS
  <2>1. answer[w] = NoAnswer
    BY DEF SessionInit, CacheInit
  <2>. QED BY <2>1, ToldIs, Verdicts DEF NoAnswer
<1>3. op = [w \in Workers |-> "none"]
  BY DEF SessionInit, CacheInit
<1>. QED BY <1>1, <1>2, <1>3 DEF Map!MapInit

\* The operations are atomic on each session, as the clients of SessionMap are
\* promised: whatever throws, a session is lost only with an error told.
THEOREM SessionsImplementMap == SessionSpec => ImplementsSessionMap
<1>1. SessionInit => Map!MapInit
  BY InitMaps
<1>2. SessionInv /\ [SessionNext]_sessionVars => [Map!MapNext]_(Map!mapVars)
  BY StepMaps
<1>. QED BY <1>1, <1>2, SessionInvariant, PTL DEF SessionSpec, ImplementsSessionMap, Map!MapSpec
=============================================================================
