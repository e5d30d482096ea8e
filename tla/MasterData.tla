----------------------------- MODULE MasterData -----------------------------
(***************************************************************************)
(* The master data operations of redis_source.hpp (areas, languages, ship  *)
(* vias, the GENERAL_ operations and user roles).  A record is the redis   *)
(* hash {KV_MF}:title:id with the whole item as its only field; all keys   *)
(* are in one slot.  The operations come in five shapes, two of which      *)
(* exist for areas only:                                                   *)
(*   CREATE          write every item, replacing what is there             *)
(*   LIST_KEYS       read the items asked for, skip those not there        *)
(*   LIST_KEYWORDS   read all records of the title, found with "keys"      *)
(*   DELETE_KEYS, DELETE_KEYWORDS   the same for deleting                  *)
(* While an operator moves the slot to another node, commands on a key     *)
(* follow the redirections; "keys" has no key to be redirected by, and the *)
(* slot map of Cluster never changes: the old node answers it.             *)
(***************************************************************************)
EXTENDS CacheOperation

CONSTANTS Titles, AreaTitle, Ids, NoId,
          SlotMoves     \* TRUE if the slot may be moved to another node

\* What a request may say of a record.
MasterItems == [id : Ids \cup {NoId}, value : Values]

ASSUME MasterAssumption == /\ Keys = Titles \X Ids
                           /\ AreaTitle \in Titles
                           /\ SlotMoves \in BOOLEAN
                           /\ Batches \subseteq Seq(MasterItems)
                           /\ NoId \notin Ids

VARIABLES title,    \* the title of each worker's request
          listed,   \* retchidren: the records read; keyall: the keys deleted
          found,    \* the keys of the "keys" reply still to come
          moving,   \* the slot is being moved, or has been
          atNew     \* the keys the new node holds

localVars == <<title, listed, found>>
nodeVars == <<moving, atNew>>
masterVars == <<cacheVars, localVars, nodeVars>>

Operations == {"CREATE", "LIST_KEYS", "LIST_KEYWORDS",
               "DELETE_KEYS", "DELETE_KEYWORDS"}
ByKeywords == {"LIST_KEYWORDS", "DELETE_KEYWORDS"}
Deletes == {"DELETE_KEYS", "DELETE_KEYWORDS"}

\* BATCH_CREATE_AREAS_UNKNOWN_ERROR, UNKNOWN_ERROR
UnknownError(w) ==
    IF op[w] = "CREATE" /\ title[w] = AreaTitle THEN -8080 ELSE -8085
Unknown(w) == Return(w, UnknownError(w), NoData)

Key(w) == <<title[w], Item(w).id>>
NextItem(w) == Continue(w, "item", pos[w] + 1)

\* Locals are gone when the function has returned.
Locals(w, l, f) ==
    LET Local(v) == IF step'[w] = "idle" THEN {} ELSE v
    IN  /\ listed' = [listed EXCEPT ![w] = Local(l)]
        /\ found' = [found EXCEPT ![w] = Local(f)]
        /\ UNCHANGED title
SameLocals(w) == Locals(w, listed[w], found[w])

\* A key that the old node does not hold is written to the new one.
Place ==
    /\ atNew' = {k \in Keys : /\ store'[k] # Absent
                              /\ k \in atNew \/ (moving /\ store[k] = Absent)}
    /\ UNCHANGED moving

MasterInit ==
    /\ CacheInit
    /\ title = [w \in Workers |-> AreaTitle]
    /\ listed = [w \in Workers |-> {}]
    /\ found = [w \in Workers |-> {}]
    /\ moving = FALSE /\ atNew = {}

ReceiveMaster(w) ==
    /\ \E o \in Operations, t \in Titles, b \in Batches \cup {<<>>} :
        /\ o \in Deletes => t = AreaTitle
        /\ o \in ByKeywords => b = <<>>
        /\ Receive(w, o, b)
        /\ title' = [title EXCEPT ![w] = t]
    /\ UNCHANGED <<listed, found, nodeVars>>

LockMaster(w) == Lock(w) /\ UNCHANGED <<localVars, nodeVars>>

\* What the list holds is the answer; deleting nothing is an error.
Answer(w) ==
    CASE op[w] = "CREATE" -> Return(w, 200, NoData)
      [] op[w] \in Deletes /\ listed[w] = {} -> Unknown(w)
      [] OTHER -> Return(w, 200, listed[w])

AtItem(w) == step[w] = "item" /\ op[w] \notin ByKeywords

NoMoreItems(w) ==
    /\ AtItem(w) /\ ~More(w)
    /\ Answer(w) /\ UNCHANGED <<store, nodeVars>> /\ SameLocals(w)

BadItem(w) ==
    /\ AtItem(w) /\ More(w) /\ Item(w).id = NoId
    /\ Unknown(w) /\ UNCHANGED <<store, nodeVars>> /\ SameLocals(w)

\* Variant: a record that is there already is left as it is.
AfterExistsKeeps(w, there) ==
    CASE there /\ op[w] = "LIST_KEYS"  -> Continue(w, "hget", pos[w])
      [] there /\ op[w] = "CREATE"     -> NextItem(w)
      [] there /\ op[w] = "DELETE_KEYS" -> Continue(w, "del", pos[w])
      [] ~there /\ op[w] = "CREATE"    -> Continue(w, "hset", pos[w])
      [] ~there /\ op[w] # "CREATE"    -> NextItem(w)

AfterExists(w, there) ==
    CASE there /\ op[w] = "LIST_KEYS" -> Continue(w, "hget", pos[w])
      [] there /\ op[w] # "LIST_KEYS" -> Continue(w, "del", pos[w])
      [] ~there /\ op[w] = "CREATE"   -> Continue(w, "hset", pos[w])
      [] ~there /\ op[w] # "CREATE"   -> NextItem(w)

Exists(w) ==
    /\ AtItem(w) /\ More(w) /\ Item(w).id # NoId
    /\ \/ /\ \E there \in ExistsReplies(Key(w)) : AfterExists(w, there)
          /\ UNCHANGED store
       \/ ReadFails(w, UnknownError(w))
    /\ UNCHANGED nodeVars /\ SameLocals(w)

\* Variant: keyall is appended to, but the command is not sent.
DelForgotten(w) ==
    /\ step[w] = "del"
    /\ IF op[w] = "CREATE" THEN Continue(w, "hset", pos[w]) ELSE NextItem(w)
    /\ UNCHANGED store /\ Place
    /\ Locals(w, listed[w] \cup {Key(w)}, {})

Del(w) ==
    /\ step[w] = "del"
    /\ Write(w, Key(w), Absent,
             IF op[w] = "CREATE" THEN Continue(w, "hset", pos[w])
                                 ELSE NextItem(w),
             UnknownError(w))
    /\ Place
    /\ Locals(w, IF op[w] = "CREATE" THEN {} ELSE listed[w] \cup {Key(w)}, {})

\* Variant: the iterator moves on twice.
HSetSkips(w) ==
    /\ step[w] = "hset"
    /\ Write(w, Key(w), Item(w).value, Continue(w, "item", pos[w] + 2),
             UnknownError(w))
    /\ Place /\ SameLocals(w)

HSet(w) ==
    /\ step[w] = "hset"
    /\ Write(w, Key(w), Item(w).value, NextItem(w), UnknownError(w))
    /\ Place /\ SameLocals(w)

\* The string of a nil reply: LIST_AREAS_BY_KEYS and all BY_KEYWORDS throw,
\* the others skip the record.  The text of an error is parsed as JSON.
NilReply(w) ==
    IF title[w] = AreaTitle \/ op[w] \in ByKeywords THEN Unknown(w)
                                                    ELSE NextItem(w)
Record(k) == IF store[k] = Absent THEN {} ELSE {<<k, store[k]>>}

Replies(k) == {Record(k)} \cup
    IF "stale" \in faults THEN {{}} \cup {{<<k, v>>} : v \in Values} ELSE {}

Read(w, record, Next) ==
    /\ \/ record # {} /\ Next
       \/ record = {} /\ NilReply(w)
       \/ /\ faults \cap {"error", "stale"} # {}
          /\ Return(w, JSON_READ_OR_WRITE_ERROR, NoData)
    /\ UNCHANGED store

HGet(w) ==
    /\ step[w] = "hget"
    /\ \E r \in Replies(Key(w)) :
        /\ \/ Read(w, r, NextItem(w))
           \/ ReadFails(w, UnknownError(w))
        /\ Locals(w, listed[w] \cup r, {})
    /\ UNCHANGED nodeVars

\* "exists" on the pattern; its reply is not looked at.
ExistsPattern(w) ==
    /\ step[w] = "item" /\ op[w] \in ByKeywords
    /\ \/ Continue(w, "keys", pos[w]) /\ UNCHANGED store
       \/ ReadFails(w, UnknownError(w))
    /\ UNCHANGED nodeVars /\ SameLocals(w)

KeysAtOldNode(t) == {k \in Keys : k[1] = t /\ store[k] # Absent /\ k \notin atNew}

\* Any reply but an array is taken for an empty one.
FindKeys(w) ==
    /\ step[w] = "keys"
    /\ \/ /\ Continue(w, "each", pos[w]) /\ UNCHANGED store
          /\ \/ Locals(w, {}, KeysAtOldNode(title[w]))
             \/ faults \cap {"error", "stale"} # {} /\ Locals(w, {}, {})
       \/ ReadFails(w, UnknownError(w)) /\ SameLocals(w)
    /\ UNCHANGED nodeVars

NoMoreKeys(w) ==
    /\ step[w] = "each" /\ found[w] = {}
    /\ Answer(w) /\ UNCHANGED <<store, nodeVars>> /\ SameLocals(w)

ListKey(w) ==
    /\ step[w] = "each" /\ op[w] = "LIST_KEYWORDS"
    /\ \E k \in found[w] : \E r \in Replies(k) :
        /\ \/ Read(w, r, Continue(w, "each", pos[w]))
           \/ ReadFails(w, UnknownError(w))
        /\ Locals(w, listed[w] \cup r, found[w] \ {k})
    /\ UNCHANGED nodeVars

DeleteKey(w) ==
    /\ step[w] = "each" /\ op[w] = "DELETE_KEYWORDS"
    /\ \E k \in found[w] :
        /\ Write(w, k, Absent, Continue(w, "each", pos[w]), UnknownError(w))
        /\ Locals(w, listed[w] \cup {k}, found[w] \ {k})
    /\ Place

\* The operator of the redis cluster moves the slot, key by key.
StartMoving ==
    /\ SlotMoves /\ ~moving
    /\ moving' = TRUE
    /\ UNCHANGED <<cacheVars, localVars, atNew>>

MoveKey(k) ==
    /\ moving /\ store[k] # Absent /\ k \notin atNew
    /\ atNew' = atNew \cup {k}
    /\ UNCHANGED <<cacheVars, localVars, moving>>

MasterNext ==
    /\ ~crashed
    /\ \/ \E w \in Workers :
            \/ ReceiveMaster(w) \/ LockMaster(w)
            \/ NoMoreItems(w) \/ BadItem(w) \/ Exists(w)
            \/ Del(w) \/ HSet(w) \/ HGet(w)
            \/ ExistsPattern(w) \/ FindKeys(w)
            \/ NoMoreKeys(w) \/ ListKey(w) \/ DeleteKey(w)
       \/ StartMoving
       \/ \E k \in Keys : MoveKey(k)

MasterSpec == MasterInit /\ [][MasterNext]_masterVars
-----------------------------------------------------------------------------
\* Types; an item is looked at only if there is one, and the new node holds
\* only records that are there.
MasterTypeOK ==
    /\ store \in [Keys -> Values \cup {Absent}]
    /\ lockRedis \in Workers \cup {NoWorker}
    /\ step \in [Workers -> {"idle", "waiting", "item", "del", "hset",
                             "hget", "keys", "each"}]
    /\ op \in [Workers -> Operations \cup {"none"}]
    /\ title \in [Workers -> Titles]
    /\ \A w \in Workers : pos[w] \in 1 .. Len(batch[w]) + 1
    /\ \A w \in Workers : step[w] \in {"del", "hset", "hget"} => More(w)
    /\ \A w \in Workers : listed[w] \subseteq Keys \cup (Keys \X Values)
    /\ found \in [Workers -> SUBSET Keys]
    /\ atNew \subseteq {k \in Keys : store[k] # Absent}
    /\ crashed \in BOOLEAN

Succeeds(w) == answer'[w].code = 200 /\ answer[w].code # 200
Asked(w) == {<<title[w], batch[w][i].id>> : i \in 1 .. Len(batch[w])}

\* A list by keys holds exactly the requested records as they are at the
\* moment of the answer: none that another worker has half replaced or
\* deleted in the meantime, and none lost to a slot that is being moved.
KeyListExact ==
    [][\A w \in Workers : (Succeeds(w) /\ OnlyThrows /\ op[w] = "LIST_KEYS") =>
         answer'[w].data = UNION {Record(k) : k \in Asked(w)}]_masterVars

\* A batch that is answered 200 is there as a whole, the last item of every
\* id, although every item is deleted and written in separate commands.
CreatedIsStored ==
    [][\A w \in Workers : (Succeeds(w) /\ OnlyThrows /\ op[w] = "CREATE") =>
         \A i \in 1 .. Len(batch[w]) :
            LET b == batch[w] IN
            (\A j \in i + 1 .. Len(b) : b[j].id # b[i].id)
               => store'[<<title[w], b[i].id>>] = b[i].value]_masterVars

\* DELETE_AREAS_BY_KEYS answers 200 only if it has deleted something, and
\* then none of the areas of the request is left.
DeletedIsGone ==
    [][\A w \in Workers : (Succeeds(w) /\ OnlyThrows /\ op[w] = "DELETE_KEYS") =>
         /\ answer'[w].data # {} /\ answer'[w].data \subseteq Asked(w)
         /\ \A k \in Asked(w) : store'[k] = Absent]_masterVars

\* The BY_KEYWORDS operations lose nothing but what has moved: a list has
\* every record of the title that is still at the old node, and nothing but
\* present values; after a deletion only records of the new node are left.
KeywordsReachUnmoved ==
    [][\A w \in Workers : (Succeeds(w) /\ OnlyThrows /\ op[w] \in ByKeywords) =>
         LET all == {k \in Keys : k[1] = title[w] /\ store'[k] # Absent} IN
         IF op[w] = "DELETE_KEYWORDS"
         THEN all \subseteq atNew'
         ELSE /\ {<<k, store'[k]>> : k \in all \ atNew'} \subseteq answer'[w].data
              /\ answer'[w].data \subseteq {<<k, store'[k]>> : k \in all}
      ]_masterVars

\* "this command turns to the node that holds the key": the BY_KEYWORDS
\* operations reach all records of their title, also those that have moved.
KeywordsReachAll ==
    [][\A w \in Workers : (Succeeds(w) /\ OnlyThrows /\ op[w] \in ByKeywords) =>
         LET all == {k \in Keys : k[1] = title[w] /\ store'[k] # Absent} IN
         IF op[w] = "DELETE_KEYWORDS"
         THEN all = {}
         ELSE answer'[w].data = {<<k, store'[k]>> : k \in all}]_masterVars

\* Whatever fails and wherever the slot is: a record changes only in the
\* hands of the owner of lockRedis, and in a request for its own title.
OneTitleAtATime ==
    [][\A k \in Keys : store'[k] # store[k] =>
         \E w \in Workers : /\ lockRedis = w
                            /\ title[w] = k[1]
                            /\ op[w] \in {"CREATE"} \cup Deletes]_masterVars
=============================================================================
