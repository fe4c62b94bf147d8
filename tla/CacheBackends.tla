--------------------------- MODULE CacheBackends ---------------------------
(***************************************************************************)
(* The three caches behind the one interface Cache: a dict, a diskcache    *)
(* directory and a redis database.  Handles with different namespaces      *)
(* share a directory or a database (a dict has one handle), and so do      *)
(* processes; where a method needs two requests, others come between them. *)
(*                                                                         *)
(* A key is a sequence of parts, a namespace is a first part.  A time to   *)
(* live is "none", "running" or "over"; values are not serialised here.    *)
(***************************************************************************)
EXTENDS Naturals, Sequences, FiniteSets

CONSTANTS
    Handles,    \* namespaces of the handles, "" for none
    UserKeys,   \* keys callers pass
    Values

\* A key has a first part, and what is left of a key without it may be a key
\* as well.
CacheAssumption ==
    /\ Handles \subseteq STRING /\ UserKeys \subseteq Seq(STRING) \ {<<>>}
    /\ \A k \in UserKeys : Len(k) > 1 => Tail(k) \in UserKeys

VARIABLES
    back,       \* "memory", "disk" or "redis"
    open,       \* handles on the store
    store,      \* [stored names -> entry or Absent]
    busy,       \* a method between two of its requests, or Idle
    last        \* the last request: [op, by, key, name, value, reply, before];
                \* value is the entry to write, or the names a clear has to remove

caVars == <<back, open, store, busy, last>>

\* Defect: keys are used as they are passed.
AsPassed(h, key) == key

\* startswith(_prefix)
Own(h, name) == h = "" \/ (Len(name) > 1 /\ Head(name) = h)

\* _prefixed: a key that starts with the namespace is left alone.
Prefixed(h, key) == IF Own(h, key) THEN key ELSE <<h>> \o key

\* _unprefixed, of a name of the handle
Unprefixed(h, name) == IF h = "" THEN name ELSE Tail(name)

Names == UserKeys \cup UNION {{Prefixed(h, k) : k \in UserKeys} : h \in Handles}
OwnNames(h) == {n \in Names : Own(h, n)}

Absent == [value |-> 0, ttl |-> "absent"]
Entry(value, ttl) == [value |-> value, ttl |-> ttl]
Live(entry) == entry.ttl \in {"none", "running"}
Idle == [op |-> "none", by |-> "", names |-> {}, value |-> 0, owed |-> {}]
Begun(op, h, names, value, owed) ==
    [op |-> op, by |-> h, names |-> names, value |-> value, owed |-> owed]
Default == 0

\* What "in" sees: a dict does not look at the expiry.
Contains(name) ==
    IF back = "memory" THEN store[name] # Absent ELSE Live(store[name])

\* _clean_expired, which three methods of the dict call first.
Cleaned ==
    IF back = "memory" THEN [n \in Names |-> IF Live(store[n]) THEN store[n] ELSE Absent]
    ELSE store

\* Nothing has been answered since the last change.
NoRequest ==
    [op |-> "none", by |-> "", key |-> <<>>, name |-> <<>>, value |-> 0, reply |-> 0, before |-> <<>>]

Request(op, h, key, name, value, reply) ==
    last' = [op |-> op, by |-> h, key |-> key, name |-> name, value |-> value, reply |-> reply,
             before |-> store]

Done(op, h, key, name, value, reply) ==
    Request(op, h, key, name, value, reply) /\ UNCHANGED <<back, open, busy>>

\* A clear that is under way does not owe what is written meanwhile.
Written(op, h, key, name, value, reply) ==
    /\ Request(op, h, key, name, value, reply)
    /\ busy' = [busy EXCEPT !.owed = @ \ {name}]
    /\ UNCHANGED <<back, open>>

-----------------------------------------------------------------------------
\* The key of redis.get is not prefixed.
Get(h, key) ==
    LET name == IF back = "redis" THEN key ELSE Prefixed(h, key) IN
    /\ store' = Cleaned
    /\ Done("get", h, key, Prefixed(h, key), 0,
            IF Live(store[name]) THEN store[name].value ELSE Default)

Set(h, key, value, ttl) ==
    LET name == Prefixed(h, key) IN
    /\ store' = [store EXCEPT ![name] = Entry(value, ttl)]
    /\ Written("set", h, <<>>, name, Entry(value, ttl), TRUE)

Pop(h, key) ==
    LET name == Prefixed(h, key) IN
    /\ store' = [store EXCEPT ![name] = Absent]
    /\ Done("pop", h, <<>>, name, 0, IF Live(store[name]) THEN store[name].value ELSE Default)

\* Redis does not look at the answer of SET NX.
Add(h, key, value, ttl) ==
    LET name == Prefixed(h, key) IN
    /\ store' = IF Contains(name) THEN store ELSE [store EXCEPT ![name] = Entry(value, ttl)]
    /\ Written("add", h, <<>>, name, Entry(value, ttl), back = "redis" \/ ~Contains(name))

Exists(h, key) ==
    LET name == Prefixed(h, key) IN
    /\ store' = Cleaned
    /\ Done("exists", h, <<>>, name, 0, Live(store[name]))

\* The dict and redis replace in one request; redis does not look at its
\* answer.  The directory is asked first, and the entry that is written has no
\* time to live.
Replace(h, key, value, ttl) ==
    LET name == Prefixed(h, key) IN
    IF back = "disk" /\ Contains(name)
    THEN /\ busy = Idle
         /\ busy' = Begun("replace", h, {name}, Entry(value, ttl), {})
         /\ last' = NoRequest /\ UNCHANGED <<back, open, store>>
    ELSE /\ store' = IF Contains(name) THEN [store EXCEPT ![name] = Entry(value, ttl)] ELSE store
         /\ Written("replace", h, <<>>, name, Entry(value, ttl), back = "redis" \/ Contains(name))

Delete(h, key) ==
    LET name == Prefixed(h, key) IN
    IF back = "disk" /\ Contains(name)
    THEN /\ busy = Idle
         /\ busy' = Begun("delete", h, {name}, 0, {})
         /\ last' = NoRequest /\ UNCHANGED <<back, open, store>>
    ELSE /\ store' = IF back = "disk" THEN store ELSE [store EXCEPT ![name] = Absent]
         /\ Done("delete", h, <<>>, name, 0, Contains(name))

\* iterkeys of the directory fails on its first key (str() of a str with an
\* encoding) and the error ends the iteration.
Listed(h) == IF back = "disk" THEN {} ELSE {n \in OwnNames(h) : Live(store[n])}

Iterkeys(h) ==
    /\ store' = Cleaned
    /\ Done("iterkeys", h, <<>>, <<>>, 0, Cardinality(Listed(h)))

\* len of a directory counts what has expired, and every namespace.
Size(h) ==
    /\ store' = Cleaned
    /\ Done("size", h, <<>>, <<>>, 0,
            IF back = "disk" THEN Cardinality({n \in Names : store[n] # Absent})
            ELSE Cardinality({n \in OwnNames(h) : Live(store[n])}))

\* Without a namespace the store is emptied, with one keys are listed and
\* then deleted one at a time (a dict does so in one go).
Clear(h) ==
    LET alive == {n \in OwnNames(h) : Live(store[n])} IN
    \/ /\ h = "" \/ back = "memory"
       /\ store' = [n \in Names |-> IF n \in OwnNames(h) THEN Absent ELSE store[n]]
       /\ Done("clear", h, <<>>, <<>>, alive, TRUE)
    \/ /\ h # "" /\ back # "memory" /\ busy = Idle
       /\ busy' = Begun("clear", h, Listed(h), 0, alive)
       /\ last' = NoRequest /\ UNCHANGED <<back, open, store>>

-----------------------------------------------------------------------------
(* The second request of a method *)

FinishReplace ==
    /\ busy.op = "replace"
    /\ \E n \in busy.names :
         /\ store' = [store EXCEPT ![n] = Entry(busy.value.value, "none")]
         /\ Request("replace", busy.by, <<>>, n, busy.value, TRUE)
    /\ busy' = Idle
    /\ UNCHANGED <<back, open>>

\* del raises if the key is gone by now, and False is returned.
FinishDelete ==
    /\ busy.op = "delete"
    /\ \E n \in busy.names :
         /\ store' = IF Contains(n) THEN [store EXCEPT ![n] = Absent] ELSE store
         /\ Request("delete", busy.by, <<>>, n, 0, Contains(n))
    /\ busy' = Idle
    /\ UNCHANGED <<back, open>>

\* The names were listed without the prefix, and get it back unless what is
\* left still begins with it.
ClearNext ==
    /\ busy.op = "clear"
    /\ IF busy.names = {}
       THEN /\ busy' = Idle /\ UNCHANGED store
            /\ Request("clear", busy.by, <<>>, <<>>, busy.owed, TRUE)
       ELSE \E listed \in busy.names :
              LET n == Prefixed(busy.by, Unprefixed(busy.by, listed)) IN
              /\ store' = [store EXCEPT ![n] = Absent]
              /\ busy' = [busy EXCEPT !.names = @ \ {listed}]
              /\ Request("delete", busy.by, <<>>, n, 0, Contains(n))
    /\ UNCHANGED <<back, open>>

\* A time to live runs out; redis drops the entry.
Expire(n) ==
    /\ store[n].ttl = "running"
    /\ store' = [store EXCEPT ![n] = IF back = "redis" THEN Absent ELSE [@ EXCEPT !.ttl = "over"]]
    /\ last' = NoRequest
    /\ UNCHANGED <<back, open, busy>>

Init ==
    /\ back \in {"memory", "disk", "redis"}
    /\ open \in IF back = "memory" THEN {{h} : h \in Handles} ELSE {Handles}
    /\ store = [n \in Names |-> Absent]
    /\ busy = Idle
    /\ last = NoRequest

Keyed(h, key) ==
    \/ Get(h, key) \/ Pop(h, key) \/ Exists(h, key) \/ Delete(h, key)
    \/ \E v \in Values, ttl \in {"none", "running"} :
         Set(h, key, v, ttl) \/ Add(h, key, v, ttl) \/ Replace(h, key, v, ttl)

Next ==
    \/ \E h \in open : Iterkeys(h) \/ Size(h) \/ Clear(h) \/ \E key \in UserKeys : Keyed(h, key)
    \/ FinishReplace \/ FinishDelete \/ ClearNext
    \/ \E n \in Names : Expire(n)

-----------------------------------------------------------------------------
\* What a request answers and what it leaves behind is what the interface says
\* of the keys that are alive, and no request through one namespace touches a
\* key of another, whatever happens between two requests of a method, but that
\*  - a dict takes an expired entry that nothing has swept yet for one that is
\*    there, in add, replace and delete;
\*  - redis reads without the namespace, reports every add and replace as
\*    done, and clears no key that repeats its namespace;
\*  - a directory lists nothing (its test of iterkeys says otherwise), so that
\*    with a namespace it clears nothing; it counts all namespaces and what has
\*    expired; and a replace that found the key stores the value for good,
\*    without its time to live, even if the key has gone meanwhile.
Interchangeable ==
    LET old == last.before
        n == last.name
        alive == Live(old[n])
        there == alive \/ (back = "memory" /\ old[n].ttl = "over")
        mine == {m \in OwnNames(last.by) : Live(old[m])}
        became(entry) == store[n] = entry
        answer(name) == IF Live(old[name]) THEN old[name].value ELSE Default
        missed(m) == \/ back = "disk" /\ last.by # ""
                     \/ back = "redis" /\ last.by # "" /\ Own(last.by, Tail(m))
    IN last.op # "none" =>
         /\ \A m \in Names \ (IF last.op = "clear" THEN OwnNames(last.by) ELSE {n}) :
               Live(old[m]) \/ Live(store[m]) => store[m] = old[m]
         /\ \A m \in Names \ OwnNames(last.by) : Live(old[m]) => store[m] = old[m]
         /\ CASE last.op = "get" -> last.reply = answer(IF back = "redis" THEN last.key ELSE n)
              [] last.op = "pop" -> last.reply = answer(n) /\ ~Live(store[n])
              [] last.op = "exists" -> last.reply = alive
              [] last.op = "set" -> became(last.value)
              [] last.op = "add" ->
                   /\ IF there THEN store[n] = old[n] ELSE became(last.value)
                   /\ last.reply = (back = "redis" \/ ~there)
              [] last.op = "replace" ->
                   IF back = "disk"
                   THEN IF last.reply THEN became(Entry(last.value.value, "none"))
                        ELSE ~alive /\ ~Live(store[n])
                   ELSE /\ IF there THEN became(last.value) ELSE ~Live(store[n])
                        /\ last.reply = (back = "redis" \/ there)
              [] last.op = "delete" -> ~Live(store[n]) /\ last.reply = there
              [] last.op = "size" ->
                   last.reply = Cardinality(IF back = "disk" THEN {m \in Names : old[m] # Absent} ELSE mine)
              [] last.op = "iterkeys" -> last.reply = IF back = "disk" THEN 0 ELSE Cardinality(mine)
              [] OTHER -> \A m \in last.value : Live(store[m]) => missed(m)
=============================================================================
