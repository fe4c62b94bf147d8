----------------------------- MODULE Registries -----------------------------
(***************************************************************************)
(* The registries through which services, clients, stages, caches and hooks *)
(* are found by key, filled by decorators when modules are imported, and   *)
(* threads that look keys up at the same time: the first lookup of a key   *)
(* that is missing imports the modules.                                    *)
(*                                                                         *)
(* Importing is Python's: a module is imported once, a second thread waits *)
(* for it, and one that raises is forgotten and may be tried again.  A key *)
(* is written in lower case here.                                          *)
(***************************************************************************)
EXTENDS Naturals, Sequences, FiniteSets

CONSTANTS
    Threads,
    Provides,     \* [module -> keys its classes register, in order]
    Order,        \* the modules, in the order they are imported
    Broken,       \* modules that raise when they are imported
    Keys,         \* keys that are looked up
    MaxLookups    \* bound: lookups

\* The walk through the package meets every module.
RegistryAssumption ==
    /\ 0 \notin Threads /\ Keys \subseteq STRING \ {""}
    /\ \A m \in DOMAIN Provides : Provides[m] \in Seq(STRING) /\ m # "missing"
    /\ Order \in Seq(DOMAIN Provides)
    /\ \A m \in DOMAIN Provides : \E i \in 1 .. Len(Order) : Order[i] = m

VARIABLES
    items,        \* [key -> module whose class is registered]
    loaded,       \* _registry_loaded
    modules,      \* [module -> "new", "done", or thread and keys left]
    thread,       \* [Threads -> [at, via, key, next, answer]]
    lookups,
    raced         \* history: threads that gave up while another was importing

rgVars == <<items, loaded, modules, thread, lookups, raced>>

Modules == DOMAIN Provides
New == [at |-> "new", by |-> 0, left |-> <<>>]
Done == [at |-> "done", by |-> 0, left |-> <<>>]
Idle == [at |-> "idle", via |-> "class", key |-> "", next |-> 1, answer |-> "none"]

\* A lookup comes from get_class or invoke ("class") or from the service
\* factory, which walks through the whole package when the key is missing.
Lookup(t, via, k) ==
    /\ thread[t].at = "idle" /\ lookups < MaxLookups
    /\ lookups' = lookups + 1
    /\ thread' = [thread EXCEPT ![t] = [Idle EXCEPT !.at = "look", !.via = via, !.key = k]]
    /\ UNCHANGED <<items, loaded, modules, raced>>

Finish(t, answer) == thread' = [thread EXCEPT ![t].at = "idle", ![t].answer = answer]

Found(k) == k \in DOMAIN items

Look(t) ==
    /\ thread[t].at = "look" /\ Found(thread[t].key)
    /\ Finish(t, items[thread[t].key])
    /\ UNCHANGED <<items, loaded, modules, lookups, raced>>

\* The mark is set before anything is imported.
EnsureLoaded(t) ==
    /\ thread[t].at = "look" /\ ~Found(thread[t].key) /\ ~loaded
    /\ loaded' = TRUE
    /\ thread' = [thread EXCEPT ![t].at = "load", ![t].next = 1]
    /\ UNCHANGED <<items, modules, lookups, raced>>

\* load_package_modules imports what is not imported yet.
WalkPackage(t) ==
    /\ thread[t].at = "look" /\ ~Found(thread[t].key) /\ loaded /\ thread[t].via = "factory"
    /\ thread' = [thread EXCEPT ![t].at = "load", ![t].next = 1, ![t].via = "walked"]
    /\ UNCHANGED <<items, loaded, modules, lookups, raced>>

\* The thread has imported everything, or sees the mark of another: KeyError, ServiceNotFound.
Missing(t) ==
    /\ thread[t].at = "look" /\ ~Found(thread[t].key) /\ loaded /\ thread[t].via # "factory"
    /\ Finish(t, "missing")
    /\ raced' = IF thread[t].via = "class" /\ \E u \in Threads : thread[u].at = "load" THEN raced \cup {t} ELSE raced \ {t}
    /\ UNCHANGED <<items, loaded, modules, lookups>>

-----------------------------------------------------------------------------
Turn(t, m) == thread[t].at = "load" /\ thread[t].next <= Len(Order) /\ Order[thread[t].next] = m

Import(t, m) ==
    /\ Turn(t, m) /\ modules[m].at = "new"
    /\ modules' = [modules EXCEPT ![m] = [at |-> "importing", by |-> t, left |-> Provides[m]]]
    /\ UNCHANGED <<items, loaded, thread, lookups, raced>>

AlreadyDone(t, m) ==
    /\ Turn(t, m) /\ modules[m].at = "done"
    /\ thread' = [thread EXCEPT ![t].next = @ + 1]
    /\ UNCHANGED <<items, loaded, modules, lookups, raced>>

\* Defect: a module that cannot be imported ends the walk.
AllOver(n) == Len(Order) + 1

\* load_package_modules warns, and goes on with the next module.
AfterFailure(n) == n + 1

\* register_item raises if the key is taken, which ends the import of the
\* module.
RegisterItem(m) ==
    LET me == modules[m]
        fails == me.left # <<>> /\ Found(Head(me.left))
    IN /\ me.at = "importing"
       /\ IF fails \/ me.left = <<>>
          THEN /\ modules' = [modules EXCEPT ![m] = IF fails \/ m \in Broken THEN New ELSE Done]
               /\ thread' = [thread EXCEPT ![me.by].next = IF fails \/ m \in Broken THEN AfterFailure(@) ELSE @ + 1]
               /\ UNCHANGED items
          ELSE /\ items' = [j \in DOMAIN items \cup {Head(me.left)} |->
                             IF j \in DOMAIN items THEN items[j] ELSE m]
               /\ modules' = [modules EXCEPT ![m].left = Tail(@)]
               /\ UNCHANGED thread
       /\ UNCHANGED <<loaded, lookups, raced>>

EndLoad(t) ==
    /\ thread[t].at = "load" /\ thread[t].next > Len(Order)
    /\ thread' = [thread EXCEPT ![t].at = "look",
                                ![t].via = IF @ = "factory" THEN "factory" ELSE "walked"]
    /\ UNCHANGED <<items, loaded, modules, lookups, raced>>

Init ==
    /\ items = <<>> /\ loaded = FALSE
    /\ modules = [m \in Modules |-> New]
    /\ thread = [t \in Threads |-> Idle]
    /\ lookups = 0 /\ raced = {}

Next ==
    \/ \E t \in Threads :
         \/ \E via \in {"class", "factory"}, k \in Keys : Lookup(t, via, k)
         \/ Look(t) \/ EnsureLoaded(t) \/ WalkPackage(t) \/ Missing(t) \/ EndLoad(t)
         \/ \E m \in Modules : Import(t, m) \/ AlreadyDone(t, m)
    \/ \E m \in Modules : RegisterItem(m)

-----------------------------------------------------------------------------
Offers(m) == {Provides[m][i] : i \in DOMAIN Provides[m]}

\* Keys that some module registers before anything in it can go wrong.
Certain == {k \in Keys : \E m \in Modules :
              Len(Provides[m]) > 0 /\ Provides[m][1] = k}

\* A lookup answers with a class that registers that key; through the factory
\* it always finds a key that can be registered, also while another thread is
\* still importing; get_class and invoke miss it only in that case.
LookupsFind ==
    \A t \in Threads : thread[t].at = "idle" /\ thread[t].key # "" =>
       LET a == thread[t].answer IN
       /\ a # "missing" => thread[t].key \in Offers(a)
       /\ a = "missing" /\ thread[t].key \in Certain => t \in raced
=============================================================================
