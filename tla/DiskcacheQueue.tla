--------------------------- MODULE DiskcacheQueue ---------------------------
(***************************************************************************)
(* The priority queue on disk.  A message lives under one key of the       *)
(* "task_queue" namespace; a pop moves it to an entry of the "processing"  *)
(* namespace under a fresh message id, an ack deletes that entry, a nack   *)
(* and the recovery of expired entries move it back under its old key.     *)
(* Only pop_by_key runs in a transaction: the other operations are         *)
(* sequences of single reads and writes of a store that several processes  *)
(* share, and a process may die between any two of them.                   *)
(*                                                                         *)
(* A key is unique per push, so a message is identified with its key; the  *)
(* n-th delivery of m has the id <<m, n>>.  Which key comes first does not *)
(* matter here: the order of the store is left open.                       *)
(*                                                                         *)
(* Source: libs/queue/priority/diskcache.py                                *)
(***************************************************************************)
EXTENDS Naturals

CONSTANTS
    Messages,       \* what is pushed
    Clients,        \* processes that share the store
    NoId,           \* no message, no key
    MaxDeliveries,  \* bound: deliveries of one message
    MaxCrashes,     \* bound: processes that die
    MayAge          \* messages that are left for seven days

Ids == Messages \X (1..MaxDeliveries)

ASSUME QueueAssumption ==
    /\ MaxDeliveries \in Nat \ {0} /\ MaxCrashes \in Nat
    /\ NoId \notin Messages \cup Ids /\ MayAge \subseteq Messages

VARIABLES
    queue,       \* keys of the task_queue namespace
    processing,  \* ids of the processing namespace
    expired,     \* ids whose visibility timeout has passed
    old,         \* messages enqueued, and ids started, more than 7 days ago
    deliveries,  \* history: deliveries of each message
    fate,        \* history: new, live, acked, cleaned, or lost in a crash
    pc,          \* next step of each client
    todo,        \* ids and keys a loop of the client has still to visit
    key,         \* queue key the client is about to pop
    hand,        \* id the client is acknowledging or carrying
    held,        \* ids the client has received and not settled
    crashes

store == <<queue, processing>>
clock == <<expired, old>>
history == <<deliveries, fate>>
local == <<pc, todo, key, hand, held>>
vars == <<queue, processing, expired, old, deliveries, fate, pc, todo, key, hand,
          held, crashes>>

Init ==
    /\ queue = {} /\ processing = {} /\ expired = {} /\ old = {}
    /\ deliveries = [m \in Messages |-> 0] /\ fate = [m \in Messages |-> "new"]
    /\ pc = [c \in Clients |-> "idle"] /\ todo = [c \in Clients |-> {}]
    /\ key = [c \in Clients |-> NoId] /\ hand = [c \in Clients |-> NoId]
    /\ held = [c \in Clients |-> {}] /\ crashes = 0

Go(c, from, to) == pc[c] = from /\ pc' = [pc EXCEPT ![c] = to]

push(c, m) ==
    /\ pc[c] = "idle" /\ fate[m] = "new"
    /\ queue' = queue \cup {m}
    /\ fate' = [fate EXCEPT ![m] = "live"]
    /\ UNCHANGED <<processing, clock, deliveries, local, crashes>>

(***************************************************************************)
(* pop: _recover_zombies, then the first key, then pop_by_key.  An entry   *)
(* is never changed, so what has expired is known when the loop starts.    *)
(***************************************************************************)
\* Defect: expired entries are not looked for.
PopStartNoRecovery(c) ==
    /\ Go(c, "idle", "recover")
    /\ todo' = [todo EXCEPT ![c] = {}]
    /\ UNCHANGED <<store, clock, history, key, hand, held, crashes>>

PopStart(c) ==
    /\ Go(c, "idle", "recover")
    /\ todo' = [todo EXCEPT ![c] = processing \cap expired]
    /\ UNCHANGED <<store, clock, history, key, hand, held, crashes>>

\* Defect: the entry that was read is put back, whether or not the pop found it.
RecoverPopBlind(c, e) ==
    /\ pc[c] = "recover" /\ e \in todo[c]
    /\ todo' = [todo EXCEPT ![c] = @ \ {e}]
    /\ processing' = processing \ {e}
    /\ hand' = [hand EXCEPT ![c] = e]
    /\ pc' = [pc EXCEPT ![c] = "put"]
    /\ UNCHANGED <<queue, clock, history, key, held, crashes>>

RecoverPop(c, e) ==
    /\ pc[c] = "recover" /\ e \in todo[c] /\ e \in processing
    /\ todo' = [todo EXCEPT ![c] = @ \ {e}]
    /\ processing' = processing \ {e}
    /\ hand' = [hand EXCEPT ![c] = e]
    /\ pc' = [pc EXCEPT ![c] = "put"]
    /\ UNCHANGED <<queue, clock, history, key, held, crashes>>

RecoverGone(c, e) ==
    /\ pc[c] = "recover" /\ e \in todo[c] /\ e \notin processing
    /\ todo' = [todo EXCEPT ![c] = @ \ {e}]
    /\ UNCHANGED <<store, clock, history, pc, key, hand, held, crashes>>

RecoverPut(c) ==
    /\ Go(c, "put", "recover")
    /\ queue' = queue \cup {hand[c][1]}
    /\ hand' = [hand EXCEPT ![c] = NoId]
    /\ UNCHANGED <<processing, clock, history, todo, key, held, crashes>>

FirstKey(c, m) ==
    /\ todo[c] = {} /\ m \in queue
    /\ Go(c, "recover", "take")
    /\ key' = [key EXCEPT ![c] = m]
    /\ UNCHANGED <<store, clock, history, todo, hand, held, crashes>>

Empty(c) ==
    /\ todo[c] = {} /\ queue = {}
    /\ Go(c, "recover", "idle")
    /\ UNCHANGED <<store, clock, history, todo, key, hand, held, crashes>>

\* A key that an earlier scan with items or peek has shown.
ScannedKey(c, m) ==
    /\ fate[m] # "new"
    /\ Go(c, "idle", "take")
    /\ key' = [key EXCEPT ![c] = m]
    /\ UNCHANGED <<store, clock, history, todo, hand, held, crashes>>

pop_by_key(c) ==
    LET m == key[c]
        e == <<m, deliveries[m] + 1>> IN
    /\ m \in queue
    /\ Go(c, "take", "idle")
    /\ queue' = queue \ {m} /\ processing' = processing \cup {e}
    /\ deliveries' = [deliveries EXCEPT ![m] = @ + 1]
    /\ held' = [held EXCEPT ![c] = @ \cup {e}]
    /\ key' = [key EXCEPT ![c] = NoId]
    /\ UNCHANGED <<clock, fate, todo, hand, crashes>>

KeyGone(c) ==
    /\ key[c] \notin queue
    /\ Go(c, "take", "idle")
    /\ key' = [key EXCEPT ![c] = NoId]
    /\ UNCHANGED <<store, clock, history, todo, hand, held, crashes>>

(***************************************************************************)
(* ack and nack first ask whether the entry is there, then pop it.         *)
(***************************************************************************)
Settle(c, e, to) ==
    /\ e \in held[c] /\ e \in processing
    /\ Go(c, "idle", to)
    /\ hand' = [hand EXCEPT ![c] = e]
    /\ UNCHANGED <<store, clock, history, todo, key, held, crashes>>

\* The last delivery that the bound allows is not given back.
ack(c, e) == Settle(c, e, "ack")
nack(c, e) == e[2] < MaxDeliveries /\ Settle(c, e, "nack")

\* "Unknown msg_id"
Unknown(c, e) ==
    /\ pc[c] = "idle" /\ e \in held[c] /\ e \notin processing
    /\ held' = [held EXCEPT ![c] = @ \ {e}]
    /\ UNCHANGED <<store, clock, history, pc, todo, key, hand, crashes>>

AckPop(c) ==
    /\ Go(c, "ack", "idle")
    /\ processing' = processing \ {hand[c]}
    /\ fate' = IF hand[c] \in processing
               THEN [fate EXCEPT ![hand[c][1]] = "acked"] ELSE fate
    /\ held' = [held EXCEPT ![c] = @ \ {hand[c]}]
    /\ hand' = [hand EXCEPT ![c] = NoId]
    /\ UNCHANGED <<queue, clock, deliveries, todo, key, crashes>>

\* Defect: the message is put back although the pop has not found it.
NackPopBlind(c) ==
    /\ Go(c, "nack", "put_back")
    /\ processing' = processing \ {hand[c]}
    /\ held' = [held EXCEPT ![c] = @ \ {hand[c]}]
    /\ UNCHANGED <<queue, clock, history, todo, key, hand, crashes>>

NackPop(c) ==
    /\ hand[c] \in processing
    /\ Go(c, "nack", "put_back")
    /\ processing' = processing \ {hand[c]}
    /\ held' = [held EXCEPT ![c] = @ \ {hand[c]}]
    /\ UNCHANGED <<queue, clock, history, todo, key, hand, crashes>>

NackGone(c) ==
    /\ hand[c] \notin processing
    /\ Go(c, "nack", "idle")
    /\ held' = [held EXCEPT ![c] = @ \ {hand[c]}]
    /\ hand' = [hand EXCEPT ![c] = NoId]
    /\ UNCHANGED <<store, clock, history, todo, key, crashes>>

NackPut(c) ==
    /\ Go(c, "put_back", "idle")
    /\ queue' = queue \cup {hand[c][1]}
    /\ hand' = [hand EXCEPT ![c] = NoId]
    /\ UNCHANGED <<processing, clock, history, todo, key, held, crashes>>

(***************************************************************************)
(* cleanup: the old keys of each namespace are collected, then deleted.    *)
(***************************************************************************)
CleanQueue(c) ==
    /\ Go(c, "idle", "clean_queue")
    /\ todo' = [todo EXCEPT ![c] = queue \cap old]
    /\ UNCHANGED <<store, clock, history, key, hand, held, crashes>>

CleanQueuePop(c, m) ==
    /\ pc[c] = "clean_queue" /\ m \in todo[c]
    /\ todo' = [todo EXCEPT ![c] = @ \ {m}]
    /\ queue' = queue \ {m}
    /\ fate' = IF m \in queue THEN [fate EXCEPT ![m] = "cleaned"] ELSE fate
    /\ UNCHANGED <<processing, clock, deliveries, pc, key, hand, held, crashes>>

CleanProcessing(c) ==
    /\ todo[c] = {}
    /\ Go(c, "clean_queue", "clean_processing")
    /\ todo' = [todo EXCEPT ![c] = processing \cap old]
    /\ UNCHANGED <<store, clock, history, key, hand, held, crashes>>

CleanProcessingPop(c, e) ==
    /\ pc[c] = "clean_processing" /\ e \in todo[c]
    /\ todo' = [todo EXCEPT ![c] = @ \ {e}]
    /\ processing' = processing \ {e}
    /\ fate' = IF e \in processing THEN [fate EXCEPT ![e[1]] = "cleaned"] ELSE fate
    /\ UNCHANGED <<queue, clock, deliveries, pc, key, hand, held, crashes>>

CleanEnd(c) ==
    /\ todo[c] = {}
    /\ Go(c, "clean_processing", "idle")
    /\ UNCHANGED <<store, clock, history, todo, key, hand, held, crashes>>

(***************************************************************************)
(* Time passes, and processes die.                                         *)
(***************************************************************************)
Expire(e) ==
    /\ e \in processing \ expired /\ e[2] < MaxDeliveries
    /\ expired' = expired \cup {e}
    /\ UNCHANGED <<store, old, history, local, crashes>>

Age(m) ==
    /\ m \in MayAge \ old /\ fate[m] # "new"
    /\ old' = old \cup {m}
    /\ UNCHANGED <<store, expired, history, local, crashes>>

AgeEntry(e) ==
    /\ e \in (processing \cap expired) \ old /\ e[1] \in old
    /\ old' = old \cup {e}
    /\ UNCHANGED <<store, expired, history, local, crashes>>

Carrying == {"put", "put_back"}

\* What a client has popped and not written back is lost with it.
Crash(c) ==
    /\ crashes < MaxCrashes
    /\ pc[c] # "idle" \/ held[c] # {}
    /\ fate' = IF pc[c] \in Carrying THEN [fate EXCEPT ![hand[c][1]] = "lost"] ELSE fate
    /\ pc' = [pc EXCEPT ![c] = "idle"] /\ todo' = [todo EXCEPT ![c] = {}]
    /\ hand' = [hand EXCEPT ![c] = NoId] /\ held' = [held EXCEPT ![c] = {}]
    /\ key' = [key EXCEPT ![c] = NoId]
    /\ crashes' = crashes + 1
    /\ UNCHANGED <<store, clock, deliveries>>

-----------------------------------------------------------------------------
Pop(c) ==
    \/ RecoverPut(c) \/ Empty(c) \/ pop_by_key(c) \/ KeyGone(c)
    \/ \E e \in Ids : RecoverPop(c, e) \/ RecoverGone(c, e)
    \/ \E m \in Messages : FirstKey(c, m)

Settling(c) == AckPop(c) \/ NackPop(c) \/ NackGone(c) \/ NackPut(c)

Cleaning(c) ==
    \/ CleanProcessing(c) \/ CleanEnd(c)
    \/ \E m \in Messages : CleanQueuePop(c, m)
    \/ \E e \in Ids : CleanProcessingPop(c, e)

Request(c) ==
    \/ PopStart(c) \/ CleanQueue(c)
    \/ \E m \in Messages : push(c, m) \/ ScannedKey(c, m)
    \/ \E e \in Ids : ack(c, e) \/ nack(c, e) \/ Unknown(c, e)

Time == (\E e \in Ids : Expire(e) \/ AgeEntry(e)) \/ (\E m \in Messages : Age(m))

Next ==
    \/ \E c \in Clients : Request(c) \/ Pop(c) \/ Settling(c) \/ Cleaning(c) \/ Crash(c)
    \/ Time

Spec == Init /\ [][Next]_vars

\* An operation that has begun goes on.  Nobody has to begin one.
FairSpec ==
    /\ Spec
    /\ \A c \in Clients : WF_vars(Pop(c) \/ Settling(c) \/ Cleaning(c))

-----------------------------------------------------------------------------
Fates == {"new", "live", "acked", "cleaned", "lost"}
Points ==
    {"idle", "recover", "put", "take", "ack", "nack", "put_back", "clean_queue",
     "clean_processing"}

\* Only a client that settles or carries a message has one in hand.
TypeOK ==
    /\ queue \subseteq Messages /\ processing \subseteq Ids /\ expired \subseteq Ids
    /\ old \subseteq Messages \cup Ids
    /\ deliveries \in [Messages -> Nat] /\ fate \in [Messages -> Fates]
    /\ pc \in [Clients -> Points] /\ todo \in [Clients -> SUBSET (Messages \cup Ids)]
    /\ key \in [Clients -> Messages \cup {NoId}] /\ hand \in [Clients -> Ids \cup {NoId}]
    /\ held \in [Clients -> SUBSET Ids] /\ crashes \in Nat
    /\ \A c \in Clients :
          /\ hand[c] # NoId <=> pc[c] \in {"put", "ack", "nack", "put_back"}
          /\ key[c] # NoId <=> pc[c] = "take"

Carries(c, m) == pc[c] \in Carrying /\ hand[c][1] = m
InFlight(m) == \E e \in processing : e[1] = m
Carried(m) == \E c \in Clients : Carries(c, m)

\* A message that was pushed and neither acknowledged, cleaned up nor lost
\* in the hand of a dead process is stored once: under its key, under one
\* message id, or in the hand of one process that is moving it.  No race of
\* recovery, ack, nack and cleanup stores it twice or forgets it.
OneCopy ==
    \A m \in Messages :
        /\ fate[m] = "live" <=> m \in queue \/ InFlight(m) \/ Carried(m)
        /\ m \in queue => ~InFlight(m) /\ ~Carried(m)
        /\ InFlight(m) => ~Carried(m)
        /\ \A e, f \in processing : e[1] = m /\ f[1] = m => e = f
        /\ \A c, d \in Clients : Carries(c, m) /\ Carries(d, m) => c = d

\* A message that ack has removed is never delivered again, and a message
\* that is gone stays gone.
AckFinal ==
    [][\A m \in Messages :
          fate[m] \in {"acked", "cleaned", "lost"} =>
              fate'[m] = fate[m] /\ deliveries'[m] = deliveries[m]]_vars

\* If some client calls pop again and again, a message whose visibility timeout
\* has passed comes back to the queue or is settled after all: also when the
\* client that had received it is dead, and whatever the others do.  (The engine
\* takes its messages by key and never calls pop: there the premise fails, and
\* an expired delivery stays where it is.)
Redelivered ==
    \A c \in Clients :
        []<>(pc[c] = "recover") =>
            \A e \in Ids : e \in processing /\ e \in expired ~> e \notin processing
=============================================================================
