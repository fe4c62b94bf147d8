------------------------ MODULE DiskcacheQueueProofs ------------------------
(***************************************************************************)
(* Proofs about DiskcacheQueue, for any set of messages and clients and    *)
(* any number of deliveries, crashes and aged messages: a live message is  *)
(* stored exactly once, and one that is gone is never delivered again.     *)
(***************************************************************************)
EXTENDS DiskcacheQueue, TLAPS

(***************************************************************************)
(* The inductive invariant.  That the store holds one copy is what makes   *)
(* the number of an id in processing the number of deliveries: a message   *)
(* in the queue or in a hand can be delivered once more, within the bound. *)
(***************************************************************************)
Numbered ==
    /\ \A m \in queue : deliveries[m] < MaxDeliveries
    /\ \A m \in Messages : fate[m] = "new" => deliveries[m] = 0
    /\ \A e \in processing : e[2] = deliveries[e[1]]
    /\ \A e \in expired : e[2] < MaxDeliveries
    /\ \A c \in Clients :
          /\ pc[c] \in Carrying =>
                hand[c][2] = deliveries[hand[c][1]] /\ hand[c][2] < MaxDeliveries
          /\ pc[c] = "nack" => hand[c][2] < MaxDeliveries
          /\ pc[c] \in {"recover", "put"} => todo[c] \subseteq expired

QueueInv == TypeOK /\ OneCopy /\ Numbered

\* The two halves of an id.
LEMMA IdParts ==
    ASSUME NEW e \in Ids
    PROVE  e[1] \in Messages /\ e[2] \in Nat /\ e[2] \in 1..MaxDeliveries /\ e # NoId
  BY QueueAssumption DEF Ids

\* A client that has a message in hand has an id in hand.
LEMMA HandIsId ==
    ASSUME TypeOK, NEW c \in Clients, pc[c] \in {"put", "ack", "nack", "put_back"}
    PROVE  hand[c] \in Ids /\ hand[c][1] \in Messages /\ hand[c][2] \in Nat
<1>1. hand[c] \in Ids
  BY DEF TypeOK
<1> QED BY <1>1, IdParts

\* The type of the local variables after a step of one client.
LocalOK ==
    /\ pc \in [Clients -> Points] /\ todo \in [Clients -> SUBSET (Messages \cup Ids)]
    /\ key \in [Clients -> Messages \cup {NoId}] /\ hand \in [Clients -> Ids \cup {NoId}]
    /\ held \in [Clients -> SUBSET Ids] /\ crashes \in Nat
    /\ \A c \in Clients :
          /\ hand[c] # NoId <=> pc[c] \in {"put", "ack", "nack", "put_back"}
          /\ key[c] # NoId <=> pc[c] = "take"

StoreOK ==
    /\ queue \subseteq Messages /\ processing \subseteq Ids /\ expired \subseteq Ids
    /\ old \subseteq Messages \cup Ids
    /\ deliveries \in [Messages -> Nat] /\ fate \in [Messages -> Fates]

LEMMA TypeParts == TypeOK <=> StoreOK /\ LocalOK
  BY DEF TypeOK, StoreOK, LocalOK

\* Every step keeps the types of the local variables.
LEMMA LocalType ==
    ASSUME QueueInv, Next
    PROVE  LocalOK'
<1>0. LocalOK /\ StoreOK /\ NoId \notin Messages /\ NoId \notin Ids
  BY TypeParts, QueueAssumption DEF QueueInv
<1> USE <1>0 DEF LocalOK, StoreOK, Points, Go, local
<1>1. ASSUME NEW c \in Clients, Request(c) PROVE LocalOK'
  <2>1. CASE PopStart(c) \/ CleanQueue(c)
    BY <2>1 DEF PopStart, CleanQueue
  <2>2. ASSUME NEW m \in Messages, push(c, m) PROVE LocalOK'
    BY <2>2 DEF push
  <2>3. ASSUME NEW m \in Messages, ScannedKey(c, m) PROVE LocalOK'
    BY <2>3 DEF ScannedKey
  <2>4. ASSUME NEW e \in Ids, ack(c, e) \/ nack(c, e) PROVE LocalOK'
    BY <2>4 DEF ack, nack, Settle
  <2>5. ASSUME NEW e \in Ids, Unknown(c, e) PROVE LocalOK'
    BY <2>5 DEF Unknown
  <2> HIDE DEF LocalOK
  <2> QED BY <1>1, <2>1, <2>2, <2>3, <2>4, <2>5 DEF Request
<1>2. ASSUME NEW c \in Clients, Pop(c) PROVE LocalOK'
  <2>1. CASE RecoverPut(c)
    BY <2>1 DEF RecoverPut
  <2>2. CASE Empty(c) \/ KeyGone(c)
    BY <2>2 DEF Empty, KeyGone
  <2>3. CASE pop_by_key(c)
    <3>1. key[c] \in Messages /\ deliveries[key[c]] + 1 \in 1..MaxDeliveries
      BY <2>3, QueueAssumption DEF pop_by_key, QueueInv, Numbered
    <3>2. <<key[c], deliveries[key[c]] + 1>> \in Ids
      BY <3>1 DEF Ids
    <3> QED BY <2>3, <3>2 DEF pop_by_key
  <2>4. ASSUME NEW e \in Ids, RecoverPop(c, e) PROVE LocalOK'
    BY <2>4 DEF RecoverPop
  <2>5. ASSUME NEW e \in Ids, RecoverGone(c, e) PROVE LocalOK'
    BY <2>5 DEF RecoverGone
  <2>6. ASSUME NEW m \in Messages, FirstKey(c, m) PROVE LocalOK'
    BY <2>6 DEF FirstKey
  <2> HIDE DEF LocalOK
  <2> QED BY <1>2, <2>1, <2>2, <2>3, <2>4, <2>5, <2>6 DEF Pop
<1>3. ASSUME NEW c \in Clients, Settling(c) PROVE LocalOK'
  <2>1. CASE AckPop(c)
    BY <2>1 DEF AckPop
  <2>2. CASE NackPop(c)
    BY <2>2 DEF NackPop
  <2>3. CASE NackGone(c) \/ NackPut(c)
    BY <2>3 DEF NackGone, NackPut
  <2> HIDE DEF LocalOK
  <2> QED BY <1>3, <2>1, <2>2, <2>3 DEF Settling
<1>4. ASSUME NEW c \in Clients, Cleaning(c) PROVE LocalOK'
  <2>1. CASE CleanProcessing(c) \/ CleanEnd(c)
    BY <2>1 DEF CleanProcessing, CleanEnd
  <2>2. ASSUME NEW m \in Messages, CleanQueuePop(c, m) PROVE LocalOK'
    BY <2>2 DEF CleanQueuePop
  <2>3. ASSUME NEW e \in Ids, CleanProcessingPop(c, e) PROVE LocalOK'
    BY <2>3 DEF CleanProcessingPop
  <2> HIDE DEF LocalOK
  <2> QED BY <1>4, <2>1, <2>2, <2>3 DEF Cleaning
<1>5. ASSUME NEW c \in Clients, Crash(c) PROVE LocalOK'
  BY <1>5 DEF Crash
<1>6. CASE Time
  BY <1>6 DEF Time, Expire, AgeEntry, Age
<1> HIDE DEF LocalOK
<1> QED BY <1>1, <1>2, <1>3, <1>4, <1>5, <1>6 DEF Next

\* Every step keeps the types of the store and of the history.
LEMMA StoreType ==
    ASSUME QueueInv, Next
    PROVE  StoreOK'
<1>0. StoreOK /\ LocalOK /\ TypeOK
  BY TypeParts DEF QueueInv
<1> USE <1>0 DEF StoreOK, Fates, store, clock, history
<1>1. ASSUME NEW c \in Clients, Request(c) PROVE StoreOK'
  BY <1>1 DEF Request, PopStart, CleanQueue, push, ScannedKey, ack, nack, Settle, Unknown
<1>2. ASSUME NEW c \in Clients, Pop(c) PROVE StoreOK'
  <2>1. CASE RecoverPut(c)
    <3>1. hand[c][1] \in Messages
      BY <2>1, HandIsId DEF RecoverPut, Go
    <3> QED BY <2>1, <3>1 DEF RecoverPut
  <2>2. CASE pop_by_key(c)
    <3>1. key[c] \in Messages /\ deliveries[key[c]] + 1 \in 1..MaxDeliveries
      BY <2>2, QueueAssumption DEF pop_by_key, QueueInv, Numbered
    <3>2. <<key[c], deliveries[key[c]] + 1>> \in Ids
      BY <3>1 DEF Ids
    <3> QED BY <2>2, <3>1, <3>2 DEF pop_by_key
  <2>3. CASE ~RecoverPut(c) /\ ~pop_by_key(c)
    BY <1>2, <2>3 DEF Pop, Empty, KeyGone, RecoverPop, RecoverGone, FirstKey
  <2> QED BY <2>1, <2>2, <2>3
<1>3. ASSUME NEW c \in Clients, Settling(c) PROVE StoreOK'
  <2>1. hand[c][1] \in Messages
    BY <1>3, HandIsId DEF Settling, AckPop, NackPop, NackGone, NackPut, Go
  <2> QED BY <1>3, <2>1 DEF Settling, AckPop, NackPop, NackGone, NackPut
<1>4. ASSUME NEW c \in Clients, Cleaning(c) PROVE StoreOK'
  <2>1. ASSUME NEW e \in Ids, CleanProcessingPop(c, e) PROVE StoreOK'
    BY <2>1, IdParts DEF CleanProcessingPop
  <2>2. ASSUME NEW m \in Messages, CleanQueuePop(c, m) PROVE StoreOK'
    BY <2>2 DEF CleanQueuePop
  <2>3. CASE CleanProcessing(c) \/ CleanEnd(c)
    BY <2>3 DEF CleanProcessing, CleanEnd
  <2> HIDE DEF StoreOK
  <2> QED BY <1>4, <2>1, <2>2, <2>3 DEF Cleaning
<1>5. ASSUME NEW c \in Clients, Crash(c) PROVE StoreOK'
  BY <1>5 DEF Crash
<1>6. CASE Time
  BY <1>6 DEF Time, Expire, AgeEntry, Age
<1> HIDE DEF StoreOK
<1> QED BY <1>1, <1>2, <1>3, <1>4, <1>5, <1>6 DEF Next

(***************************************************************************)
(* One copy, message by message: a step moves or removes one message and   *)
(* leaves the others where they are.                                       *)
(***************************************************************************)
CopyOf(m) ==
    /\ fate[m] = "live" <=> m \in queue \/ InFlight(m) \/ Carried(m)
    /\ m \in queue => ~InFlight(m) /\ ~Carried(m)
    /\ InFlight(m) => ~Carried(m)
    /\ \A e, f \in processing : e[1] = m /\ f[1] = m => e = f
    /\ \A c, d \in Clients : Carries(c, m) /\ Carries(d, m) => c = d

LEMMA CopyByCopy == OneCopy <=> \A m \in Messages : CopyOf(m)
  BY DEF OneCopy, CopyOf

\* A message that the step leaves alone is still stored once.
Untouched(m) ==
    /\ fate'[m] = fate[m]
    /\ m \in queue' <=> m \in queue
    /\ \A e : e[1] = m => (e \in processing' <=> e \in processing)
    /\ \A c \in Clients : Carries(c, m)' <=> Carries(c, m)

LEMMA UntouchedCopy ==
    ASSUME NEW m \in Messages, CopyOf(m), Untouched(m)
    PROVE  CopyOf(m)'
<1>1. InFlight(m)' <=> InFlight(m)
  BY DEF Untouched, InFlight
<1>2. Carried(m)' <=> Carried(m)
  BY DEF Untouched, Carried
<1> QED BY <1>1, <1>2, Zenon DEF Untouched, CopyOf

\* Only the client that takes the step changes what it carries.
OnlyClient(c) == \A d \in Clients \ {c} : pc'[d] = pc[d] /\ hand'[d] = hand[d]

LEMMA OthersCarry ==
    ASSUME NEW c \in Clients, OnlyClient(c), NEW d \in Clients, d # c, NEW m
    PROVE  Carries(d, m)' <=> Carries(d, m)
  BY DEF OnlyClient, Carries

\* A step that neither moves a message nor takes one into the hand.
LEMMA QuietCopy ==
    ASSUME OneCopy, NEW c \in Clients, OnlyClient(c), UNCHANGED <<queue, processing, fate>>,
           pc[c] \notin Carrying, pc'[c] \notin Carrying
    PROVE  OneCopy'
<1>1. ASSUME NEW m \in Messages PROVE CopyOf(m)'
  <2>1. \A d \in Clients : Carries(d, m)' <=> Carries(d, m)
    BY OthersCarry DEF Carries, Carrying
  <2>2. Untouched(m)
    BY <2>1 DEF Untouched
  <2> QED BY <2>2, UntouchedCopy, CopyByCopy
<1> QED BY <1>1, CopyByCopy DEF OneCopy, CopyOf

\* What takes a message of the store into the hand of a client.
LEMMA PickUpCopy ==
    ASSUME OneCopy, processing \subseteq Ids, NEW c \in Clients, NEW e \in processing, OnlyClient(c),
           UNCHANGED <<queue, fate>>, processing' = processing \ {e},
           pc[c] \notin Carrying, pc'[c] \in Carrying, hand'[c] = e
    PROVE  OneCopy'
<1>0. e[1] \in Messages
  BY IdParts
<1>1. ASSUME NEW m \in Messages, m # e[1] PROVE CopyOf(m)'
  <2>1. \A d \in Clients : Carries(d, m)' <=> Carries(d, m)
    BY <1>1, OthersCarry DEF Carries, Carrying
  <2>2. Untouched(m)
    BY <1>1, <2>1 DEF Untouched
  <2> QED BY <2>2, UntouchedCopy, CopyByCopy
<1>2. CopyOf(e[1])'
  <2> DEFINE m == e[1]
  <2>1. CopyOf(m) /\ InFlight(m)
    BY <1>0, CopyByCopy DEF InFlight
  <2>2. m \notin queue /\ ~Carried(m) /\ fate[m] = "live"
    BY <2>1 DEF CopyOf
  <2>3. \A f \in processing' : f[1] # m
    BY <2>1 DEF CopyOf
  <2>4. Carries(c, m)' /\ \A d \in Clients \ {c} : ~Carries(d, m)'
    BY <2>2, OthersCarry DEF Carries, Carried
  <2> HIDE DEF m
  <2>5. CopyOf(m)'
    BY <2>2, <2>3, <2>4 DEF CopyOf, InFlight, Carried
  <2> QED BY <2>5 DEF m
<1> QED BY <1>1, <1>2, CopyByCopy DEF OneCopy, CopyOf

\* What puts the message of a hand under its key again.
LEMMA PutDownCopy ==
    ASSUME OneCopy, NEW c \in Clients, hand[c] \in Ids, OnlyClient(c),
           UNCHANGED <<processing, fate>>, queue' = queue \cup {hand[c][1]},
           pc[c] \in Carrying, pc'[c] \notin Carrying
    PROVE  OneCopy'
<1>0. PICK n \in Messages : n = hand[c][1]
  BY IdParts
<1>1. ASSUME NEW m \in Messages, m # n PROVE CopyOf(m)'
  <2>1. \A d \in Clients : Carries(d, m)' <=> Carries(d, m)
    BY <1>0, <1>1, OthersCarry DEF Carries, Carrying
  <2>2. Untouched(m)
    BY <1>0, <1>1, <2>1 DEF Untouched
  <2> QED BY <2>2, UntouchedCopy, CopyByCopy
<1>2. CopyOf(n)'
  <2>1. CopyOf(n) /\ Carries(c, n)
    BY <1>0, CopyByCopy DEF Carries
  <2>2. ~InFlight(n) /\ fate[n] = "live"
    BY <2>1 DEF CopyOf, Carried
  <2>3. \A d \in Clients : ~Carries(d, n)'
    <3>1. ~Carries(c, n)'
      BY DEF Carries
    <3>2. \A d \in Clients \ {c} : ~Carries(d, n)
      BY <2>1 DEF CopyOf
    <3> QED BY <3>1, <3>2, OthersCarry
  <2>4. n \in queue' /\ ~InFlight(n)' /\ fate'[n] = "live"
    BY <1>0, <2>2 DEF InFlight
  <2>5. \A f \in processing' : f[1] # n
    BY <2>4 DEF InFlight
  <2> QED BY <2>3, <2>4, <2>5 DEF CopyOf, Carried
<1> QED BY <1>1, <1>2, CopyByCopy DEF OneCopy, CopyOf

\* What removes the only copy of a message and records why.
LEMMA RemoveCopy ==
    ASSUME OneCopy, NEW c \in Clients, OnlyClient(c), NEW n \in Messages,
           NEW why \in {"acked", "cleaned", "lost"}, fate \in [Messages -> Fates],
           fate' = [fate EXCEPT ![n] = why],
           queue' = queue \ {n},
           \A e : e[1] # n => (e \in processing' <=> e \in processing),
           \A e \in processing' : e[1] # n,
           \A m \in Messages : m # n => (Carries(c, m)' <=> Carries(c, m)),
           ~Carried(n)'
    PROVE  OneCopy'
<1>1. ASSUME NEW m \in Messages, m # n PROVE CopyOf(m)'
  <2>1. \A d \in Clients : Carries(d, m)' <=> Carries(d, m)
    BY <1>1, OthersCarry
  <2>2. Untouched(m)
    BY <1>1, <2>1 DEF Untouched
  <2> QED BY <2>2, UntouchedCopy, CopyByCopy
<1>2. CopyOf(n)'
  BY DEF CopyOf, InFlight, Carried
<1> QED BY <1>1, <1>2, CopyByCopy DEF OneCopy, CopyOf

\* Every step keeps one copy of each live message.
LEMMA CopyStep ==
    ASSUME QueueInv, Next
    PROVE  OneCopy'
<1>0. TypeOK /\ OneCopy
  BY DEF QueueInv
<1>1. ASSUME NEW c \in Clients, Request(c) PROVE OneCopy'
  <2>1. ASSUME NEW m \in Messages, push(c, m) PROVE OneCopy'
    <3>1. \A d \in Clients, n \in Messages : Carries(d, n)' <=> Carries(d, n)
      BY <2>1 DEF push, local, Carries
    <3>2. \A n \in Messages : InFlight(n)' <=> InFlight(n)
      BY <2>1 DEF push, InFlight
    <3>3. \A n \in Messages : Carried(n)' <=> Carried(n)
      BY <3>1 DEF Carried
    <3>4. fate[m] = "new" /\ fate'[m] = "live" /\ \A n \in Messages \ {m} : fate'[n] = fate[n]
      BY <1>0, <2>1 DEF push, TypeOK
    <3>5. ASSUME NEW n \in Messages \ {m} PROVE CopyOf(n)'
      <4>1. Untouched(n)
        BY <2>1, <3>1, <3>4 DEF Untouched, push
      <4> QED BY <1>0, <4>1, UntouchedCopy, CopyByCopy
    <3>6. CopyOf(m)'
      <4>1. CopyOf(m)
        BY <1>0, CopyByCopy
      <4>2. m \notin queue /\ ~InFlight(m) /\ ~Carried(m)
        BY <3>4, <4>1 DEF CopyOf
      <4>3. m \in queue' /\ processing' = processing
        BY <2>1 DEF push
      <4> QED BY <3>1, <3>2, <3>3, <3>4, <4>1, <4>2, <4>3 DEF CopyOf
    <3> QED BY <3>5, <3>6, CopyByCopy DEF OneCopy, CopyOf
  <2>2. CASE ~\E m \in Messages : push(c, m)
    <3>1. UNCHANGED <<queue, processing, fate>> /\ pc[c] = "idle" /\ OnlyClient(c)
          /\ pc'[c] \notin Carrying
      BY <1>0, <1>1, <2>2 DEF Request, PopStart, CleanQueue, ScannedKey, ack, nack, Settle,
         Unknown, Go, store, history, OnlyClient, TypeOK, Carrying
    <3> QED BY <1>0, <3>1, QuietCopy DEF Carrying
  <2> QED BY <2>1, <2>2
<1>2. ASSUME NEW c \in Clients, Pop(c) PROVE OneCopy'
  <2>1. CASE RecoverPut(c)
    <3>1. hand[c] \in Ids
      BY <1>0, <2>1, HandIsId DEF RecoverPut, Go
    <3>2. OnlyClient(c) /\ pc[c] \in Carrying /\ pc'[c] \notin Carrying
      BY <1>0, <2>1 DEF RecoverPut, Go, OnlyClient, TypeOK, Carrying
    <3> QED BY <1>0, <2>1, <3>1, <3>2, PutDownCopy DEF RecoverPut, history
  <2>2. ASSUME NEW e \in Ids, RecoverPop(c, e) PROVE OneCopy'
    <3>1. OnlyClient(c) /\ pc[c] \notin Carrying /\ pc'[c] \in Carrying /\ hand'[c] = e
      BY <1>0, <2>2 DEF RecoverPop, OnlyClient, TypeOK, Carrying
    <3>2. processing \subseteq Ids /\ e \in processing
      BY <1>0, <2>2 DEF TypeOK, RecoverPop
    <3>3. UNCHANGED <<queue, fate>> /\ processing' = processing \ {e}
      BY <2>2 DEF RecoverPop, history
    <3> QED BY <1>0, <3>1, <3>2, <3>3, PickUpCopy
  <2>3. CASE pop_by_key(c)
    <3>1. PICK n \in Messages : n = key[c] /\ n \in queue
      BY <1>0, <2>3 DEF pop_by_key, TypeOK
    <3>2. PICK e : e = <<n, deliveries[n] + 1>>
      OBVIOUS
    <3>3. /\ queue' = queue \ {n} /\ processing' = processing \cup {e} /\ e[1] = n
          /\ UNCHANGED <<fate, hand>>
      BY <2>3, <3>1, <3>2 DEF pop_by_key
    <3>4. \A d \in Clients, m \in Messages : Carries(d, m)' <=> Carries(d, m)
      <4>1. OnlyClient(c) /\ pc[c] \notin Carrying /\ pc'[c] \notin Carrying
        BY <1>0, <2>3 DEF pop_by_key, Go, OnlyClient, TypeOK, Carrying
      <4> QED BY <4>1, OthersCarry DEF Carries, Carrying
    <3>5. ASSUME NEW m \in Messages \ {n} PROVE CopyOf(m)'
      <4>1. Untouched(m)
        BY <3>3, <3>4 DEF Untouched
      <4> QED BY <1>0, <4>1, UntouchedCopy, CopyByCopy
    <3>6. CopyOf(n)'
      <4>1. CopyOf(n)
        BY <1>0, CopyByCopy
      <4>2. fate'[n] = "live" /\ ~InFlight(n) /\ ~Carried(n)
        BY <3>1, <3>3, <4>1 DEF CopyOf
      <4>3. ~Carried(n)' /\ \A d \in Clients : ~Carries(d, n)'
        BY <3>4, <4>2 DEF Carried
      <4>4. \A f \in processing : f[1] # n
        BY <4>2 DEF InFlight
      <4>5. n \notin queue' /\ InFlight(n)' /\ \A f \in processing' : f[1] = n => f = e
        BY <3>3, <4>4 DEF InFlight
      <4> QED BY <4>2, <4>3, <4>5 DEF CopyOf
    <3> QED BY <3>5, <3>6, CopyByCopy DEF OneCopy, CopyOf
  <2>4. CASE Empty(c) \/ KeyGone(c) \/ (\E e \in Ids : RecoverGone(c, e))
              \/ (\E m \in Messages : FirstKey(c, m))
    <3>1. UNCHANGED <<queue, processing, fate>> /\ OnlyClient(c) /\ pc[c] \notin Carrying
          /\ pc'[c] \notin Carrying
      BY <1>0, <2>4 DEF Empty, KeyGone, RecoverGone, FirstKey, Go, store, history,
         OnlyClient, TypeOK, Carrying
    <3> QED BY <1>0, <3>1, QuietCopy
  <2> QED BY <1>2, <2>1, <2>2, <2>3, <2>4 DEF Pop
<1>3. ASSUME NEW c \in Clients, Settling(c) PROVE OneCopy'
  <2>0. hand[c] \in Ids /\ hand[c][1] \in Messages
    BY <1>0, <1>3, HandIsId DEF Settling, AckPop, NackPop, NackGone, NackPut, Go
  <2>1. CASE AckPop(c)
    <3>1. OnlyClient(c) /\ pc[c] \notin Carrying /\ pc'[c] \notin Carrying
      BY <1>0, <2>1 DEF AckPop, Go, OnlyClient, TypeOK, Carrying
    <3>2. CASE hand[c] \notin processing
      BY <1>0, <2>1, <3>1, <3>2, QuietCopy DEF AckPop
    <3>3. CASE hand[c] \in processing
      <4>1. PICK e \in processing, n \in Messages : e = hand[c] /\ n = e[1]
        BY <2>0, <3>3
      <4>2. /\ fate' = [fate EXCEPT ![n] = "acked"] /\ processing' = processing \ {e}
            /\ queue' = queue
        BY <2>1, <3>3, <4>1 DEF AckPop
      <4>3. CopyOf(n) /\ InFlight(n)
        BY <1>0, <4>1, CopyByCopy DEF InFlight
      <4>4. n \notin queue /\ ~Carried(n) /\ \A f \in processing' : f[1] # n
        BY <4>1, <4>2, <4>3 DEF CopyOf
      <4>5. \A d \in Clients, m \in Messages : Carries(d, m)' <=> Carries(d, m)
        BY <3>1, OthersCarry DEF Carries
      <4>6. ~Carried(n)'
        BY <4>4, <4>5 DEF Carried
      <4>7. queue' = queue \ {n} /\ fate \in [Messages -> Fates]
        BY <1>0, <4>2, <4>4 DEF TypeOK
      <4>8. \A f : f[1] # n => (f \in processing' <=> f \in processing)
        BY <4>1, <4>2
      <4> QED BY <1>0, <3>1, <4>2, <4>4, <4>5, <4>6, <4>7, <4>8, RemoveCopy
    <3> QED BY <3>2, <3>3
  <2>2. CASE NackPop(c)
    <3>1. OnlyClient(c) /\ pc[c] \notin Carrying /\ pc'[c] \in Carrying /\ hand'[c] = hand[c]
      BY <1>0, <2>2 DEF NackPop, Go, OnlyClient, TypeOK, Carrying
    <3>2. PICK e \in processing : e = hand[c]
      BY <2>2 DEF NackPop
    <3>3. UNCHANGED <<queue, fate>> /\ processing' = processing \ {e}
      BY <2>2, <3>2 DEF NackPop, history
    <3>4. processing \subseteq Ids
      BY <1>0 DEF TypeOK
    <3> QED BY <1>0, <3>1, <3>2, <3>3, <3>4, PickUpCopy
  <2>3. CASE NackGone(c)
    <3>1. UNCHANGED <<queue, processing, fate>> /\ OnlyClient(c) /\ pc[c] \notin Carrying
          /\ pc'[c] \notin Carrying
      BY <1>0, <2>3 DEF NackGone, Go, store, history, OnlyClient, TypeOK, Carrying
    <3> QED BY <1>0, <3>1, QuietCopy
  <2>4. CASE NackPut(c)
    <3>1. OnlyClient(c) /\ pc[c] \in Carrying /\ pc'[c] \notin Carrying
      BY <1>0, <2>4 DEF NackPut, Go, OnlyClient, TypeOK, Carrying
    <3> QED BY <1>0, <2>0, <2>4, <3>1, PutDownCopy DEF NackPut, history
  <2> QED BY <1>3, <2>1, <2>2, <2>3, <2>4 DEF Settling
<1>4. ASSUME NEW c \in Clients, Cleaning(c) PROVE OneCopy'
  <2>0. CASE CleanProcessing(c) \/ CleanEnd(c)
    <3>1. UNCHANGED <<queue, processing, fate>> /\ OnlyClient(c) /\ pc[c] \notin Carrying
          /\ pc'[c] \notin Carrying
      BY <1>0, <2>0 DEF CleanProcessing, CleanEnd, Go, store, history, OnlyClient, TypeOK,
         Carrying
    <3> QED BY <1>0, <3>1, QuietCopy
  <2>1. ASSUME NEW n \in Messages, CleanQueuePop(c, n) PROVE OneCopy'
    <3>1. OnlyClient(c) /\ pc[c] \notin Carrying /\ pc'[c] \notin Carrying /\ processing' = processing
      BY <1>0, <2>1 DEF CleanQueuePop, OnlyClient, TypeOK, Carrying
    <3>2. CASE n \notin queue
      BY <1>0, <2>1, <3>1, <3>2, QuietCopy DEF CleanQueuePop
    <3>3. CASE n \in queue
      <4>1. fate' = [fate EXCEPT ![n] = "cleaned"] /\ queue' = queue \ {n}
        BY <2>1, <3>3 DEF CleanQueuePop
      <4>2. ~InFlight(n) /\ ~Carried(n)
        BY <1>0, <3>3 DEF OneCopy
      <4>3. \A d \in Clients, m \in Messages : Carries(d, m)' <=> Carries(d, m)
        BY <3>1, OthersCarry DEF Carries
      <4>4. ~Carried(n)'
        BY <4>2, <4>3 DEF Carried
      <4>5. \A e \in processing' : e[1] # n
        BY <3>1, <4>2 DEF InFlight
      <4>6. fate \in [Messages -> Fates]
        BY <1>0 DEF TypeOK
      <4> QED BY <1>0, <3>1, <4>1, <4>3, <4>4, <4>5, <4>6, RemoveCopy
    <3> QED BY <3>2, <3>3
  <2>2. ASSUME NEW e \in Ids, CleanProcessingPop(c, e) PROVE OneCopy'
    <3>1. OnlyClient(c) /\ pc[c] \notin Carrying /\ pc'[c] \notin Carrying /\ queue' = queue
      BY <1>0, <2>2 DEF CleanProcessingPop, OnlyClient, TypeOK, Carrying
    <3>2. CASE e \notin processing
      BY <1>0, <2>2, <3>1, <3>2, QuietCopy DEF CleanProcessingPop
    <3>3. CASE e \in processing
      <4>1. PICK n \in Messages : n = e[1]
        BY IdParts
      <4>2. fate' = [fate EXCEPT ![n] = "cleaned"] /\ processing' = processing \ {e}
        BY <2>2, <3>3, <4>1 DEF CleanProcessingPop
      <4>3. CopyOf(n) /\ InFlight(n)
        BY <1>0, <3>3, <4>1, CopyByCopy DEF InFlight
      <4>4. n \notin queue /\ ~Carried(n) /\ \A f \in processing' : f[1] # n
        BY <3>3, <4>1, <4>2, <4>3 DEF CopyOf
      <4>5. \A d \in Clients, m \in Messages : Carries(d, m)' <=> Carries(d, m)
        BY <3>1, OthersCarry DEF Carries
      <4>6. ~Carried(n)'
        BY <4>4, <4>5 DEF Carried
      <4>7. queue' = queue \ {n} /\ fate \in [Messages -> Fates]
        BY <1>0, <3>1, <4>4 DEF TypeOK
      <4>8. \A f : f[1] # n => (f \in processing' <=> f \in processing)
        BY <4>1, <4>2
      <4> QED BY <1>0, <3>1, <4>2, <4>4, <4>5, <4>6, <4>7, <4>8, RemoveCopy
    <3> QED BY <3>2, <3>3
  <2> QED BY <1>4, <2>0, <2>1, <2>2 DEF Cleaning
<1>5. ASSUME NEW c \in Clients, Crash(c) PROVE OneCopy'
  <2>1. OnlyClient(c) /\ pc'[c] = "idle" /\ pc'[c] \notin Carrying /\ UNCHANGED <<queue, processing>>
    BY <1>0, <1>5 DEF Crash, OnlyClient, TypeOK, Carrying, store
  <2>2. CASE pc[c] \notin Carrying
    BY <1>0, <1>5, <2>1, <2>2, QuietCopy DEF Crash
  <2>3. CASE pc[c] \in Carrying
    <3>1. PICK n \in Messages : n = hand[c][1]
      BY <1>0, <2>3, HandIsId DEF Carrying
    <3>2. fate' = [fate EXCEPT ![n] = "lost"]
      BY <1>5, <2>3, <3>1 DEF Crash
    <3>3. CopyOf(n) /\ Carries(c, n)
      BY <1>0, <2>3, <3>1, CopyByCopy DEF Carries
    <3>4. n \notin queue /\ ~InFlight(n) /\ \A d \in Clients \ {c} : ~Carries(d, n)
      BY <3>3 DEF CopyOf, Carried
    <3>5. ~Carries(c, n)'
      BY <2>1 DEF Carries
    <3>6. ~Carried(n)'
      BY <2>1, <3>4, <3>5, OthersCarry DEF Carried
    <3>7. \A m \in Messages : m # n => (Carries(c, m)' <=> Carries(c, m))
      BY <2>1, <3>1 DEF Carries
    <3>8. \A e \in processing' : e[1] # n
      BY <2>1, <3>4 DEF InFlight
    <3>9. queue' = queue \ {n} /\ fate \in [Messages -> Fates]
      BY <1>0, <2>1, <3>4 DEF TypeOK
    <3> QED BY <1>0, <2>1, <3>2, <3>6, <3>7, <3>8, <3>9, RemoveCopy
  <2> QED BY <2>2, <2>3
<1>6. CASE Time
  <2>1. UNCHANGED <<queue, processing, fate, pc, hand>>
    BY <1>6 DEF Time, Expire, AgeEntry, Age, store, history, local
  <2> QED BY <1>0, <2>1 DEF OneCopy, InFlight, Carried, Carries
<1> QED BY <1>1, <1>2, <1>3, <1>4, <1>5, <1>6 DEF Next

\* A step that leaves the numbers alone: nobody takes up a message.
Calm ==
    /\ processing' \subseteq processing /\ deliveries' = deliveries
    /\ \A e \in expired' : e \in expired \/ e[2] < MaxDeliveries
    /\ \A m \in Messages : fate'[m] = "new" => fate[m] = "new"
    /\ \A d \in Clients :
          /\ pc'[d] \in Carrying \cup {"nack"} => pc'[d] = pc[d] /\ hand'[d] = hand[d]
          /\ pc'[d] \in {"recover", "put"} => todo'[d] \subseteq expired'

LEMMA CalmNumbered ==
    ASSUME Numbered, Calm, \A m \in queue' : m \in queue \/ deliveries[m] < MaxDeliveries
    PROVE  Numbered'
  BY DEF Numbered, Calm, Carrying

\* Every step keeps the number of an id the number of deliveries.
LEMMA NumberedStep ==
    ASSUME QueueInv, Next
    PROVE  Numbered'
<1>0. TypeOK /\ OneCopy /\ Numbered
  BY DEF QueueInv
<1>1. ASSUME NEW c \in Clients, Request(c) PROVE Numbered'
  <2>1. ASSUME NEW m \in Messages, push(c, m) PROVE Numbered'
    <3>1. Calm
      BY <1>0, <2>1 DEF push, local, clock, Calm, TypeOK, Numbered
    <3>2. deliveries[m] < MaxDeliveries /\ queue' = queue \cup {m}
      BY <1>0, <2>1, QueueAssumption DEF push, Numbered
    <3> QED BY <1>0, <3>1, <3>2, CalmNumbered
  <2>2. CASE PopStart(c) \/ CleanQueue(c)
    <3>1. Calm
      BY <1>0, <2>2 DEF PopStart, CleanQueue, Go, store, history, clock, Calm, TypeOK,
         Numbered, Carrying
    <3> QED BY <1>0, <2>2, <3>1, CalmNumbered DEF PopStart, CleanQueue, store
  <2>3. ASSUME NEW e \in Ids, ack(c, e) \/ Unknown(c, e) PROVE Numbered'
    <3>1. Calm
      BY <1>0, <2>3 DEF ack, Settle, Unknown, Go, store, history, clock, Calm, TypeOK,
         Numbered, Carrying
    <3> QED BY <1>0, <2>3, <3>1, CalmNumbered DEF ack, Settle, Unknown, store
  <2>4. ASSUME NEW m \in Messages, ScannedKey(c, m) PROVE Numbered'
    <3>1. Calm
      BY <1>0, <2>4 DEF ScannedKey, Go, store, history, clock, Calm, TypeOK, Numbered, Carrying
    <3> QED BY <1>0, <2>4, <3>1, CalmNumbered DEF ScannedKey, store
  <2>5. ASSUME NEW e \in Ids, nack(c, e) PROVE Numbered'
    <3>1. UNCHANGED <<queue, processing, fate, deliveries, expired, todo>>
      BY <2>5 DEF nack, Settle, store, history, clock
    <3>2. pc'[c] = "nack" /\ hand'[c] = e /\ e[2] < MaxDeliveries
      BY <1>0, <2>5 DEF nack, Settle, Go, TypeOK
    <3>3. \A d \in Clients \ {c} : pc'[d] = pc[d] /\ hand'[d] = hand[d]
      BY <1>0, <2>5 DEF nack, Settle, Go, TypeOK
    <3> QED BY <1>0, <3>1, <3>2, <3>3 DEF Numbered, Carrying
  <2> QED BY <1>1, <2>1, <2>2, <2>3, <2>4, <2>5 DEF Request
<1>2. ASSUME NEW c \in Clients, Pop(c) PROVE Numbered'
  <2>1. CASE RecoverPut(c)
    <3>1. deliveries[hand[c][1]] < MaxDeliveries
      BY <1>0, <2>1 DEF RecoverPut, Go, Numbered, Carrying
    <3>2. Calm
      BY <1>0, <2>1 DEF RecoverPut, Go, history, clock, Calm, TypeOK, Numbered, Carrying
    <3> QED BY <1>0, <2>1, <3>1, <3>2, CalmNumbered DEF RecoverPut
  <2>2. CASE Empty(c) \/ KeyGone(c)
    <3>1. Calm
      BY <1>0, <2>2 DEF Empty, KeyGone, Go, store, history, clock, Calm, TypeOK, Numbered, Carrying
    <3> QED BY <1>0, <2>2, <3>1, CalmNumbered DEF Empty, KeyGone, store
  <2>3. ASSUME NEW e \in Ids, RecoverGone(c, e) PROVE Numbered'
    <3>1. Calm
      BY <1>0, <2>3 DEF RecoverGone, store, history, clock, Calm, TypeOK, Numbered
    <3> QED BY <1>0, <2>3, <3>1, CalmNumbered DEF RecoverGone, store
  <2>4. ASSUME NEW m \in Messages, FirstKey(c, m) PROVE Numbered'
    <3>1. Calm
      BY <1>0, <2>4 DEF FirstKey, Go, store, history, clock, Calm, TypeOK, Numbered, Carrying
    <3> QED BY <1>0, <2>4, <3>1, CalmNumbered DEF FirstKey, store
  <2>5. ASSUME NEW e \in Ids, RecoverPop(c, e) PROVE Numbered'
    <3>1. e[2] < MaxDeliveries /\ e[2] = deliveries[e[1]]
      BY <1>0, <2>5 DEF RecoverPop, Numbered
    <3>2. UNCHANGED <<queue, fate, deliveries, expired>> /\ processing' \subseteq processing
      BY <2>5 DEF RecoverPop, history, clock
    <3>3. pc'[c] = "put" /\ hand'[c] = e /\ todo'[c] \subseteq expired
      BY <1>0, <2>5 DEF RecoverPop, TypeOK, Numbered
    <3>4. \A d \in Clients \ {c} : pc'[d] = pc[d] /\ hand'[d] = hand[d] /\ todo'[d] = todo[d]
      BY <1>0, <2>5 DEF RecoverPop, TypeOK
    <3> QED BY <1>0, <3>1, <3>2, <3>3, <3>4 DEF Numbered, Carrying
  <2>6. CASE pop_by_key(c)
    <3>1. PICK n \in Messages : n = key[c] /\ n \in queue
      BY <1>0, <2>6 DEF pop_by_key, TypeOK
    <3>2. PICK e : e = <<n, deliveries[n] + 1>>
      OBVIOUS
    <3>3. /\ queue' = queue \ {n} /\ processing' = processing \cup {e}
          /\ e[1] = n /\ e[2] = deliveries[n] + 1 /\ UNCHANGED <<fate, hand, todo, expired>>
          /\ deliveries' = [deliveries EXCEPT ![n] = @ + 1]
      BY <2>6, <3>1, <3>2 DEF pop_by_key, clock
    <3>4. deliveries'[n] = e[2] /\ \A m \in Messages \ {n} : deliveries'[m] = deliveries[m]
      BY <1>0, <3>3 DEF TypeOK
    <3>5. pc'[c] = "idle" /\ \A d \in Clients \ {c} : pc'[d] = pc[d]
      BY <1>0, <2>6 DEF pop_by_key, Go, TypeOK
    <3>6. fate[n] = "live" /\ (\A f \in processing : f[1] # n)
          /\ \A d \in Clients : pc[d] \in Carrying => hand[d][1] # n
      BY <1>0, <3>1 DEF OneCopy, InFlight, Carried, Carries
    <3>7. (\A f \in processing : f[1] \in Messages) /\ queue \subseteq Messages
      BY <1>0, IdParts DEF TypeOK
    <3>8. \A d \in Clients : pc[d] \in Carrying => hand[d][1] \in Messages
      BY <1>0, HandIsId DEF Carrying
    <3>9. \A f \in processing' : f[2] = deliveries'[f[1]]
      BY <1>0, <3>3, <3>4, <3>6, <3>7 DEF Numbered
    <3>10. \A m \in queue' : deliveries'[m] < MaxDeliveries
      BY <1>0, <3>3, <3>4, <3>7 DEF Numbered
    <3>11. \A m \in Messages : fate'[m] = "new" => deliveries'[m] = 0
      BY <1>0, <3>3, <3>4, <3>6 DEF Numbered
    <3>12. \A d \in Clients : pc'[d] \in Carrying =>
              hand'[d][2] = deliveries'[hand'[d][1]] /\ hand'[d][2] < MaxDeliveries
      BY <1>0, <3>3, <3>4, <3>5, <3>6, <3>8 DEF Numbered, Carrying
    <3>13. \A d \in Clients : /\ pc'[d] = "nack" => hand'[d][2] < MaxDeliveries
                              /\ pc'[d] \in {"recover", "put"} => todo'[d] \subseteq expired'
      BY <1>0, <3>3, <3>5 DEF Numbered
    <3>14. \A f \in expired' : f[2] < MaxDeliveries
      BY <1>0, <3>3 DEF Numbered
    <3> QED BY <3>9, <3>10, <3>11, <3>12, <3>13, <3>14 DEF Numbered
  <2> QED BY <1>2, <2>1, <2>2, <2>3, <2>4, <2>5, <2>6 DEF Pop
<1>3. ASSUME NEW c \in Clients, Settling(c) PROVE Numbered'
  <2>1. CASE AckPop(c)
    <3>1. \A m \in Messages : fate'[m] = "new" => fate[m] = "new"
      BY <1>0, <2>1 DEF AckPop, TypeOK
    <3>2. Calm
      BY <1>0, <2>1, <3>1 DEF AckPop, Go, clock, Calm, TypeOK, Numbered, Carrying
    <3> QED BY <1>0, <2>1, <3>2, CalmNumbered DEF AckPop
  <2>2. CASE NackPop(c)
    <3>1. hand[c][2] < MaxDeliveries /\ hand[c][2] = deliveries[hand[c][1]]
      BY <1>0, <2>2 DEF NackPop, Go, Numbered
    <3>2. UNCHANGED <<queue, fate, deliveries, expired, hand, todo>> /\ processing' \subseteq processing
      BY <2>2 DEF NackPop, history, clock
    <3>3. pc'[c] = "put_back" /\ \A d \in Clients \ {c} : pc'[d] = pc[d]
      BY <1>0, <2>2 DEF NackPop, Go, TypeOK
    <3> QED BY <1>0, <3>1, <3>2, <3>3 DEF Numbered, Carrying
  <2>3. CASE NackGone(c)
    <3>1. Calm
      BY <1>0, <2>3 DEF NackGone, Go, store, history, clock, Calm, TypeOK, Numbered, Carrying
    <3> QED BY <1>0, <2>3, <3>1, CalmNumbered DEF NackGone, store
  <2>4. CASE NackPut(c)
    <3>1. deliveries[hand[c][1]] < MaxDeliveries
      BY <1>0, <2>4 DEF NackPut, Go, Numbered, Carrying
    <3>2. Calm
      BY <1>0, <2>4 DEF NackPut, Go, history, clock, Calm, TypeOK, Numbered, Carrying
    <3> QED BY <1>0, <2>4, <3>1, <3>2, CalmNumbered DEF NackPut
  <2> QED BY <1>3, <2>1, <2>2, <2>3, <2>4 DEF Settling
<1>4. ASSUME NEW c \in Clients, Cleaning(c) PROVE Numbered'
  <2>1. CASE CleanProcessing(c) \/ CleanEnd(c)
    <3>1. Calm
      BY <1>0, <2>1 DEF CleanProcessing, CleanEnd, Go, store, history, clock, Calm, TypeOK,
         Numbered, Carrying
    <3> QED BY <1>0, <2>1, <3>1, CalmNumbered DEF CleanProcessing, CleanEnd, store
  <2>2. ASSUME NEW n \in Messages, CleanQueuePop(c, n) PROVE Numbered'
    <3>1. \A m \in Messages : fate'[m] = "new" => fate[m] = "new"
      BY <1>0, <2>2 DEF CleanQueuePop, TypeOK
    <3>2. Calm
      BY <1>0, <2>2, <3>1 DEF CleanQueuePop, clock, Calm, TypeOK, Numbered
    <3> QED BY <1>0, <2>2, <3>2, CalmNumbered DEF CleanQueuePop
  <2>3. ASSUME NEW e \in Ids, CleanProcessingPop(c, e) PROVE Numbered'
    <3>1. \A m \in Messages : fate'[m] = "new" => fate[m] = "new"
      BY <1>0, <2>3 DEF CleanProcessingPop, TypeOK
    <3>2. Calm
      BY <1>0, <2>3, <3>1 DEF CleanProcessingPop, clock, Calm, TypeOK, Numbered
    <3> QED BY <1>0, <2>3, <3>2, CalmNumbered DEF CleanProcessingPop
  <2> QED BY <1>4, <2>1, <2>2, <2>3 DEF Cleaning
<1>5. ASSUME NEW c \in Clients, Crash(c) PROVE Numbered'
  <2>1. \A m \in Messages : fate'[m] = "new" => fate[m] = "new"
    BY <1>0, <1>5 DEF Crash, TypeOK
  <2>2. Calm
    BY <1>0, <1>5, <2>1 DEF Crash, store, clock, Calm, TypeOK, Numbered, Carrying
  <2> QED BY <1>0, <1>5, <2>2, CalmNumbered DEF Crash, store
<1>6. CASE Time
  <2>1. Calm
    BY <1>0, <1>6 DEF Time, Expire, AgeEntry, Age, store, history, local, Calm, Numbered
  <2> QED BY <1>0, <1>6, <2>1, CalmNumbered DEF Time, Expire, AgeEntry, Age, store
<1> QED BY <1>1, <1>2, <1>3, <1>4, <1>5, <1>6 DEF Next

-----------------------------------------------------------------------------
LEMMA QueueInvInit == Init => QueueInv
<1>1. Init => TypeOK
  BY QueueAssumption DEF Init, TypeOK, Fates, Points
<1>2. Init => OneCopy
  BY DEF Init, OneCopy, InFlight, Carried, Carries, Carrying
<1>3. Init => Numbered
  BY DEF Init, Numbered, Carrying
<1> QED BY <1>1, <1>2, <1>3 DEF QueueInv

LEMMA QueueInvStep == QueueInv /\ [Next]_vars => QueueInv'
<1> SUFFICES ASSUME QueueInv, [Next]_vars PROVE QueueInv'
  OBVIOUS
<1>1. CASE Next
  <2>1. TypeOK'
    <3>1. StoreOK' /\ LocalOK'
      BY <1>1, StoreType, LocalType
    <3> QED BY <3>1 DEF TypeOK, StoreOK, LocalOK, Fates, Points
  <2> QED BY <1>1, <2>1, CopyStep, NumberedStep DEF QueueInv
<1>2. CASE UNCHANGED vars
  BY <1>2 DEF vars, QueueInv, TypeOK, OneCopy, InFlight, Carried, Carries, Numbered
<1> QED BY <1>1, <1>2

LEMMA QueueInvAlways == Spec => []QueueInv
  BY QueueInvInit, QueueInvStep, PTL DEF Spec

\* The variables keep their types, and exactly the clients in the middle of
\* ack, nack or recovery have a message in hand.
THEOREM QueueTypeCorrect == Spec => []TypeOK
<1>1. QueueInv => TypeOK
  BY DEF QueueInv
<1> QED BY <1>1, QueueInvAlways, PTL

\* For any messages, clients, deliveries and crashes: a live message is in
\* the queue, in processing or in one hand, and in no two of them.
THEOREM StoredOnce == Spec => []OneCopy
<1>1. QueueInv => OneCopy
  BY DEF QueueInv
<1> QED BY <1>1, QueueInvAlways, PTL

\* A message that is acknowledged, cleaned up or lost is never delivered
\* again: no copy of it is left for any client to move.
THEOREM GoneStaysGone == Spec => AckFinal
<1> DEFINE Stays == \A m \in Messages :
                       fate[m] \in {"acked", "cleaned", "lost"} =>
                           fate'[m] = fate[m] /\ deliveries'[m] = deliveries[m]
<1>1. ASSUME QueueInv, [Next]_vars PROVE [Stays]_vars
  <2>0. TypeOK /\ OneCopy
    BY <1>1 DEF QueueInv
  <2>1. CASE UNCHANGED vars
    BY <2>1 DEF vars
  <2>2. CASE Next
    <3>1. ASSUME NEW m \in Messages, fate[m] \in {"acked", "cleaned", "lost"}
          PROVE  fate'[m] = fate[m] /\ deliveries'[m] = deliveries[m]
      <4>0. m \notin queue /\ (\A e \in processing : e[1] # m)
            /\ \A d \in Clients : pc[d] \in Carrying => hand[d][1] # m
        BY <2>0, <3>1 DEF OneCopy, InFlight, Carried, Carries
      <4>1. ASSUME NEW c \in Clients, Request(c) \/ Settling(c) \/ Cleaning(c) \/ Crash(c)
            PROVE  fate'[m] = fate[m] /\ deliveries' = deliveries
        BY <2>0, <3>1, <4>0, <4>1 DEF Request, PopStart, CleanQueue, push, ScannedKey, ack, nack,
           Settle, Unknown, Settling, AckPop, NackPop, NackGone, NackPut, Cleaning,
           CleanProcessing, CleanEnd, CleanQueuePop, CleanProcessingPop, Crash, history, TypeOK
      <4>2. ASSUME NEW c \in Clients, Pop(c)
            PROVE  fate' = fate /\ deliveries'[m] = deliveries[m]
        BY <2>0, <4>0, <4>2 DEF Pop, RecoverPut, Empty, pop_by_key, KeyGone, RecoverPop,
           RecoverGone, FirstKey, history, TypeOK
      <4>3. CASE Time
        BY <4>3 DEF Time, Expire, AgeEntry, Age, history
      <4> QED BY <2>2, <4>1, <4>2, <4>3 DEF Next
    <3> QED BY <3>1
  <2> QED BY <1>1, <2>1, <2>2
<1>2. QueueInv /\ [Next]_vars => [Stays]_vars
  BY <1>1
<1> QED BY <1>2, QueueInvAlways, PTL DEF Spec, AckFinal
=============================================================================
