-------------------------- MODULE StateSinkProofs --------------------------
(***************************************************************************)
(* Proofs about StateSink, for any number of updates, threads, failures    *)
(* and deaths: every line is in one file, nothing is loaded twice, and     *)
(* what is archived was loaded.                                            *)
(***************************************************************************)
EXTENDS StateSink, FiniteSetTheorems, TLAPS

Labels == {"idle", "open", "write", "rename", "convert", "load", "archive"}
Flushing == {"convert", "load", "archive"}

SinkType ==
    /\ pending \subseteq Updates /\ lost \subseteq Updates
    /\ content \in [Files -> SUBSET Updates]
    /\ parquet \in [Flushers -> SUBSET Updates]
    /\ loaded \in [Updates -> Nat]
    /\ pc \in [Threads -> Labels]
    /\ item \in [Threads -> Updates \cup {"none"}]
    /\ file \in [Threads -> Files]
    /\ \A t \in Threads : item[t] # "none" <=> pc[t] \in {"open", "write"}

(***************************************************************************)
(* The inductive invariant.  OneHome is InOneFile without the counting: no *)
(* update has two homes, and every one has a home.                         *)
(***************************************************************************)
OneHome ==
    /\ pending \cap lost = {}
    /\ \A f, g \in Files : f # g => content[f] \cap content[g] = {}
    /\ \A t, x \in Threads : t # x /\ item[t] # "none" => item[t] # item[x]
    /\ \A t \in Threads, f \in Files : item[t] \notin content[f]
    /\ \A u \in pending \cup lost :
          (\A f \in Files : u \notin content[f]) /\ (\A t \in Threads : item[t] # u)
    /\ \A u \in Updates \ (pending \cup lost) :
          (\E f \in Files : u \in content[f]) \/ (\E t \in Threads : item[t] = u)

(***************************************************************************)
(* Batches: a flusher has one exactly while it is flushing, an append goes *)
(* to a batch only while there is one, and what was converted is what the  *)
(* batch held, except late lines.                                          *)
(***************************************************************************)
Batches ==
    /\ \A t \in Flushers :
          /\ parquet[t] \subseteq content[t]
          /\ pc[t] \notin Flushing => content[t] = {}
          /\ pc[t] \notin {"load", "archive"} => parquet[t] = {}
          /\ pc[t] \in {"load", "archive"} => content[t] \subseteq parquet[t] \cup late
    /\ \A t \in Threads : pc[t] = "write" /\ file[t] \in Flushers => pc[file[t]] \in Flushing

(***************************************************************************)
(* Rows: an update has a row only where its batch has been loaded.         *)
(***************************************************************************)
Rows ==
    /\ \A u \in Updates : loaded[u] \in {0, 1}
    /\ \A u \in Updates : loaded[u] = 1 =>
          \/ u \in content["staging"] \cup content["archive"]
          \/ \E t \in Flushers : pc[t] = "archive" /\ u \in parquet[t]
    /\ \A t \in Flushers : pc[t] = "archive" => \A u \in parquet[t] : loaded[u] = 1
    /\ \A u \in content["archive"] : loaded[u] = 1 \/ u \in late

SinkInv == SinkType /\ OneHome /\ Batches /\ Rows

\* The three folders are files, and no flusher is called like one of them.
LEMMA Folders ==
    /\ {"stream", "staging", "archive"} \subseteq Files /\ Flushers \subseteq Files
    /\ \A t \in Flushers : t \notin {"stream", "staging", "archive"}
    /\ Appenders \subseteq Threads /\ Flushers \subseteq Threads
  BY SinkAssumption DEF Files, Threads

\* Every action is one of these.
LEMMA NextCases ==
    ASSUME Next
    PROVE  \/ \E t \in Appenders, u \in Updates : Accept(t, u)
           \/ \E t \in Appenders : OpenStream(t) \/ WriteLine(t) \/ AppendFails(t)
           \/ \E t \in Flushers : CheckStream(t) \/ Rotate(t) \/ Convert(t)
                                 \/ Load(t) \/ FlushFails(t) \/ Archive(t)
           \/ Crash
  BY DEF Next, Append, Flush

\* What a rename does to the contents and to the open files.
LEMMA Moved ==
    ASSUME SinkType, NEW from \in Files, NEW to \in Files, from # to, Move(from, to)
    PROVE  /\ content' \in [Files -> SUBSET Updates] /\ file' \in [Threads -> Files]
           /\ content'[from] = {} /\ content'[to] = content[to] \cup content[from]
           /\ \A f \in Files \ {from, to} : content'[f] = content[f]
           /\ \A t \in Threads : file'[t] = IF pc[t] = "write" /\ file[t] = from THEN to ELSE file[t]
  BY DEF Move, SinkType

LEMMA TypeStep ==
    ASSUME SinkType, Next
    PROVE  SinkType'
<1> USE Folders
<1>1. ASSUME NEW t \in Appenders, NEW u \in Updates, Accept(t, u)
      PROVE  SinkType'
  BY <1>1, SinkAssumption DEF SinkType, Accept, Goto, fileVars, Labels
<1>2. ASSUME NEW t \in Appenders, OpenStream(t)
      PROVE  SinkType'
  BY <1>2 DEF SinkType, OpenStream, Goto, Labels
<1>3. ASSUME NEW t \in Appenders, WriteLine(t)
      PROVE  SinkType'
  BY <1>3 DEF SinkType, WriteLine, Goto, Labels
<1>4. ASSUME NEW t \in Flushers, CheckStream(t)
      PROVE  SinkType'
  BY <1>4 DEF SinkType, CheckStream, Goto, Labels, fileVars
<1>5. ASSUME NEW t \in Flushers, Rotate(t)
      PROVE  SinkType'
  <2>1. content' \in [Files -> SUBSET Updates] /\ file' \in [Threads -> Files]
    BY <1>5, Moved DEF Rotate, SinkType
  <2> QED BY <1>5, <2>1 DEF SinkType, Rotate, Goto, Labels
<1>6. ASSUME NEW t \in Flushers, Convert(t)
      PROVE  SinkType'
  BY <1>6 DEF SinkType, Convert, Goto, Labels, fileVars
<1>7. ASSUME NEW t \in Flushers, Load(t)
      PROVE  SinkType'
  BY <1>7 DEF SinkType, Load, Goto, Labels, fileVars
<1>8. ASSUME NEW t \in Flushers, FlushFails(t)
      PROVE  SinkType'
  <2>1. content' \in [Files -> SUBSET Updates] /\ file' \in [Threads -> Files]
    BY <1>8, Moved DEF FlushFails
  <2>2. loaded' \in [Updates -> Nat]
    BY <1>8 DEF SinkType, FlushFails
  <2> QED BY <1>8, <2>1, <2>2 DEF SinkType, FlushFails, Goto, Labels
<1>9. ASSUME NEW t \in Flushers, Archive(t)
      PROVE  SinkType'
  <2>1. content' \in [Files -> SUBSET Updates] /\ file' \in [Threads -> Files]
    BY <1>9, Moved DEF Archive
  <2> QED BY <1>9, <2>1 DEF SinkType, Archive, Goto, Labels
<1>10. CASE Crash
  BY <1>10 DEF SinkType, Crash, Labels
<1>11. ASSUME NEW t \in Appenders, AppendFails(t)
       PROVE  SinkType'
  <2>1. item[t] \in Updates
    BY <1>11 DEF SinkType, AppendFails
  <2> QED BY <1>11, <2>1 DEF SinkType, AppendFails, Goto, Labels, fileVars
<1> QED BY <1>11, <1>1, <1>2, <1>3, <1>4, <1>5, <1>6, <1>7, <1>8, <1>9, <1>10, NextCases

\* A step that moves a file leaves every update at home.
LEMMA MoveHome ==
    ASSUME SinkType, OneHome, NEW from \in Files, NEW to \in Files, from # to,
           Move(from, to), UNCHANGED <<pending, lost, item>>
    PROVE  OneHome'
<1>1. /\ content'[from] = {} /\ content'[to] = content[to] \cup content[from]
      /\ \A f \in Files \ {from, to} : content'[f] = content[f]
  BY Moved
<1>2. \A u \in Updates : (\E f \in Files : u \in content'[f]) <=> (\E f \in Files : u \in content[f])
  BY <1>1
<1>3. \A f, g \in Files : f # g => content'[f] \cap content'[g] = {}
  BY <1>1 DEF OneHome
<1>4. \A t \in Threads, f \in Files : item'[t] \notin content'[f]
  BY <1>1 DEF OneHome
<1>5. \A u \in pending \cup lost : \A f \in Files : u \notin content'[f]
  BY <1>1 DEF OneHome
<1> QED BY <1>2, <1>3, <1>4, <1>5 DEF OneHome

LEMMA HomeStep ==
    ASSUME SinkType, OneHome, Next
    PROVE  OneHome'
<1> USE Folders
<1>1. ASSUME NEW t \in Appenders, NEW u \in Updates, Accept(t, u)
      PROVE  OneHome'
  <2>1. item' = [item EXCEPT ![t] = u] /\ u \in pending /\ pending' = pending \ {u}
        /\ item[t] = "none" /\ UNCHANGED <<content, lost>>
    BY <1>1 DEF Accept, fileVars, SinkType
  <2>2. item'[t] = u /\ \A x \in Threads \ {t} : item'[x] = item[x]
    BY <2>1 DEF SinkType
  <2>3. u # "none" /\ u \notin lost /\ (\A f \in Files : u \notin content[f])
        /\ \A x \in Threads : item[x] # u
    BY <2>1, SinkAssumption DEF OneHome
  <2>4. \A x, y \in Threads : x # y /\ item'[x] # "none" => item'[x] # item'[y]
    BY <2>2, <2>3 DEF OneHome
  <2>5. \A v \in pending' \cup lost' :
          (\A f \in Files : v \notin content'[f]) /\ (\A x \in Threads : item'[x] # v)
    BY <2>1, <2>2, <2>3 DEF OneHome
  <2>6. \A v \in Updates \ (pending' \cup lost') :
          (\E f \in Files : v \in content'[f]) \/ (\E x \in Threads : item'[x] = v)
    BY <2>1, <2>2, SinkAssumption DEF OneHome
  <2> QED BY <2>1, <2>2, <2>3, <2>4, <2>5, <2>6 DEF OneHome
<1>2. ASSUME NEW t \in Appenders, OpenStream(t)
      PROVE  OneHome'
  BY <1>2 DEF OneHome, OpenStream
<1>3. ASSUME NEW t \in Appenders, WriteLine(t)
      PROVE  OneHome'
  <2> DEFINE u == item[t]  f == file[t]
  <2>1. u \in Updates /\ f \in Files /\ u # "none"
    BY <1>3 DEF WriteLine, SinkType
  <2>2. /\ content'[f] = content[f] \cup {u} /\ \A g \in Files \ {f} : content'[g] = content[g]
        /\ item'[t] = "none" /\ (\A x \in Threads \ {t} : item'[x] = item[x])
        /\ UNCHANGED <<pending, lost>>
    BY <1>3 DEF WriteLine, SinkType
  <2>3. (\A g \in Files : u \notin content[g]) /\ (\A x \in Threads \ {t} : item[x] # u)
        /\ u \notin pending \cup lost
    BY <2>1 DEF OneHome
  <2>4. "none" \notin Updates /\ \A g \in Files : "none" \notin content[g]
    BY SinkAssumption DEF SinkType
  <2> HIDE DEF u, f
  <2>5. \A g, h \in Files : g # h => content'[g] \cap content'[h] = {}
    BY <2>1, <2>2, <2>3 DEF OneHome
  <2>6. \A x \in Threads, g \in Files : item'[x] \notin content'[g]
    BY <2>1, <2>2, <2>3, <2>4 DEF OneHome
  <2>7. \A v \in pending \cup lost :
          (\A g \in Files : v \notin content'[g]) /\ (\A x \in Threads : item'[x] # v)
    BY <2>1, <2>2, <2>3, <2>4 DEF OneHome, SinkType
  <2>8. \A v \in Updates \ (pending \cup lost) :
          (\E g \in Files : v \in content'[g]) \/ (\E x \in Threads : item'[x] = v)
    <3> TAKE v \in Updates \ (pending \cup lost)
    <3>1. CASE v = u
      BY <2>1, <2>2, <3>1
    <3>2. CASE v # u
      BY <2>1, <2>2, <3>2 DEF OneHome, u
    <3> QED BY <3>1, <3>2
  <2> QED BY <2>2, <2>5, <2>6, <2>7, <2>8 DEF OneHome
<1>4. ASSUME NEW t \in Flushers, CheckStream(t) \/ Convert(t) \/ Load(t)
      PROVE  OneHome'
  BY <1>4 DEF OneHome, CheckStream, Convert, Load, fileVars
<1>5. ASSUME NEW t \in Flushers, Rotate(t)
      PROVE  OneHome'
  <2>1. CASE exists
    BY <1>5, <2>1, MoveHome DEF Rotate
  <2>2. CASE ~exists
    BY <1>5, <2>2 DEF OneHome, Rotate
  <2> QED BY <2>1, <2>2
<1>6. ASSUME NEW t \in Flushers, FlushFails(t) \/ Archive(t)
      PROVE  OneHome'
  BY <1>6, MoveHome DEF FlushFails, Archive
<1>7. CASE Crash
  <2> DEFINE dead == {item[t] : t \in {x \in Threads : pc[x] \in {"open", "write"}}}
  <2>1. /\ lost' = lost \cup dead /\ pending' = pending
        /\ \A t \in Threads : item'[t] = "none"
        /\ content'["staging"] = content["staging"] \cup UNION {content[t] : t \in Flushers}
        /\ \A t \in Flushers : content'[t] = {}
        /\ content'["stream"] = content["stream"] /\ content'["archive"] = content["archive"]
    BY <1>7 DEF Crash
  <2>2. \A u : u \in dead <=> u # "none" /\ \E t \in Threads : item[t] = u
    BY DEF SinkType
  <2>3. \A f \in Files : f \in {"stream", "staging", "archive"} \/ f \in Flushers
    BY DEF Files
  <2>4. "none" \notin Updates /\ \A f \in Files : "none" \notin content[f] /\ "none" \notin content'[f]
    BY <1>7, TypeStep, SinkAssumption DEF SinkType, Next
  <2> HIDE DEF dead
  <2>5. \A f, g \in Files : f # g => content'[f] \cap content'[g] = {}
    BY <2>1, <2>3 DEF OneHome
  <2>6. \A v : (\E f \in Files : v \in content'[f]) <=> (\E f \in Files : v \in content[f])
    BY <2>1, <2>3
  <2>7. \A v \in pending \cup lost' :
          (\A f \in Files : v \notin content'[f]) /\ (\A t \in Threads : item'[t] # v)
    BY <2>1, <2>2, <2>4, <2>6 DEF OneHome, SinkType
  <2>8. \A v \in Updates \ (pending \cup lost') : \E f \in Files : v \in content'[f]
    BY <2>1, <2>2, <2>4, <2>6 DEF OneHome
  <2>9. pending \cap lost' = {}
    BY <2>1, <2>2 DEF OneHome
  <2> QED BY <2>1, <2>4, <2>5, <2>7, <2>8, <2>9 DEF OneHome
<1>8. ASSUME NEW t \in Appenders, AppendFails(t)
      PROVE  OneHome'
  <2>1. /\ item[t] \in Updates /\ item[t] # "none" /\ lost' = lost \cup {item[t]}
        /\ item'[t] = "none" /\ (\A x \in Threads \ {t} : item'[x] = item[x])
        /\ UNCHANGED <<pending, content>>
    BY <1>8, SinkAssumption DEF AppendFails, SinkType, fileVars
  <2>2. (\A f \in Files : item[t] \notin content[f]) /\ (\A x \in Threads \ {t} : item[x] # item[t])
        /\ item[t] \notin pending \cup lost
    BY <2>1 DEF OneHome
  <2>3. \A f \in Files : "none" \notin content[f]
    BY SinkAssumption DEF SinkType
  <2>4. \A x, y \in Threads : x # y /\ item'[x] # "none" => item'[x] # item'[y]
    BY <2>1 DEF OneHome
  <2>5. \A v \in pending \cup lost' :
          (\A f \in Files : v \notin content[f]) /\ (\A x \in Threads : item'[x] # v)
    BY <2>1, <2>2, SinkAssumption DEF OneHome, SinkType
  <2>6. \A v \in Updates \ (pending \cup lost') :
          (\E f \in Files : v \in content[f]) \/ (\E x \in Threads : item'[x] = v)
    BY <2>1 DEF OneHome
  <2> QED BY <2>1, <2>2, <2>3, <2>4, <2>5, <2>6 DEF OneHome
<1> QED BY <1>8, <1>1, <1>2, <1>3, <1>4, <1>5, <1>6, <1>7, NextCases

LEMMA BatchStep ==
    ASSUME SinkType, OneHome, Batches, Next
    PROVE  Batches'
<1> USE Folders
<1>0. SinkType'
  BY TypeStep
<1>1. ASSUME NEW t \in Appenders, NEW u \in Updates, Accept(t, u)
      PROVE  Batches'
  BY <1>1 DEF Batches, SinkType, Accept, Goto, fileVars, Flushing
<1>2. ASSUME NEW t \in Appenders, OpenStream(t)
      PROVE  Batches'
  BY <1>2 DEF Batches, SinkType, OpenStream, Goto, Flushing
<1>3. ASSUME NEW t \in Appenders, WriteLine(t)
      PROVE  Batches'
  <2> DEFINE u == item[t]  f == file[t]
  <2>1. /\ pc[t] = "write" /\ f \in Files
        /\ content'[f] = content[f] \cup {u} /\ \A g \in Files \ {f} : content'[g] = content[g]
        /\ pc'[t] = "idle" /\ (\A x \in Threads \ {t} : pc'[x] = pc[x] /\ file'[x] = file[x])
        /\ late' = IF WasRead(f) THEN late \cup {u} ELSE late
        /\ UNCHANGED parquet
    BY <1>3 DEF WriteLine, SinkType, Goto
  <2>2. \A x \in Flushers : pc[x] \in Flushing => x # t
    BY <2>1 DEF Flushing
  <2>3. f \in Flushers => pc[f] \in Flushing /\ f # t
    BY <2>1, <2>2 DEF Batches
  <2>4. f \in Flushers /\ pc[f] \in {"load", "archive"} => u \in late'
    BY <2>1 DEF WasRead
  <2> HIDE DEF u, f
  <2>5. ASSUME NEW x \in Flushers
        PROVE  /\ parquet'[x] \subseteq content'[x]
               /\ pc'[x] \notin Flushing => content'[x] = {}
               /\ pc'[x] \notin {"load", "archive"} => parquet'[x] = {}
               /\ pc'[x] \in {"load", "archive"} => content'[x] \subseteq parquet'[x] \cup late'
    <3>1. CASE x = f
      BY <2>1, <2>3, <2>4, <2>5, <3>1 DEF Batches
    <3>2. CASE x # f
      BY <2>1, <2>3, <2>5, <3>2 DEF Batches, Flushing
    <3> QED BY <3>1, <3>2
  <2>6. \A x \in Threads : pc'[x] = "write" /\ file'[x] \in Flushers => pc'[file'[x]] \in Flushing
    BY <2>1, <2>2 DEF Batches
  <2> QED BY <2>5, <2>6 DEF Batches
<1>4. ASSUME NEW t \in Flushers, CheckStream(t)
      PROVE  Batches'
  BY <1>4 DEF Batches, SinkType, CheckStream, Goto, fileVars, Flushing
<1>5. ASSUME NEW t \in Flushers, Rotate(t)
      PROVE  Batches'
  <2>1. CASE exists
    <3>1. /\ content'[t] = content[t] \cup content["stream"]
          /\ \A f \in Files \ {"stream", t} : content'[f] = content[f]
          /\ \A x \in Threads : file'[x] = IF pc[x] = "write" /\ file[x] = "stream" THEN t ELSE file[x]
      BY <1>5, <2>1, Moved DEF Rotate
    <3>2. pc[t] = "rename" /\ pc'[t] = "convert" /\ (\A x \in Threads \ {t} : pc'[x] = pc[x])
          /\ UNCHANGED <<parquet, late>>
      BY <1>5, <2>1 DEF Rotate, Goto, SinkType
    <3>3. \A x \in Flushers \ {t} : content'[x] = content[x]
      BY <3>1
    <3>4. parquet[t] = {}
      BY <3>2 DEF Batches
    <3> QED BY <3>1, <3>2, <3>3, <3>4 DEF Batches, Flushing
  <2>2. CASE ~exists
    BY <1>5, <2>2 DEF Batches, Rotate, SinkType, Goto, Flushing
  <2> QED BY <2>1, <2>2
<1>6. ASSUME NEW t \in Flushers, Convert(t)
      PROVE  Batches'
  BY <1>6 DEF Batches, SinkType, Convert, Goto, fileVars, Flushing
<1>7. ASSUME NEW t \in Flushers, Load(t)
      PROVE  Batches'
  BY <1>7 DEF Batches, SinkType, Load, Goto, fileVars, Flushing
<1>8. ASSUME NEW t \in Flushers, NEW to \in {"staging", "archive"}, Move(t, to), Goto(t, "idle"),
             parquet' = [parquet EXCEPT ![t] = {}], UNCHANGED late
      PROVE  Batches'
  <2>1. /\ content'[t] = {}
        /\ \A f \in Files \ {t, to} : content'[f] = content[f]
        /\ \A x \in Threads : file'[x] = IF pc[x] = "write" /\ file[x] = t THEN to ELSE file[x]
    BY <1>8, Moved
  <2>2. pc'[t] = "idle" /\ (\A x \in Threads \ {t} : pc'[x] = pc[x])
    BY <1>8 DEF Goto, SinkType
  <2>3. parquet'[t] = {} /\ (\A x \in Flushers \ {t} : parquet'[x] = parquet[x] /\ content'[x] = content[x])
    BY <1>8, <2>1 DEF SinkType
  <2>4. \A x \in Threads : pc'[x] = "write" /\ file'[x] \in Flushers => pc'[file'[x]] \in Flushing
    BY <2>1, <2>2 DEF Batches, Flushing
  <2> QED BY <1>8, <2>1, <2>2, <2>3, <2>4 DEF Batches, Flushing
<1>9. ASSUME NEW t \in Flushers, FlushFails(t) \/ Archive(t)
      PROVE  Batches'
  BY <1>8, <1>9 DEF FlushFails, Archive
<1>10. CASE Crash
  BY <1>10 DEF Batches, SinkType, Crash, Flushing
<1>11. ASSUME NEW t \in Appenders, AppendFails(t)
       PROVE  Batches'
  <2>1. /\ pc[t] \in {"open", "write"} /\ pc'[t] = "idle" /\ file'[t] = "stream"
        /\ (\A x \in Threads \ {t} : pc'[x] = pc[x] /\ file'[x] = file[x])
        /\ UNCHANGED <<content, parquet, late>>
    BY <1>11 DEF AppendFails, SinkType, Goto, fileVars
  <2>2. \A x \in Flushers : pc[x] \in Flushing => x # t
    BY <2>1 DEF Flushing
  <2> QED BY <2>1, <2>2 DEF Batches, Flushing
<1> QED BY <1>11, <1>1, <1>2, <1>3, <1>4, <1>5, <1>6, <1>7, <1>9, <1>10, NextCases

\* The batch of a flusher that has not archived it holds no row yet.
LEMMA NotLoadedYet ==
    ASSUME SinkType, OneHome, Batches, Rows, NEW t \in Flushers, pc[t] = "load"
    PROVE  \A u \in parquet[t] : u \in Updates /\ loaded[u] = 0
<1> TAKE u \in parquet[t]
<1>1. u \in Updates /\ u \in content[t]
  BY DEF SinkType, Batches
<1>2. u \notin content["staging"] \cup content["archive"]
      /\ \A x \in Flushers : pc[x] = "archive" => u \notin parquet[x]
  BY <1>1, Folders DEF OneHome, Batches
<1> QED BY <1>1, <1>2 DEF Rows

LEMMA RowStep ==
    ASSUME SinkType, OneHome, Batches, Rows, Next
    PROVE  Rows'
<1> USE Folders
<1>1. ASSUME NEW t \in Appenders, NEW u \in Updates, Accept(t, u)
      PROVE  Rows'
  BY <1>1 DEF Rows, SinkType, Accept, Goto, fileVars
<1>2. ASSUME NEW t \in Appenders, OpenStream(t)
      PROVE  Rows'
  BY <1>2 DEF Rows, SinkType, OpenStream, Goto
<1>3. ASSUME NEW t \in Appenders, WriteLine(t)
      PROVE  Rows'
  <2>1. /\ file[t] \in Files /\ content'[file[t]] = content[file[t]] \cup {item[t]}
        /\ (\A g \in Files \ {file[t]} : content'[g] = content[g])
        /\ pc[t] = "write" /\ pc'[t] = "idle" /\ (\A x \in Threads \ {t} : pc'[x] = pc[x])
        /\ UNCHANGED <<parquet, loaded>>
    BY <1>3 DEF WriteLine, SinkType, Goto
  <2>2. late \subseteq late' /\ (file[t] = "archive" => item[t] \in late')
    BY <1>3 DEF WriteLine, WasRead
  <2> QED BY <2>1, <2>2 DEF Rows
<1>4. ASSUME NEW t \in Flushers, CheckStream(t)
      PROVE  Rows'
  BY <1>4 DEF Rows, SinkType, CheckStream, Goto, fileVars
<1>5. ASSUME NEW t \in Flushers, Rotate(t)
      PROVE  Rows'
  <2>1. content'["staging"] = content["staging"] /\ content'["archive"] = content["archive"]
    BY <1>5, Moved DEF Rotate
  <2>2. /\ pc[t] = "rename" /\ pc'[t] \in {"convert", "idle"} /\ (\A x \in Threads \ {t} : pc'[x] = pc[x])
        /\ UNCHANGED <<parquet, loaded, late>>
    BY <1>5 DEF Rotate, SinkType, Goto
  <2> QED BY <2>1, <2>2 DEF Rows
<1>6. ASSUME NEW t \in Flushers, Convert(t)
      PROVE  Rows'
  BY <1>6 DEF Rows, SinkType, Convert, Goto, fileVars
<1>7. ASSUME NEW t \in Flushers, Load(t)
      PROVE  Rows'
  <2>1. \A u \in parquet[t] : u \in Updates /\ loaded[u] = 0
    BY <1>7, NotLoadedYet DEF Load
  <2>2. \A u \in Updates : loaded'[u] = IF u \in parquet[t] THEN 1 ELSE loaded[u]
    BY <1>7, <2>1 DEF Load
  <2>3. /\ pc[t] = "load" /\ pc'[t] = "archive" /\ (\A x \in Threads \ {t} : pc'[x] = pc[x])
        /\ UNCHANGED <<parquet, content, late>>
    BY <1>7 DEF Load, SinkType, Goto, fileVars
  <2> QED BY <2>1, <2>2, <2>3 DEF Rows, SinkType
<1>8. ASSUME NEW t \in Flushers, FlushFails(t)
      PROVE  Rows'
  <2>1. /\ content'["staging"] = content["staging"] \cup content[t]
        /\ content'["archive"] = content["archive"]
    BY <1>8, Moved DEF FlushFails
  <2>2. pc[t] = "load" => \A u \in parquet[t] : u \in Updates /\ loaded[u] = 0
    BY <1>8, NotLoadedYet DEF FlushFails
  <2>3. \/ loaded' = loaded
        \/ /\ pc[t] = "load"
           /\ \A u \in Updates : loaded'[u] = IF u \in parquet[t] THEN 1 ELSE loaded[u]
    BY <1>8, <2>2 DEF FlushFails
  <2>4. /\ pc[t] \in {"convert", "load", "archive"} /\ pc'[t] = "idle" /\ (\A x \in Threads \ {t} : pc'[x] = pc[x])
        /\ (\A x \in Flushers \ {t} : parquet'[x] = parquet[x]) /\ UNCHANGED late
    BY <1>8 DEF FlushFails, SinkType, Goto
  <2>5. parquet[t] \subseteq content[t]
    BY DEF Batches
  <2> QED BY <2>1, <2>2, <2>3, <2>4, <2>5 DEF Rows, SinkType
<1>9. ASSUME NEW t \in Flushers, Archive(t)
      PROVE  Rows'
  <2>1. /\ content'["archive"] = content["archive"] \cup content[t]
        /\ content'["staging"] = content["staging"]
    BY <1>9, Moved DEF Archive
  <2>2. /\ pc[t] = "archive" /\ pc'[t] = "idle" /\ (\A x \in Threads \ {t} : pc'[x] = pc[x])
        /\ (\A x \in Flushers \ {t} : parquet'[x] = parquet[x]) /\ UNCHANGED <<late, loaded>>
    BY <1>9 DEF Archive, SinkType, Goto
  <2>3. parquet[t] \subseteq content[t] /\ content[t] \subseteq parquet[t] \cup late
    BY <2>2 DEF Batches
  <2> QED BY <2>1, <2>2, <2>3 DEF Rows, SinkType
<1>10. CASE Crash
  <2>1. /\ content'["staging"] = content["staging"] \cup UNION {content[t] : t \in Flushers}
        /\ content'["archive"] = content["archive"]
        /\ (\A t \in Flushers : pc'[t] = "idle") /\ UNCHANGED <<late, loaded>>
    BY <1>10 DEF Crash
  <2>2. \A t \in Flushers : parquet[t] \subseteq content[t]
    BY DEF Batches
  <2> QED BY <2>1, <2>2 DEF Rows, SinkType
<1>11. ASSUME NEW t \in Appenders, AppendFails(t)
       PROVE  Rows'
  <2>1. /\ pc[t] \in {"open", "write"} /\ pc'[t] = "idle"
        /\ (\A x \in Threads \ {t} : pc'[x] = pc[x])
        /\ UNCHANGED <<content, parquet, late, loaded>>
    BY <1>11 DEF AppendFails, SinkType, Goto, fileVars
  <2> QED BY <2>1 DEF Rows
<1> QED BY <1>11, <1>1, <1>2, <1>3, <1>4, <1>5, <1>6, <1>7, <1>8, <1>9, <1>10, NextCases

LEMMA SinkInvAlways == Spec => []SinkInv
<1>1. Init => SinkInv
  BY SinkAssumption, Folders DEF Init, SinkInv, SinkType, OneHome, Batches, Rows, Labels, Flushing
<1>2. SinkInv /\ [Next]_vars => SinkInv'
  <2>1. CASE Next
    BY <2>1, TypeStep, HomeStep, BatchStep, RowStep DEF SinkInv
  <2>2. CASE UNCHANGED vars
    BY <2>2 DEF SinkInv, SinkType, OneHome, Batches, Rows, vars, fileVars
  <2> QED BY <2>1, <2>2
<1> QED BY <1>1, <1>2, PTL DEF Spec

\* Only a failed append or a death before the write drops a line of the stream;
\* no interleaving of append, rotation, flushes and deaths does, or doubles one
\* (StateSink.append, _rotate_and_stage, flush_to_db).
THEOREM EveryLineInOneFile == Spec => []InOneFile
<1>1. ASSUME SinkInv PROVE InOneFile
  <2> USE <1>1 DEF SinkInv
  <2> SUFFICES ASSUME NEW u \in Updates
               PROVE  Cardinality({f \in Files : u \in content[f]}) + Cardinality(Holders(u))
                        = IF u \in pending \cup lost THEN 0 ELSE 1
    BY DEF InOneFile
  <2> DEFINE F == {f \in Files : u \in content[f]}  H == Holders(u)
  <2>0. Cardinality({}) = 0 /\ \A x : Cardinality({x}) = 1
    BY FS_EmptySet, FS_Singleton
  <2>1. CASE u \in pending \cup lost
    <3>1. F = {} /\ H = {}
      BY <2>1 DEF OneHome, Holders
    <3> QED BY <2>0, <2>1, <3>1
  <2>2. CASE u \notin pending \cup lost /\ \E f \in Files : u \in content[f]
    <3>1. PICK f \in Files : u \in content[f]
      BY <2>2
    <3>2. F = {f} /\ H = {}
      BY <3>1 DEF OneHome, Holders
    <3>3. Cardinality(F) = 1 /\ Cardinality(H) = 0
      BY <2>0, <3>2, Zenon
    <3> QED BY <2>2, <3>3
  <2>3. CASE u \notin pending \cup lost /\ ~\E f \in Files : u \in content[f]
    <3>1. PICK t \in Threads : item[t] = u
      BY <2>3 DEF OneHome
    <3>2. F = {} /\ H = {t}
      BY <2>3, <3>1, SinkAssumption DEF OneHome, Holders
    <3>3. Cardinality(F) = 0 /\ Cardinality(H) = 1
      BY <2>0, <3>2, Zenon
    <3> QED BY <2>3, <3>3
  <2> QED BY <2>1, <2>2, <2>3
<1> QED BY <1>1, SinkInvAlways, PTL

\* No update has two rows in META.EXECUTION_LOG, and an archived one has its
\* row unless it was written after its batch had been read (flush_to_db).
THEOREM ArchivedWasLoaded == Spec => []ArchivedLoadedOnce
<1>1. SinkInv => ArchivedLoadedOnce
  BY Folders DEF SinkInv, SinkType, Rows, ArchivedLoadedOnce
<1> QED BY <1>1, SinkInvAlways, PTL
=============================================================================
