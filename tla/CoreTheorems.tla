---------------------------- MODULE CoreTheorems ----------------------------
(***************************************************************************)
(* The battle in the core, for every core size, every configuration and    *)
(* every line-up of warriors: types, the agreement of the three places     *)
(* where the state of a warrior is kept (the queue, the counts beside it   *)
(* and the results), and what follows from it.                             *)
(***************************************************************************)
EXTENDS Core, ExecuteTheorems, FunctionTheorems, SequenceTheorems

(***************************************************************************)
(* First, what the operations of the process queue preserve, for every     *)
(* queue: the types, that the counts agree with the queue, and that the    *)
(* thread ids stay distinct.                                               *)
(***************************************************************************)

\* The thread id is not that of a queued task of the warrior, and was given out.
FreeThread(pq, id, thread) ==
  /\ thread < pq.next_thread_id[id]
  /\ \A i \in DOMAIN pq.queue :
        ~ (pq.queue[i].id = id /\ pq.queue[i].thread = thread)

-----------------------------------------------------------------------------
(* Types.                                                                  *)

LEMMA HeadType ==
  ASSUME NEW Ids, NEW Offsets, NEW pq \in ProcessQueue(Ids, Offsets),
         pq.queue # << >>
  PROVE  Head(pq.queue) \in Entry(Ids, Offsets)
  BY HeadTailProperties DEF ProcessQueue

LEMMA PopType ==
  ASSUME NEW Ids, NEW Offsets, NEW pq \in ProcessQueue(Ids, Offsets),
         pq.queue # << >>
  PROVE  Pop(pq) \in ProcessQueue(Ids, Offsets)
<1>1. Tail(pq.queue) \in Seq(Entry(Ids, Offsets))
  BY HeadTailProperties DEF ProcessQueue
<1> DEFINE id    == Head(pq.queue).id
           count == [pq.processes EXCEPT ![id] = IF @ = 0 THEN 0 ELSE @ - 1]
<1>2. count \in [Ids -> Nat]
  <2>1. pq.processes \in [Ids -> Nat]
    BY DEF ProcessQueue
  <2>2. id \in Ids /\ pq.processes[id] \in Nat
    BY <2>1, HeadType DEF Entry
  <2>3. (IF pq.processes[id] = 0 THEN 0 ELSE pq.processes[id] - 1) \in Nat
    BY <2>2
  <2> QED BY <2>1, <2>2, <2>3
<1>3. Pop(pq) = [queue |-> Tail(pq.queue), processes |-> count,
                 next_thread_id |-> pq.next_thread_id]
  BY DEF Pop, ProcessQueue
<1> QED BY <1>1, <1>2, <1>3 DEF ProcessQueue

LEMMA PushType ==
  ASSUME NEW Ids, NEW Offsets, NEW pq \in ProcessQueue(Ids, Offsets),
         NEW id \in Ids, NEW offset \in Offsets, NEW thread \in Nat \cup {NoThread}
  PROVE  Push(pq, id, offset, thread) \in ProcessQueue(Ids, Offsets)
<1> DEFINE number == IF thread = NoThread THEN pq.next_thread_id[id] ELSE thread
           entry  == [id |-> id, offset |-> offset, thread |-> number]
<1>1. number \in Nat
  BY DEF ProcessQueue, NoThread
<1>2. entry \in Entry(Ids, Offsets)
  BY <1>1 DEF Entry
<1> HIDE DEF entry
<1>3. Append(pq.queue, entry) \in Seq(Entry(Ids, Offsets))
  BY <1>2 DEF ProcessQueue
<1> DEFINE count == [pq.processes EXCEPT ![id] = @ + 1]
           next  == [pq.next_thread_id EXCEPT ![id] =
                       IF thread = NoThread THEN @ + 1 ELSE @]
<1>4. count \in [Ids -> Nat] /\ next \in [Ids -> Nat]
  BY DEF ProcessQueue
<1>5. Push(pq, id, offset, thread) =
        [queue |-> Append(pq.queue, entry), processes |-> count,
         next_thread_id |-> next]
  BY DEF Push, ProcessQueue, entry
<1> QED BY <1>3, <1>4, <1>5 DEF ProcessQueue

-----------------------------------------------------------------------------
(* The queue after a pop and after a push, entry by entry.                 *)

Popped(pq, new) ==
  LET n == Len(pq.queue)
  IN  /\ n \in Nat \ {0}
      /\ DOMAIN pq.queue = 1 .. n
      /\ DOMAIN new.queue = 1 .. n - 1
      /\ \A i \in 1 .. n - 1 : new.queue[i] = pq.queue[i + 1]
      /\ Head(pq.queue) = pq.queue[1]
      /\ new.next_thread_id = pq.next_thread_id
      /\ new.processes =
           [pq.processes EXCEPT ![Head(pq.queue).id] = IF @ = 0 THEN 0 ELSE @ - 1]

Pushed(pq, new, id, offset, thread) ==
  LET n == Len(pq.queue)
      number == IF thread = NoThread THEN pq.next_thread_id[id] ELSE thread
  IN  /\ n \in Nat
      /\ DOMAIN pq.queue = 1 .. n
      /\ DOMAIN new.queue = 1 .. n + 1
      /\ \A i \in 1 .. n : new.queue[i] = pq.queue[i]
      /\ new.queue[n + 1] = [id |-> id, offset |-> offset, thread |-> number]
      /\ new.processes = [pq.processes EXCEPT ![id] = @ + 1]
      /\ new.next_thread_id =
           [pq.next_thread_id EXCEPT ![id] = IF thread = NoThread THEN @ + 1 ELSE @]

LEMMA PopEntries ==
  ASSUME NEW Ids, NEW Offsets, NEW pq \in ProcessQueue(Ids, Offsets),
         pq.queue # << >>
  PROVE  Popped(pq, Pop(pq))
<1>1. pq.queue \in Seq(Entry(Ids, Offsets))
  BY DEF ProcessQueue
<1>2. /\ Pop(pq).queue = Tail(pq.queue)
      /\ Pop(pq).next_thread_id = pq.next_thread_id
      /\ Pop(pq).processes =
           [pq.processes EXCEPT ![Head(pq.queue).id] = IF @ = 0 THEN 0 ELSE @ - 1]
  BY DEF Pop
<1>3. Head(pq.queue) = pq.queue[1]
  BY <1>1
<1>4. Len(pq.queue) \in Nat \ {0}
  BY <1>1, EmptySeq
<1> QED BY <1>1, <1>2, <1>3, <1>4, HeadTailProperties, LenProperties DEF Popped

LEMMA PushEntries ==
  ASSUME NEW Ids, NEW Offsets, NEW pq \in ProcessQueue(Ids, Offsets),
         NEW id \in Ids, NEW offset \in Offsets, NEW thread \in Nat \cup {NoThread}
  PROVE  Pushed(pq, Push(pq, id, offset, thread), id, offset, thread)
<1> DEFINE number == IF thread = NoThread THEN pq.next_thread_id[id] ELSE thread
           entry  == [id |-> id, offset |-> offset, thread |-> number]
           new    == Push(pq, id, offset, thread)
<1>1. pq.queue \in Seq(Entry(Ids, Offsets))
  BY DEF ProcessQueue
<1>2. /\ new.queue = Append(pq.queue, entry)
      /\ new.processes = [pq.processes EXCEPT ![id] = @ + 1]
      /\ new.next_thread_id =
           [pq.next_thread_id EXCEPT ![id] = IF thread = NoThread THEN @ + 1 ELSE @]
  BY DEF Push
<1>3. number \in Nat
  BY DEF ProcessQueue, NoThread
<1>4. entry \in Entry(Ids, Offsets)
  BY <1>3 DEF Entry
<1> HIDE DEF entry, new
<1>6. /\ Len(pq.queue) \in Nat
      /\ DOMAIN pq.queue = 1 .. Len(pq.queue)
      /\ DOMAIN Append(pq.queue, entry) = 1 .. Len(pq.queue) + 1
      /\ \A i \in 1 .. Len(pq.queue) : Append(pq.queue, entry)[i] = pq.queue[i]
      /\ Append(pq.queue, entry)[Len(pq.queue) + 1] = entry
  BY <1>1, <1>4
<1> QED BY <1>2, <1>6 DEF entry, new, Pushed

-----------------------------------------------------------------------------
(* Thread ids.                                                             *)

\* A popped task leaves its thread id behind for its successor, and no other.
LEMMA PopThreads ==
  ASSUME NEW Ids, NEW Offsets, NEW pq \in ProcessQueue(Ids, Offsets),
         pq.queue # << >>, ThreadsDistinct(pq)
  PROVE  /\ ThreadsDistinct(Pop(pq))
         /\ FreeThread(Pop(pq), Head(pq.queue).id, Head(pq.queue).thread)
<1> DEFINE new == Pop(pq)
           n   == Len(pq.queue)
<1>0. Popped(pq, new)
  BY PopEntries
<1> HIDE DEF new
<1>1. /\ n \in Nat \ {0}
      /\ DOMAIN pq.queue = 1 .. n
      /\ DOMAIN new.queue = 1 .. n - 1
      /\ \A i \in 1 .. n - 1 : new.queue[i] = pq.queue[i + 1]
      /\ Head(pq.queue) = pq.queue[1]
      /\ new.next_thread_id = pq.next_thread_id
  BY <1>0 DEF Popped
<1>2. /\ \A i \in 1 .. n - 1 : i + 1 \in 1 .. n /\ i + 1 # 1
      /\ 1 \in 1 .. n
  BY <1>1
<1>3. \A i, j \in 1 .. n - 1 : i + 1 = j + 1 => i = j
  OBVIOUS
<1>4. ASSUME NEW i \in 1 .. n - 1, NEW j \in 1 .. n - 1,
             new.queue[i].id = new.queue[j].id, new.queue[i].thread = new.queue[j].thread
      PROVE  i = j
  <2>1. i + 1 \in 1 .. n /\ j + 1 \in 1 .. n
    BY <1>2
  <2>2. /\ pq.queue[i + 1].id = pq.queue[j + 1].id
        /\ pq.queue[i + 1].thread = pq.queue[j + 1].thread
    BY <1>1, <1>4
  <2>3. i + 1 = j + 1
    BY <1>1, <2>1, <2>2 DEF ThreadsDistinct
  <2> QED BY <1>3, <2>3
<1>5. ASSUME NEW i \in 1 .. n - 1
      PROVE  /\ new.queue[i].thread < new.next_thread_id[new.queue[i].id]
             /\ ~ (/\ new.queue[i].id = Head(pq.queue).id
                   /\ new.queue[i].thread = Head(pq.queue).thread)
  BY <1>1, <1>2 DEF ThreadsDistinct
<1>6. Head(pq.queue).thread < pq.next_thread_id[Head(pq.queue).id]
  BY <1>1, <1>2 DEF ThreadsDistinct
<1>7. ThreadsDistinct(new)
  BY <1>1, <1>4, <1>5 DEF ThreadsDistinct
<1>8. FreeThread(new, Head(pq.queue).id, Head(pq.queue).thread)
  BY <1>1, <1>5, <1>6 DEF FreeThread
<1> QED BY <1>7, <1>8 DEF new

\* A push with a new thread, or with a free one, keeps the thread ids distinct;
\* a push with another thread leaves a free thread free.
LEMMA PushThreads ==
  ASSUME NEW Ids, NEW Offsets, NEW pq \in ProcessQueue(Ids, Offsets),
         NEW id \in Ids, NEW offset \in Offsets, NEW thread \in Nat \cup {NoThread},
         ThreadsDistinct(pq),
         thread = NoThread \/ FreeThread(pq, id, thread)
  PROVE  ThreadsDistinct(Push(pq, id, offset, thread))
<1> DEFINE new == Push(pq, id, offset, thread)
           n   == Len(pq.queue)
           number == IF thread = NoThread THEN pq.next_thread_id[id] ELSE thread
           next   == [pq.next_thread_id EXCEPT ![id] =
                        IF thread = NoThread THEN @ + 1 ELSE @]
<1>0. Pushed(pq, new, id, offset, thread)
  BY PushEntries
<1> HIDE DEF new
<1>1. /\ n \in Nat
      /\ DOMAIN pq.queue = 1 .. n
      /\ DOMAIN new.queue = 1 .. n + 1
      /\ \A i \in 1 .. n : new.queue[i] = pq.queue[i]
      /\ new.queue[n + 1] = [id |-> id, offset |-> offset, thread |-> number]
      /\ pq.next_thread_id \in [Ids -> Nat]
      /\ new.next_thread_id = next
  BY <1>0 DEF Pushed, ProcessQueue
<1>a. new.queue[n + 1].id = id /\ new.queue[n + 1].thread = number
  BY <1>1
<1>b. /\ \A w \in Ids : w # id => next[w] = pq.next_thread_id[w]
      /\ next[id] = IF thread = NoThread THEN pq.next_thread_id[id] + 1
                                          ELSE pq.next_thread_id[id]
  BY <1>1
<1>2. \A i \in 1 .. n : /\ pq.queue[i].id \in Ids
                        /\ pq.queue[i].thread \in Nat
  <2>1. \A i \in 1 .. n : pq.queue[i] \in Entry(Ids, Offsets)
    BY <1>1, ElementOfSeq DEF ProcessQueue
  <2> QED BY <2>1 DEF Entry
<1>3. \A i \in 1 .. n :
         ~ (pq.queue[i].id = id /\ pq.queue[i].thread = number)
  <2>1. CASE thread = NoThread
    <3>1. \A i \in 1 .. n : pq.queue[i].thread < pq.next_thread_id[pq.queue[i].id]
      BY <1>1 DEF ThreadsDistinct
    <3>2. number = pq.next_thread_id[id] /\ number \in Nat
      BY <1>1, <2>1
    <3> HIDE DEF number
    <3> QED BY <1>2, <3>1, <3>2
  <2>2. CASE thread # NoThread
    BY <1>1, <2>2 DEF FreeThread
  <2> QED BY <2>1, <2>2
<1>4. \A i, j \in 1 .. n + 1 :
         new.queue[i].id = new.queue[j].id /\ new.queue[i].thread = new.queue[j].thread
           => i = j
  <2> SUFFICES ASSUME NEW i \in 1 .. n + 1, NEW j \in 1 .. n + 1,
                      new.queue[i].id = new.queue[j].id,
                      new.queue[i].thread = new.queue[j].thread
               PROVE  i = j
    OBVIOUS
  <2>1. CASE i \in 1 .. n /\ j \in 1 .. n
    BY <1>1, <2>1 DEF ThreadsDistinct
  <2>2. CASE i = n + 1 \/ j = n + 1
    <3>1. new.queue[i].id = id /\ new.queue[i].thread = number
      BY <1>1, <1>a, <2>2
    <3>2. new.queue[j].id = id /\ new.queue[j].thread = number
      BY <1>1, <1>a, <2>2
    <3>3. i \notin 1 .. n
      BY <1>1, <1>3, <3>1
    <3>4. j \notin 1 .. n
      BY <1>1, <1>3, <3>2
    <3> QED BY <1>1, <3>3, <3>4
  <2> QED BY <1>1, <2>1, <2>2
<1>5. \A i \in 1 .. n + 1 : new.queue[i].thread < new.next_thread_id[new.queue[i].id]
  <2>1. ASSUME NEW i \in 1 .. n
        PROVE  new.queue[i].thread < new.next_thread_id[new.queue[i].id]
    <3>1. pq.queue[i].thread < pq.next_thread_id[pq.queue[i].id]
      BY <1>1 DEF ThreadsDistinct
    <3>2. /\ pq.queue[i].id \in Ids /\ pq.queue[i].thread \in Nat
          /\ pq.next_thread_id[pq.queue[i].id] \in Nat
      BY <1>1, <1>2
    <3>3. next[pq.queue[i].id] >= pq.next_thread_id[pq.queue[i].id]
      BY <1>1, <1>b, <3>2
    <3>4. next[pq.queue[i].id] \in Nat
      BY <1>1, <3>2
    <3>5. new.queue[i] = pq.queue[i] /\ new.next_thread_id = next
      BY <1>1
    <3> HIDE DEF next
    <3>6. pq.queue[i].thread < next[pq.queue[i].id]
      BY <3>1, <3>2, <3>3, <3>4
    <3> QED BY <3>5, <3>6
  <2>2. new.queue[n + 1].thread < new.next_thread_id[id]
    <3>1. CASE thread = NoThread
      BY <1>1, <1>a, <1>b, <3>1
    <3>2. CASE thread # NoThread
      BY <1>1, <1>a, <1>b, <3>2 DEF FreeThread
    <3> QED BY <3>1, <3>2
  <2> QED BY <1>1, <1>a, <2>1, <2>2
<1> QED BY <1>1, <1>4, <1>5 DEF ThreadsDistinct, new

-----------------------------------------------------------------------------
(* Counts.                                                                 *)

LEMMA TasksFinite ==
  ASSUME NEW Ids, NEW Offsets, NEW pq \in ProcessQueue(Ids, Offsets), NEW w
  PROVE  /\ TasksOf(pq, w) \subseteq 1 .. Len(pq.queue)
         /\ IsFiniteSet(TasksOf(pq, w))
         /\ Cardinality(TasksOf(pq, w)) \in Nat
<1>1. pq.queue \in Seq(Entry(Ids, Offsets))
  BY DEF ProcessQueue
<1>2. Len(pq.queue) \in Nat /\ DOMAIN pq.queue = 1 .. Len(pq.queue)
  BY <1>1
<1>3. TasksOf(pq, w) \subseteq 1 .. Len(pq.queue)
  BY <1>2 DEF TasksOf
<1>4. IsFiniteSet(1 .. Len(pq.queue))
  BY <1>2, FS_Interval
<1>5. IsFiniteSet(TasksOf(pq, w))
  BY <1>3, <1>4, FS_Subset
<1> QED BY <1>3, <1>5, FS_CardinalityType

LEMMA FrontTask ==
  ASSUME NEW Ids, NEW Offsets, NEW pq \in ProcessQueue(Ids, Offsets),
         pq.queue # << >>
  PROVE  TasksOf(pq, Head(pq.queue).id) # {}
<1>1. Popped(pq, Pop(pq))
  BY PopEntries
<1>2. 1 \in TasksOf(pq, Head(pq.queue).id)
  BY <1>1 DEF Popped, TasksOf
<1> QED BY <1>2

\* A pop takes the front task from its warrior and moves the others up by one.
LEMMA PopTasks ==
  ASSUME NEW Ids, NEW Offsets, NEW pq \in ProcessQueue(Ids, Offsets),
         pq.queue # << >>, NEW w
  PROVE  Cardinality(TasksOf(Pop(pq), w)) =
           IF w = Head(pq.queue).id THEN Cardinality(TasksOf(pq, w)) - 1
                                    ELSE Cardinality(TasksOf(pq, w))
<1> DEFINE new   == Pop(pq)
           n     == Len(pq.queue)
           rest  == TasksOf(pq, w) \ {1}
           shift == [i \in rest |-> i - 1]
<1>0. Popped(pq, new)
  BY PopEntries
<1>a. new \in ProcessQueue(Ids, Offsets)
  BY PopType
<1> HIDE DEF new
<1>1. /\ n \in Nat \ {0}
      /\ DOMAIN pq.queue = 1 .. n
      /\ DOMAIN new.queue = 1 .. n - 1
      /\ \A i \in 1 .. n - 1 : new.queue[i] = pq.queue[i + 1]
      /\ Head(pq.queue) = pq.queue[1]
  BY <1>0 DEF Popped
<1>2. \A i \in rest : i \in 2 .. n /\ pq.queue[i].id = w
  BY <1>1 DEF TasksOf
<1>3. \A i \in TasksOf(new, w) : i \in 1 .. n - 1 /\ i + 1 \in rest
  BY <1>1 DEF TasksOf
<1>4. \A i \in rest : i - 1 \in TasksOf(new, w)
  <2> SUFFICES ASSUME NEW i \in rest PROVE i - 1 \in TasksOf(new, w)
    OBVIOUS
  <2>1. i \in 2 .. n /\ pq.queue[i].id = w
    BY <1>2
  <2>2. i - 1 \in 1 .. n - 1 /\ (i - 1) + 1 = i
    BY <1>1, <2>1
  <2>3. new.queue[i - 1] = pq.queue[i]
    BY <1>1, <2>2
  <2> QED BY <1>1, <2>1, <2>2, <2>3 DEF TasksOf
<1>5. shift \in Bijection(rest, TasksOf(new, w))
  <2>1. shift \in [rest -> TasksOf(new, w)]
    BY <1>4
  <2>2. \A i, j \in rest : shift[i] = shift[j] => i = j
    BY <1>1, <1>2
  <2>3. \A j \in TasksOf(new, w) : j + 1 \in rest /\ shift[j + 1] = j
    BY <1>3
  <2> HIDE DEF shift, rest
  <2> QED BY <2>1, <2>2, <2>3, Fun_IsBij
<1>6. /\ IsFiniteSet(TasksOf(pq, w))
      /\ Cardinality(TasksOf(pq, w)) \in Nat
  BY TasksFinite
<1>7. /\ IsFiniteSet(rest)
      /\ Cardinality(rest) = IF 1 \in TasksOf(pq, w)
                               THEN Cardinality(TasksOf(pq, w)) - 1
                               ELSE Cardinality(TasksOf(pq, w))
  BY <1>6, FS_RemoveElement
<1>8. Cardinality(TasksOf(new, w)) = Cardinality(rest)
  BY <1>5, <1>7, FS_Bijection DEF ExistsBijection
<1>9. 1 \in TasksOf(pq, w) <=> w = Head(pq.queue).id
  BY <1>1 DEF TasksOf
<1> QED BY <1>7, <1>8, <1>9 DEF new

\* A push gives its warrior one task more.
LEMMA PushTasks ==
  ASSUME NEW Ids, NEW Offsets, NEW pq \in ProcessQueue(Ids, Offsets),
         NEW id \in Ids, NEW offset \in Offsets, NEW thread \in Nat \cup {NoThread},
         NEW w \in Ids
  PROVE  Cardinality(TasksOf(Push(pq, id, offset, thread), w)) =
           IF w = id THEN Cardinality(TasksOf(pq, w)) + 1
                     ELSE Cardinality(TasksOf(pq, w))
<1> DEFINE new == Push(pq, id, offset, thread)
           n   == Len(pq.queue)
<1>0. Pushed(pq, new, id, offset, thread)
  BY PushEntries
<1> HIDE DEF new
<1>1. /\ n \in Nat
      /\ DOMAIN pq.queue = 1 .. n
      /\ DOMAIN new.queue = 1 .. n + 1
      /\ \A i \in 1 .. n : new.queue[i] = pq.queue[i]
      /\ new.queue[n + 1].id = id
  BY <1>0 DEF Pushed
<1>2. n + 1 \notin TasksOf(pq, w)
  BY <1>1 DEF TasksOf
<1>3. TasksOf(new, w) = IF w = id THEN TasksOf(pq, w) \cup {n + 1} ELSE TasksOf(pq, w)
  <2>1. 1 .. n + 1 = (1 .. n) \cup {n + 1} /\ n + 1 \notin 1 .. n
    BY <1>1
  <2> QED BY <1>1, <2>1 DEF TasksOf
<1>4. IsFiniteSet(TasksOf(pq, w))
  BY TasksFinite
<1> QED BY <1>2, <1>3, <1>4, FS_AddElement DEF new

\* Which warriors are without a task after a push.
LEMMA PushStanding ==
  ASSUME NEW Ids, NEW Offsets, NEW pq \in ProcessQueue(Ids, Offsets),
         NEW id \in Ids, NEW offset \in Offsets, NEW thread \in Nat \cup {NoThread},
         NEW w \in Ids
  PROVE  TasksOf(Push(pq, id, offset, thread), w) = {}
           <=> w # id /\ TasksOf(pq, w) = {}
<1>1. Push(pq, id, offset, thread) \in ProcessQueue(Ids, Offsets)
  BY PushType
<1>2. \A q \in ProcessQueue(Ids, Offsets) :
         /\ Cardinality(TasksOf(q, w)) \in Nat
         /\ TasksOf(q, w) = {} <=> Cardinality(TasksOf(q, w)) = 0
  BY TasksFinite, FS_EmptySet
<1>3. Cardinality(TasksOf(Push(pq, id, offset, thread), w)) =
        IF w = id THEN Cardinality(TasksOf(pq, w)) + 1 ELSE Cardinality(TasksOf(pq, w))
  BY PushTasks
<1> QED BY <1>1, <1>2, <1>3

\* Both keep the counts those of the queue, so pop's subtraction never saturates.
LEMMA PopAccounted ==
  ASSUME NEW Ids, NEW Offsets, NEW pq \in ProcessQueue(Ids, Offsets),
         pq.queue # << >>, Accounted(pq, Ids)
  PROVE  Accounted(Pop(pq), Ids)
<1> SUFFICES ASSUME NEW w \in Ids
             PROVE  Pop(pq).processes[w] = Cardinality(TasksOf(Pop(pq), w))
  BY DEF Accounted
<1> DEFINE id == Head(pq.queue).id
<1>0. Popped(pq, Pop(pq))
  BY PopEntries
<1>1. /\ Pop(pq).processes =
           [pq.processes EXCEPT ![id] = IF @ = 0 THEN 0 ELSE @ - 1]
      /\ pq.processes \in [Ids -> Nat]
      /\ id \in Ids
  BY <1>0, HeadType DEF Popped, ProcessQueue, Entry
<1>2. pq.processes[w] = Cardinality(TasksOf(pq, w))
  BY DEF Accounted
<1>3. w = id => Cardinality(TasksOf(pq, w)) # 0
  BY FrontTask, TasksFinite, FS_EmptySet
<1>4. Cardinality(TasksOf(Pop(pq), w)) =
           IF w = id THEN Cardinality(TasksOf(pq, w)) - 1
                     ELSE Cardinality(TasksOf(pq, w))
  BY PopTasks
<1> HIDE DEF id
<1> QED BY <1>1, <1>2, <1>3, <1>4

LEMMA PushAccounted ==
  ASSUME NEW Ids, NEW Offsets, NEW pq \in ProcessQueue(Ids, Offsets),
         NEW id \in Ids, NEW offset \in Offsets, NEW thread \in Nat \cup {NoThread},
         Accounted(pq, Ids)
  PROVE  Accounted(Push(pq, id, offset, thread), Ids)
<1> DEFINE new == Push(pq, id, offset, thread)
<1>1. /\ new.processes = [pq.processes EXCEPT ![id] = @ + 1]
      /\ pq.processes \in [Ids -> Nat]
  BY DEF Push, ProcessQueue
<1>2. ASSUME NEW w \in Ids
      PROVE  Cardinality(TasksOf(new, w)) =
               IF w = id THEN Cardinality(TasksOf(pq, w)) + 1
                         ELSE Cardinality(TasksOf(pq, w))
  BY PushTasks
<1> HIDE DEF new
<1>3. Accounted(new, Ids)
  BY <1>1, <1>2 DEF Accounted
<1> QED BY <1>3 DEF new

-----------------------------------------------------------------------------
(* The battle and its warriors.                                            *)

LEMMA BattleTypes ==
  ASSUME TypeOK
  PROVE  /\ config \in Config
         /\ config.max_cycles \in Nat
         /\ warriors \in Seq(Warrior)
         /\ num_warriors \in Nat
         /\ WarriorID \subseteq Nat
         /\ IsFiniteSet(WarriorID)
         /\ Cardinality(WarriorID) = num_warriors
<1>1. battle \in [config : Config, warriors : Seq(Warrior)]
  BY BattlesAssumption DEF TypeOK
<1>2. config \in Config /\ warriors \in Seq(Warrior)
  BY <1>1 DEF config, warriors
<1>3. num_warriors \in Nat
  BY <1>2 DEF num_warriors
<1>4. config.max_cycles \in Nat
  BY <1>2 DEF Config
<1>5. WarriorID \subseteq Nat
  BY <1>3 DEF WarriorID
<1>6. /\ IsFiniteSet(0 .. num_warriors - 1)
      /\ Cardinality(0 .. num_warriors - 1) = num_warriors
  <2>1. 0 \in Int /\ num_warriors - 1 \in Int
    BY <1>3
  <2>2. /\ IsFiniteSet(0 .. num_warriors - 1)
        /\ Cardinality(0 .. num_warriors - 1) =
             IF 0 > num_warriors - 1 THEN 0 ELSE (num_warriors - 1) - 0 + 1
    BY <2>1, FS_Interval
  <2> QED BY <1>3, <2>2
<1> QED BY <1>2, <1>3, <1>4, <1>5, <1>6 DEF WarriorID

LEMMA ProgramTypes ==
  ASSUME TypeOK, NEW id \in WarriorID
  PROVE  /\ Program(id) \in Seq(InstructionOf(Int))
         /\ Len(Program(id)) \in Nat
         /\ \A i \in 1 .. Len(Program(id)) : Program(id)[i] \in InstructionOf(Int)
         /\ Origin(id) \in Int
<1>1. warriors \in Seq(Warrior) /\ num_warriors \in Nat
  BY BattleTypes
<1>2. id + 1 \in 1 .. Len(warriors)
  BY <1>1 DEF WarriorID, num_warriors
<1>3. warriors[id + 1] \in Warrior
  BY <1>1, <1>2, ElementOfSeq
<1>4. Program(id) \in Seq(InstructionOf(Int)) /\ Origin(id) \in 0 .. MaxInt
  BY <1>3 DEF Warrior, Program, Origin
<1>5. Len(Program(id)) \in Nat
  BY <1>4
<1>6. \A i \in 1 .. Len(Program(id)) : Program(id)[i] \in InstructionOf(Int)
  BY <1>4, ElementOfSeq
<1> QED BY <1>4, <1>5, <1>6, MaxIntAssumption

\* Writing a program keeps the memory one of normalised instructions.
LEMMA WrittenType ==
  ASSUME NEW mem \in Memory, NEW base \in Int, NEW program,
         Len(program) \in Nat,
         \A i \in 1 .. Len(program) : program[i] \in InstructionOf(Int)
  PROVE  Written(mem, base, program) \in Memory
<1>1. ASSUME NEW a \in Addr, a - base \in 0 .. Len(program) - 1
      PROVE  Normalize(program[a - base + 1]) \in Instruction
  <2>1. a \in Int
    BY CoreSizeAssumption, MaxIntAssumption DEF Addr
  <2>2. a - base + 1 \in 1 .. Len(program)
    BY <1>1, <2>1
  <2> QED BY <2>2, NormalizeType
<1>2. \A a \in Addr : mem[a] \in Instruction
  BY DEF Memory
<1> QED BY <1>1, <1>2 DEF Written, Memory

-----------------------------------------------------------------------------
(* The task that is run, and the queue after it.                           *)

\* The task at the front is of one of the warriors and in the core, and what
\* executing it returns is an outcome.
LEMMA TaskTypes ==
  ASSUME TypeOK, process_queue.queue # << >>
  PROVE  /\ Task \in Entry(WarriorID, Addr)
         /\ Task.id \in WarriorID
         /\ Task.thread \in Nat
         /\ Task.offset \in Addr
         /\ Executed \in Outcome
<1>1. Task \in Entry(WarriorID, Addr)
  BY HeadType DEF TypeOK, Task
<1>2. Task.id \in WarriorID /\ Task.thread \in Nat /\ Task.offset \in Addr
  BY <1>1 DEF Entry
<1>3. Executed \in Outcome
  BY <1>2, ExecuteInCore DEF TypeOK, Executed
<1> QED BY <1>1, <1>2, <1>3

\* What a step that does not fail does to the queue, whichever task it is and
\* whether or not it splits: the properties of the queue survive, the warrior
\* keeps at least one task, and the other warriors keep theirs.
LEMMA RequeuedQueue ==
  ASSUME NEW Ids, NEW pq \in ProcessQueue(Ids, Addr), pq.queue # << >>,
         NEW executed \in Outcome
  PROVE  LET task == Head(pq.queue)
             new  == Requeued(pq, task, executed)
         IN  /\ new \in ProcessQueue(Ids, Addr)
             /\ Accounted(pq, Ids) => Accounted(new, Ids)
             /\ ThreadsDistinct(pq) => ThreadsDistinct(new)
             /\ TasksOf(new, task.id) # {}
             /\ \A w \in Ids \ {task.id} :
                   Cardinality(TasksOf(new, w)) = Cardinality(TasksOf(pq, w))
<1> DEFINE task   == Head(pq.queue)
           popped == Pop(pq)
           kept   == IF executed.split
                       THEN Push(popped, task.id, AddInt(task.offset, 1), task.thread)
                       ELSE popped
           pc     == Add(task.offset, executed.offset)
           thread == IF executed.split THEN NoThread ELSE task.thread
           new    == Push(kept, task.id, pc, thread)
<1>1. /\ task \in Entry(Ids, Addr)
      /\ task.id \in Ids /\ task.thread \in Nat /\ task.offset \in Addr
  BY HeadType DEF Entry
<1>2. AddInt(task.offset, 1) \in Addr /\ pc \in Addr
  <2>1. executed.offset \in Int /\ 1 \in Int
    BY CoreSizeAssumption, MaxIntAssumption DEF Outcome, Addr
  <2> HIDE DEF task
  <2> QED BY <1>1, <2>1, ArithmeticInCore
<1>3. popped \in ProcessQueue(Ids, Addr)
  BY PopType
<1>4. Accounted(pq, Ids) => Accounted(popped, Ids)
  BY PopAccounted
<1>5. ThreadsDistinct(pq) => /\ ThreadsDistinct(popped)
                             /\ FreeThread(popped, task.id, task.thread)
  BY PopThreads
<1>6. \A w \in Ids \ {task.id} :
         Cardinality(TasksOf(popped, w)) = Cardinality(TasksOf(pq, w))
  BY PopTasks
<1> DEFINE at == AddInt(task.offset, 1)
<1> HIDE DEF task, popped, pc, at
<1>7. executed.split \in BOOLEAN /\ thread \in Nat \cup {NoThread}
  BY <1>1 DEF Outcome
<1>8. task.thread \in Nat \cup {NoThread} /\ at \in Addr
  BY <1>1, <1>2 DEF at
<1>9. /\ kept \in ProcessQueue(Ids, Addr)
      /\ Accounted(popped, Ids) => Accounted(kept, Ids)
      /\ /\ ThreadsDistinct(popped)
         /\ FreeThread(popped, task.id, task.thread)
         => /\ ThreadsDistinct(kept)
            /\ thread = NoThread \/ FreeThread(kept, task.id, thread)
      /\ \A w \in Ids \ {task.id} :
            Cardinality(TasksOf(kept, w)) = Cardinality(TasksOf(popped, w))
  <2>1. CASE executed.split
    <3>1. kept = Push(popped, task.id, at, task.thread) /\ thread = NoThread
      BY <2>1 DEF at
    <3> HIDE DEF kept, thread
    <3>2. kept \in ProcessQueue(Ids, Addr)
      BY <1>1, <1>3, <1>8, <3>1, PushType
    <3>3. Accounted(popped, Ids) => Accounted(kept, Ids)
      BY <1>1, <1>3, <1>8, <3>1, PushAccounted
    <3>4. /\ ThreadsDistinct(popped)
          /\ FreeThread(popped, task.id, task.thread)
          => ThreadsDistinct(kept)
      BY <1>1, <1>3, <1>8, <3>1, PushThreads
    <3>5. \A w \in Ids \ {task.id} :
             Cardinality(TasksOf(kept, w)) = Cardinality(TasksOf(popped, w))
      BY <1>1, <1>3, <1>8, <3>1, PushTasks
    <3> QED BY <3>1, <3>2, <3>3, <3>4, <3>5
  <2>2. CASE ~ executed.split
    <3>1. kept = popped /\ thread = task.thread
      BY <2>2
    <3> QED BY <1>3, <3>1
  <2> QED BY <1>7, <2>1, <2>2
<1> HIDE DEF kept, thread
<1>10. new \in ProcessQueue(Ids, Addr)
  BY <1>1, <1>2, <1>7, <1>9, PushType
<1>11. Accounted(kept, Ids) => Accounted(new, Ids)
  BY <1>1, <1>2, <1>7, <1>9, PushAccounted
<1>12. /\ ThreadsDistinct(kept)
       /\ thread = NoThread \/ FreeThread(kept, task.id, thread)
       => ThreadsDistinct(new)
  BY <1>1, <1>2, <1>7, <1>9, PushThreads
<1>13. ASSUME NEW w \in Ids
       PROVE  Cardinality(TasksOf(new, w)) =
                IF w = task.id THEN Cardinality(TasksOf(kept, w)) + 1
                               ELSE Cardinality(TasksOf(kept, w))
  BY <1>1, <1>2, <1>7, <1>9, PushTasks
<1>14. TasksOf(new, task.id) # {}
  <2>1. Cardinality(TasksOf(kept, task.id)) \in Nat
    BY <1>9, TasksFinite
  <2>2. Cardinality(TasksOf(new, task.id)) # 0
    BY <1>1, <1>13, <2>1
  <2> QED BY <2>2, FS_EmptySet
<1>15. \A w \in Ids \ {task.id} :
          Cardinality(TasksOf(new, w)) = Cardinality(TasksOf(pq, w))
  BY <1>6, <1>9, <1>13
<1>16. new = Requeued(pq, Head(pq.queue), executed)
  BY DEF Requeued, new, kept, thread, popped, pc, task
<1> HIDE DEF new
<1> QED BY <1>4, <1>5, <1>9, <1>10, <1>11, <1>12, <1>14, <1>15, <1>16 DEF task

-----------------------------------------------------------------------------
(* Types.                                                                  *)

LEMMA InitTypes == Init => TypeOK
<1> SUFFICES ASSUME Init PROVE TypeOK
  OBVIOUS
<1>1. battle \in [config : Config, warriors : Seq(Warrior)]
  BY BattlesAssumption DEF Init
<1>2. num_warriors \in Nat /\ config.max_cycles \in Nat
  BY <1>1 DEF num_warriors, warriors, config, Config
<1>3. DefaultInstruction \in Instruction
  <2>1. 0 \in Addr
    BY CoreSizeAssumption, MaxIntAssumption DEF Addr
  <2>2. DefaultField \in FieldOf(Addr)
    BY <2>1 DEF DefaultField, FieldOf, AddressMode
  <2> QED BY <2>2 DEF DefaultInstruction, Instruction, InstructionOf, Opcode, Modifier
<1>4. EmptyQueue(WarriorID) \in ProcessQueue(WarriorID, Addr)
  BY DEF EmptyQueue, ProcessQueue
<1>5. instructions \in Memory
  BY <1>3 DEF Init, Memory
<1>6. results \in [WarriorID -> Verdicts]
  BY DEF Init, Verdicts
<1> QED BY <1>2, <1>4, <1>5, <1>6 DEF Init, TypeOK, Phases

\* The names that only depend on the battle keep their meaning.
LEMMA SameBattle ==
  ASSUME battle' = battle
  PROVE  /\ config' = config /\ num_warriors' = num_warriors
         /\ WarriorID' = WarriorID
         /\ \A id : Program(id)' = Program(id) /\ Origin(id)' = Origin(id)
  BY DEF config, num_warriors, warriors, WarriorID, Program, Origin

LEMMA NextTypes == TypeOK /\ [Next]_vars => TypeOK'
<1> SUFFICES ASSUME TypeOK, [Next]_vars PROVE TypeOK'
  OBVIOUS
<1>t. /\ battle \in Battles /\ phase \in Phases /\ instructions \in Memory
      /\ process_queue \in ProcessQueue(WarriorID, Addr)
      /\ loaded \in 0 .. num_warriors
      /\ steps_taken \in 0 .. config.max_cycles
      /\ results \in [WarriorID -> Verdicts]
  BY DEF TypeOK
<1>n. num_warriors \in Nat /\ config.max_cycles \in Nat
  BY BattleTypes
<1>1. ASSUME NEW p \in Phases, Become(p) PROVE TypeOK'
  BY <1>t, <1>1, SameBattle DEF Become, TypeOK
<1>2. CASE LoadWarrior
  <2>1. loaded \in WarriorID /\ loaded + 1 \in 0 .. num_warriors
    BY <1>t, <1>n, <1>2 DEF LoadWarrior, WarriorID
  <2>2. PICK base \in Places(loaded) :
          /\ base + Len(Program(loaded)) <= CoreSize
          /\ instructions' = Written(instructions, base, Program(loaded))
          /\ process_queue' = Push(process_queue, loaded,
                                   New(Wrap(base + Origin(loaded))), NoThread)
    BY <1>2 DEF LoadWarrior
  <2>3. base \in Int
    BY CoreSizeAssumption, MaxIntAssumption DEF Places, New
  <2>4. instructions' \in Memory
    BY <1>t, <2>1, <2>2, <2>3, ProgramTypes, WrittenType
  <2>5. New(Wrap(base + Origin(loaded))) \in Addr
    <3>1. base + Origin(loaded) \in Int
      BY <2>1, <2>3, ProgramTypes
    <3> QED BY <3>1, WrapIsInt, NewInCore
  <2>6. process_queue' \in ProcessQueue(WarriorID, Addr)
    BY <1>t, <2>1, <2>2, <2>5, PushType
  <2> QED BY <1>t, <1>2, <2>1, <2>4, <2>6, SameBattle DEF LoadWarrior, TypeOK
<1>3. ASSUME Stepping
      PROVE  /\ steps_taken + 1 \in 0 .. config.max_cycles
             /\ Executed.mem \in Memory
             /\ Pop(process_queue) \in ProcessQueue(WarriorID, Addr)
             /\ Requeued(process_queue, Task, Executed) \in ProcessQueue(WarriorID, Addr)
  <2>1. process_queue.queue # << >> /\ steps_taken < config.max_cycles
    BY <1>3 DEF Stepping
  <2>2. Executed \in Outcome
    BY <2>1, TaskTypes
  <2>3. steps_taken + 1 \in 0 .. config.max_cycles
    BY <1>t, <1>n, <2>1
  <2>4. Pop(process_queue) \in ProcessQueue(WarriorID, Addr)
    BY <1>t, <2>1, PopType
  <2>5. Requeued(process_queue, Task, Executed) \in ProcessQueue(WarriorID, Addr)
    BY <1>t, <2>1, <2>2, RequeuedQueue DEF Task
  <2> QED BY <2>2, <2>3, <2>4, <2>5 DEF Outcome
<1>4. CASE TaskDies
  <2>1. results' \in [WarriorID -> Verdicts]
    BY <1>t, <1>4 DEF TaskDies, LossOfLast, Verdicts
  <2>2. phase' \in Phases
    BY <1>t, <1>4 DEF TaskDies, Phases
  <2> QED BY <1>t, <1>3, <1>4, <2>1, <2>2, SameBattle DEF TaskDies, TypeOK
<1>5. CASE TaskGoesOn
  <2>1. phase' \in Phases
    BY <1>t, <1>5 DEF TaskGoesOn, Phases
  <2> QED BY <1>t, <1>3, <1>5, <2>1, SameBattle DEF TaskGoesOn, TypeOK
<1>6. CASE Conclude
  <2>1. results' \in [WarriorID -> Verdicts]
    BY <1>t, <1>6 DEF Conclude, VerdictsOf, Verdicts
  <2> QED BY <1>t, <1>6, <2>1, SameBattle DEF Conclude, TypeOK, Phases
<1>7. CASE UNCHANGED vars
  BY <1>t, <1>7, SameBattle DEF vars, TypeOK
<1>8. LoadNobody \/ LoadRefused \/ LoadBegins \/ LoadPanics \/ LoadRejects \/ Run
      \/ TaskPanics \/ Halt \/ OutOfCycles
        => \E p \in Phases : Become(p)
  BY DEF LoadNobody, LoadRefused, LoadBegins, LoadPanics, LoadRejects, Run,
         TaskPanics, Halt, OutOfCycles, Phases
<1> QED
  BY <1>1, <1>2, <1>4, <1>5, <1>6, <1>7, <1>8 DEF Next, Step, Load, Cycle, Rest

\* Every cell, queue entry, counter and verdict stays in its type, in every core
\* and for all warriors: no offset and no field value ever leaves the core.
THEOREM TypeCorrect == Spec => []TypeOK
  BY InitTypes, NextTypes, PTL DEF Spec

-----------------------------------------------------------------------------
(* The counts and the thread ids.                                          *)

LEMMA InitQueue == Init => QueueAccounting /\ ThreadsUnique
<1> SUFFICES ASSUME Init PROVE QueueAccounting /\ ThreadsUnique
  OBVIOUS
<1>1. /\ process_queue.queue = << >>
      /\ process_queue.processes = [w \in WarriorID |-> 0]
  BY DEF Init, EmptyQueue
<1>2. \A w : TasksOf(process_queue, w) = {}
  BY <1>1 DEF TasksOf
<1>3. QueueAccounting
  BY <1>1, <1>2, FS_EmptySet DEF QueueAccounting, Accounted
<1>4. ThreadsUnique
  BY <1>1 DEF ThreadsUnique, ThreadsDistinct
<1> QED BY <1>3, <1>4

\* A loaded warrior gets one task with a new thread, in the core.
LEMMA LoadedQueue ==
  ASSUME TypeOK, LoadWarrior
  PROVE  /\ loaded \in WarriorID
         /\ \E offset \in Addr :
              process_queue' = Push(process_queue, loaded, offset, NoThread)
<1>1. loaded \in WarriorID
  BY BattleTypes DEF LoadWarrior, WarriorID, TypeOK
<1>2. PICK base \in Places(loaded) :
        process_queue' = Push(process_queue, loaded,
                              New(Wrap(base + Origin(loaded))), NoThread)
  BY DEF LoadWarrior
<1>3. base + Origin(loaded) \in Int
  <2>1. base \in Int
    BY CoreSizeAssumption, MaxIntAssumption DEF Places, New
  <2> QED BY <1>1, <2>1, ProgramTypes
<1>4. New(Wrap(base + Origin(loaded))) \in Addr
  BY <1>3, WrapIsInt, NewInCore
<1> QED BY <1>1, <1>2, <1>4

\* Every step either leaves the queue alone, loads a warrior into it, takes the
\* front task away or puts it back, possibly split.
LEMMA QueueSteps ==
  ASSUME TypeOK, [Next]_vars
  PROVE  \/ process_queue' = process_queue
         \/ /\ LoadWarrior
            /\ loaded \in WarriorID
            /\ \E offset \in Addr :
                 process_queue' = Push(process_queue, loaded, offset, NoThread)
         \/ TaskDies /\ process_queue' = Pop(process_queue)
         \/ TaskGoesOn /\ process_queue' = Requeued(process_queue, Task, Executed)
<1>1. CASE LoadWarrior
  BY <1>1, LoadedQueue
<1>2. CASE TaskDies
  BY <1>2 DEF TaskDies
<1>3. CASE TaskGoesOn
  BY <1>3 DEF TaskGoesOn
<1>4. CASE Conclude \/ UNCHANGED vars
  BY <1>4 DEF Conclude, vars
<1>5. CASE \/ LoadNobody \/ LoadRefused \/ LoadBegins \/ LoadPanics \/ LoadRejects
           \/ Run \/ TaskPanics \/ Halt \/ OutOfCycles
  BY <1>5 DEF LoadNobody, LoadRefused, LoadBegins, LoadPanics, LoadRejects, Run,
              TaskPanics, Halt, OutOfCycles, Become
<1> QED BY <1>1, <1>2, <1>3, <1>4, <1>5 DEF Next, Step, Load, Cycle, Rest

LEMMA NextQueue ==
  TypeOK /\ QueueAccounting /\ ThreadsUnique /\ [Next]_vars
    => QueueAccounting' /\ ThreadsUnique'
<1> SUFFICES ASSUME TypeOK, QueueAccounting, ThreadsUnique, [Next]_vars
             PROVE  QueueAccounting' /\ ThreadsUnique'
  OBVIOUS
<1>1. WarriorID' = WarriorID
  <2>1. battle' = battle
    BY DEF Next, Step, Load, Cycle, Rest, LoadNobody, LoadRefused, LoadBegins,
           LoadPanics, LoadRejects, LoadWarrior, Run, TaskDies, TaskGoesOn,
           TaskPanics, Halt, OutOfCycles, Conclude, Become, vars
  <2> QED BY <2>1, SameBattle
<1>2. /\ process_queue \in ProcessQueue(WarriorID, Addr)
      /\ Accounted(process_queue, WarriorID) /\ ThreadsDistinct(process_queue)
  BY DEF TypeOK, QueueAccounting, ThreadsUnique
<1>3. SUFFICES Accounted(process_queue', WarriorID) /\ ThreadsDistinct(process_queue')
  BY <1>1 DEF QueueAccounting, ThreadsUnique, Accounted, ThreadsDistinct, TasksOf
<1>4. CASE process_queue' = process_queue
  BY <1>2, <1>4
<1>5. ASSUME NEW offset \in Addr, loaded \in WarriorID,
             process_queue' = Push(process_queue, loaded, offset, NoThread)
      PROVE  Accounted(process_queue', WarriorID) /\ ThreadsDistinct(process_queue')
  <2>1. NoThread \in Nat \cup {NoThread}
    OBVIOUS
  <2> QED BY <1>2, <1>5, <2>1, PushAccounted, PushThreads
<1>6. CASE TaskDies /\ process_queue' = Pop(process_queue)
  <2>1. process_queue.queue # << >>
    BY <1>6 DEF TaskDies, Stepping
  <2> QED BY <1>2, <1>6, <2>1, PopAccounted, PopThreads
<1>7. CASE TaskGoesOn /\ process_queue' = Requeued(process_queue, Task, Executed)
  <2>1. process_queue.queue # << >>
    BY <1>7 DEF TaskGoesOn, Stepping
  <2>2. Executed \in Outcome
    BY <2>1, TaskTypes
  <2> QED BY <1>2, <1>7, <2>1, <2>2, RequeuedQueue DEF Task
<1> QED BY <1>4, <1>5, <1>6, <1>7, QueueSteps

\* The counts kept beside the queue are those of the queue in every reachable state,
\* so a warrior is found dead exactly when it is.
THEOREM CountsCorrect == Spec => []QueueAccounting
<1>1. TypeOK /\ QueueAccounting /\ ThreadsUnique /\ [Next]_vars
        => (TypeOK /\ QueueAccounting /\ ThreadsUnique)'
  BY NextTypes, NextQueue
<1> QED BY <1>1, InitTypes, InitQueue, PTL DEF Spec

\* The thread ids of a warrior's tasks are distinct in every reachable state, through
\* splits that hand the thread of the parent on (process.rs:31).
THEOREM ThreadsCorrect == Spec => []ThreadsUnique
<1>1. TypeOK /\ QueueAccounting /\ ThreadsUnique /\ [Next]_vars
        => (TypeOK /\ QueueAccounting /\ ThreadsUnique)'
  BY NextTypes, NextQueue
<1> QED BY <1>1, InitTypes, InitQueue, PTL DEF Spec

-----------------------------------------------------------------------------
(* The results.  The inductive invariant adds to the types and the counts  *)
(* what is known before run begins, and why its loop is still running.     *)

\* Until run begins nobody has a result, and the loaded warriors are those that
\* have a task; from then on the results follow the queue.
Bookkeeping ==
  /\ phase = "new" => loaded = 0
  /\ phase \in {"new", "loading"} =>
       \A w \in WarriorID : /\ results[w] = "Undecided"
                            /\ TasksOf(process_queue, w) = {} <=> w >= loaded
  /\ LossIffFallen

\* Somebody plays; while several do, at least two of them are alive, and when their
\* battle stops somebody is, several of them only when the cycles are used up.
Contested ==
  /\ phase \in {"loading", "running", "stopped"} => num_warriors > 0
  /\ phase = "running" /\ num_warriors > 1 => Cardinality(Survivors(results)) > 1
  /\ phase = "stopped" /\ num_warriors > 1 => Survivors(results) # {}
  /\ phase = "stopped" /\ Cardinality(Survivors(results)) > 1
       => steps_taken = config.max_cycles

IInv == TypeOK /\ QueueAccounting /\ ThreadsUnique /\ Bookkeeping /\ Contested

LEMMA SurvivorsFinite ==
  ASSUME TypeOK, NEW r
  PROVE  /\ IsFiniteSet(Survivors(r))
         /\ Cardinality(Survivors(r)) \in Nat
         /\ Cardinality(Survivors(r)) = 0 <=> Survivors(r) = {}
<1>1. Survivors(r) \subseteq WarriorID
  BY DEF Survivors
<1>2. IsFiniteSet(Survivors(r))
  BY <1>1, BattleTypes, FS_Subset
<1> QED BY <1>2, FS_CardinalityType, FS_EmptySet

LEMMA InitIInv == Init => IInv
<1> SUFFICES ASSUME Init PROVE IInv
  OBVIOUS
<1>1. TypeOK /\ QueueAccounting /\ ThreadsUnique
  BY InitTypes, InitQueue
<1>2. \A w \in WarriorID : w >= 0 /\ results[w] = "Undecided"
                          /\ TasksOf(process_queue, w) = {}
  BY <1>1, BattleTypes DEF Init, EmptyQueue, TasksOf, WarriorID
<1>3. Bookkeeping
  BY <1>2 DEF Init, Bookkeeping, LossIffFallen
<1>4. Contested
  BY DEF Init, Contested
<1> QED BY <1>1, <1>3, <1>4 DEF IInv

\* In the loop of run a warrior is a survivor exactly when it has a task.
LEMMA SurvivorsHaveTasks ==
  ASSUME Bookkeeping, phase \in {"running", "stopped"}
  PROVE  Survivors(results) = { w \in WarriorID : TasksOf(process_queue, w) # {} }
  BY DEF Bookkeeping, LossIffFallen, Survivors

\* What the queue looks like to the warriors after each of the steps that change it.
LEMMA TasksAfter ==
  ASSUME TypeOK, NEW w \in WarriorID
  PROVE  /\ \A id \in WarriorID, offset \in Addr :
              TasksOf(Push(process_queue, id, offset, NoThread), w) = {}
                <=> w # id /\ TasksOf(process_queue, w) = {}
         /\ process_queue.queue # << >> =>
              /\ w # Task.id =>
                   (TasksOf(Pop(process_queue), w) = {}
                      <=> TasksOf(process_queue, w) = {})
              /\ TasksOf(Requeued(process_queue, Task, Executed), w) = {}
                   <=> w # Task.id /\ TasksOf(process_queue, w) = {}
<1>1. process_queue \in ProcessQueue(WarriorID, Addr)
  BY DEF TypeOK
<1>2. /\ IsFiniteSet(TasksOf(process_queue, w))
      /\ Cardinality(TasksOf(process_queue, w)) \in Nat
      /\ TasksOf(process_queue, w) = {} <=> Cardinality(TasksOf(process_queue, w)) = 0
  BY <1>1, TasksFinite, FS_EmptySet
<1>3. ASSUME NEW pq \in ProcessQueue(WarriorID, Addr)
      PROVE  TasksOf(pq, w) = {} <=> Cardinality(TasksOf(pq, w)) = 0
  BY TasksFinite, FS_EmptySet
<1>4. ASSUME NEW id \in WarriorID, NEW offset \in Addr
      PROVE  TasksOf(Push(process_queue, id, offset, NoThread), w) = {}
               <=> w # id /\ TasksOf(process_queue, w) = {}
  <2>1. \A thread \in Nat \cup {NoThread} :
          TasksOf(Push(process_queue, id, offset, thread), w) = {}
            <=> w # id /\ TasksOf(process_queue, w) = {}
    BY <1>1, PushStanding
  <2> QED BY <2>1
<1>5. ASSUME process_queue.queue # << >>, w # Task.id
      PROVE  TasksOf(Pop(process_queue), w) = {} <=> TasksOf(process_queue, w) = {}
  <2>1. Pop(process_queue) \in ProcessQueue(WarriorID, Addr)
    BY <1>1, <1>5, PopType
  <2>2. Cardinality(TasksOf(Pop(process_queue), w)) = Cardinality(TasksOf(process_queue, w))
    BY <1>1, <1>5, PopTasks DEF Task
  <2> QED BY <1>2, <1>3, <2>1, <2>2
<1>6. ASSUME process_queue.queue # << >>
      PROVE  TasksOf(Requeued(process_queue, Task, Executed), w) = {}
               <=> w # Task.id /\ TasksOf(process_queue, w) = {}
  <2>1. Executed \in Outcome
    BY <1>6, TaskTypes
  <2>2. /\ Requeued(process_queue, Task, Executed) \in ProcessQueue(WarriorID, Addr)
        /\ TasksOf(Requeued(process_queue, Task, Executed), Task.id) # {}
        /\ w # Task.id =>
             Cardinality(TasksOf(Requeued(process_queue, Task, Executed), w))
               = Cardinality(TasksOf(process_queue, w))
    BY <1>1, <1>6, <2>1, RequeuedQueue DEF Task
  <2> QED BY <1>2, <1>3, <2>2
<1> QED BY <1>4, <1>5, <1>6

\* The steps that only move the caller of the core on, and where they take it.
Moves ==
  \/ phase = "new" /\ num_warriors > 0 /\ Become("loading")
  \/ phase = "loading" /\ loaded = num_warriors /\ Become("running")
  \/ phase = "running" /\ Become("stopped")
       /\ (process_queue.queue = << >> \/ steps_taken >= config.max_cycles)
  \/ \E p \in {"rejected", "panicked"} : Become(p)

LEMMA StepMoves ==
  ASSUME TypeOK, [Next]_vars
  PROVE  Moves \/ LoadWarrior \/ TaskDies \/ TaskGoesOn \/ Conclude \/ UNCHANGED vars
<1>1. LoadNobody \/ LoadRefused \/ LoadBegins \/ LoadPanics \/ LoadRejects => Moves
  BY DEF LoadNobody, LoadRefused, LoadBegins, LoadPanics, LoadRejects, Moves
<1>2. Run \/ TaskPanics \/ Halt \/ OutOfCycles => Moves
  BY DEF Run, TaskPanics, Halt, OutOfCycles, Moves
<1> QED BY <1>1, <1>2 DEF Next, Step, Load, Cycle, Rest

LEMMA NextBookkeeping ==
  ASSUME TypeOK, QueueAccounting, Bookkeeping, [Next]_vars
  PROVE  Bookkeeping'
<1>b. battle' = battle
  BY StepMoves DEF Moves, Become, LoadWarrior, TaskDies, TaskGoesOn, Conclude, vars
<1>w. WarriorID' = WarriorID /\ num_warriors' = num_warriors
  BY <1>b, SameBattle
<1>t. ASSUME NEW w
      PROVE  TasksOf(process_queue, w)' = TasksOf(process_queue', w)
  BY DEF TasksOf
<1>n. num_warriors \in Nat /\ WarriorID = 0 .. num_warriors - 1
      /\ loaded \in 0 .. num_warriors /\ results \in [WarriorID -> Verdicts]
  BY BattleTypes DEF WarriorID, TypeOK
<1>1. CASE Moves
  <2>1. /\ process_queue' = process_queue /\ results' = results /\ loaded' = loaded
        /\ \/ phase' = "loading" /\ phase = "new"
           \/ phase' = "running" /\ phase = "loading" /\ loaded = num_warriors
           \/ phase' = "stopped" /\ phase = "running"
           \/ phase' \in {"rejected", "panicked"}
    BY <1>1 DEF Moves, Become
  <2>2. CASE phase' = "running"
    <3>1. \A w \in WarriorID : TasksOf(process_queue, w) # {} /\ results[w] = "Undecided"
      BY <1>n, <2>1, <2>2 DEF Bookkeeping
    <3> QED BY <1>w, <1>t, <2>1, <2>2, <3>1 DEF Bookkeeping, LossIffFallen
  <2>3. CASE phase' # "running"
    BY <1>w, <1>t, <2>1, <2>3 DEF Bookkeeping, LossIffFallen
  <2> QED BY <2>2, <2>3
<1>2. CASE LoadWarrior
  <2>1. /\ phase = "loading" /\ phase' = "loading" /\ results' = results
        /\ loaded' = loaded + 1 /\ loaded \in WarriorID
    BY <1>2, <1>n DEF LoadWarrior
  <2>2. PICK offset \in Addr :
          process_queue' = Push(process_queue, loaded, offset, NoThread)
    BY <1>2, LoadedQueue
  <2>3. \A w \in WarriorID : TasksOf(process_queue', w) = {}
                             <=> w # loaded /\ TasksOf(process_queue, w) = {}
    BY <2>1, <2>2, TasksAfter
  <2>4. \A w \in WarriorID : w >= loaded + 1 <=> w # loaded /\ w >= loaded
    BY <1>n
  <2> QED BY <1>w, <1>t, <2>1, <2>3, <2>4 DEF Bookkeeping, LossIffFallen
<1>3. CASE TaskDies
  <2>1. /\ phase = "running" /\ process_queue.queue # << >>
        /\ phase' \in {"running", "stopped"}
        /\ process_queue' = Pop(process_queue)
        /\ results' = LossOfLast(Task.id, Pop(process_queue).processes[Task.id])
    BY <1>3 DEF TaskDies, Stepping
  <2>2. Task.id \in WarriorID
    BY <2>1, TaskTypes
  <2>3. Pop(process_queue).processes[Task.id]
          = Cardinality(TasksOf(Pop(process_queue), Task.id))
    BY <2>1, <2>2, PopAccounted DEF TypeOK, QueueAccounting, Accounted
  <2>4. /\ Cardinality(TasksOf(Pop(process_queue), Task.id)) \in Nat
        /\ Cardinality(TasksOf(Pop(process_queue), Task.id)) = 0
             <=> TasksOf(Pop(process_queue), Task.id) = {}
    BY <2>1, PopType, TasksFinite, FS_EmptySet DEF TypeOK
  <2>5. results' = IF TasksOf(Pop(process_queue), Task.id) = {}
                     THEN [results EXCEPT ![Task.id] = "Loss"] ELSE results
    BY <2>1, <2>3, <2>4 DEF LossOfLast
  <2>6. results[Task.id] = "Undecided"
    <3>1. TasksOf(process_queue, Task.id) # {}
      BY <2>1, FrontTask DEF TypeOK, Task
    <3> QED BY <2>1, <2>2, <3>1 DEF Bookkeeping, LossIffFallen
  <2>7. \A w \in WarriorID : w # Task.id =>
           (TasksOf(process_queue', w) = {} <=> TasksOf(process_queue, w) = {})
    BY <2>1, TasksAfter
  <2>8. \A w \in WarriorID :
          results'[w] = IF TasksOf(process_queue', w) = {} THEN "Loss" ELSE "Undecided"
    BY <1>n, <2>1, <2>2, <2>5, <2>6, <2>7 DEF Bookkeeping, LossIffFallen
  <2> QED BY <1>w, <1>t, <2>1, <2>8 DEF Bookkeeping, LossIffFallen
<1>4. CASE TaskGoesOn
  <2>1. /\ phase = "running" /\ process_queue.queue # << >>
        /\ phase' \in {"running", "stopped"}
        /\ process_queue' = Requeued(process_queue, Task, Executed)
        /\ results' = results
    BY <1>4 DEF TaskGoesOn, Stepping
  <2>2. TasksOf(process_queue, Task.id) # {}
    BY <2>1, FrontTask DEF TypeOK, Task
  <2>3. \A w \in WarriorID : TasksOf(process_queue', w) = {}
                             <=> TasksOf(process_queue, w) = {}
    BY <2>1, <2>2, TasksAfter
  <2> QED BY <1>w, <1>t, <2>1, <2>3 DEF Bookkeeping, LossIffFallen
<1>5. CASE Conclude
  BY <1>5 DEF Conclude, Bookkeeping, LossIffFallen
<1>6. CASE UNCHANGED vars
  BY <1>6, <1>w, <1>t DEF vars, Bookkeeping, LossIffFallen
<1> QED BY <1>1, <1>2, <1>3, <1>4, <1>5, <1>6, StepMoves

LEMMA NextContested ==
  ASSUME TypeOK, QueueAccounting, Bookkeeping, Contested, [Next]_vars
  PROVE  Contested'
<1>b. battle' = battle
  BY StepMoves DEF Moves, Become, LoadWarrior, TaskDies, TaskGoesOn, Conclude, vars
<1>w. /\ WarriorID' = WarriorID /\ num_warriors' = num_warriors /\ config' = config
      /\ num_warriors \in Nat
  BY <1>b, SameBattle, BattleTypes
<1>s. Survivors(results)' = Survivors(results')
  BY <1>w DEF Survivors
<1>t. /\ steps_taken \in Nat /\ config.max_cycles \in Nat
      /\ steps_taken <= config.max_cycles
      /\ results \in [WarriorID -> Verdicts]
  BY BattleTypes DEF TypeOK
<1>f. \A r : /\ IsFiniteSet(Survivors(r))
             /\ Cardinality(Survivors(r)) \in Nat
             /\ Cardinality(Survivors(r)) = 0 <=> Survivors(r) = {}
  BY SurvivorsFinite
<1>1. CASE Moves
  <2>1. /\ results' = results /\ steps_taken' = steps_taken
        /\ \/ phase' = "loading" /\ num_warriors > 0
           \/ phase = "loading" /\ phase' = "running"
           \/ phase = "running" /\ phase' = "stopped"
                /\ (process_queue.queue = << >> \/ steps_taken >= config.max_cycles)
           \/ phase' \in {"rejected", "panicked"}
    BY <1>1 DEF Moves, Become
  <2>2. CASE phase = "loading" /\ phase' = "running"
    <3>1. Survivors(results) = WarriorID
      BY <2>2 DEF Bookkeeping, Survivors
    <3>2. Cardinality(WarriorID) = num_warriors
      BY BattleTypes
    <3> QED BY <1>w, <1>s, <2>1, <2>2, <3>1, <3>2 DEF Contested
  <2>3. CASE phase = "running" /\ phase' = "stopped"
    <3>1. CASE process_queue.queue = << >>
      <4>1. Survivors(results) = {}
        BY <2>3, <3>1, SurvivorsHaveTasks DEF TasksOf
      <4>2. Cardinality(Survivors(results)) = 0
        BY <1>f, <4>1
      <4> QED BY <1>w, <1>s, <2>1, <2>3, <4>1, <4>2 DEF Contested
    <3>2. CASE steps_taken >= config.max_cycles
      <4>1. steps_taken = config.max_cycles
        BY <1>t, <3>2
      <4> QED BY <1>f, <1>w, <1>s, <2>1, <2>3, <4>1 DEF Contested
    <3> QED BY <2>1, <2>3, <3>1, <3>2
  <2>4. CASE phase' \in {"loading", "rejected", "panicked"}
    BY <1>w, <2>1, <2>4 DEF Contested
  <2> QED BY <2>1, <2>2, <2>3, <2>4
<1>2. CASE LoadWarrior
  BY <1>2, <1>w DEF LoadWarrior, Contested
<1>3. CASE TaskDies
  <2>1. /\ phase = "running"
        /\ process_queue.queue # << >>
        /\ results' = results \/ results' = [results EXCEPT ![Task.id] = "Loss"]
        /\ phase' = IF Decided(results') THEN "stopped" ELSE "running"
    BY <1>3 DEF TaskDies, Stepping, LossOfLast
  <2>2. Task.id \in WarriorID
    BY <2>1, TaskTypes
  <2>3. Survivors(results) \ {Task.id} \subseteq Survivors(results')
    BY <1>t, <2>1, <2>2 DEF Survivors
  <2>4. ASSUME num_warriors > 1 PROVE Survivors(results') # {}
    <3>1. Cardinality(Survivors(results)) > 1
      BY <2>1, <2>4 DEF Contested
    <3>2. Cardinality(Survivors(results) \ {Task.id}) # 0
      <4> DEFINE S == Survivors(results)
      <4>1. IsFiniteSet(S) /\ Cardinality(S) \in Nat /\ Cardinality(S) > 1
        BY <1>f, <3>1
      <4> HIDE DEF S
      <4>2. Cardinality(S \ {Task.id}) =
              IF Task.id \in S THEN Cardinality(S) - 1 ELSE Cardinality(S)
        BY <4>1, FS_RemoveElement
      <4>3. Cardinality(S \ {Task.id}) # 0
        BY <4>1, <4>2
      <4> QED BY <4>3 DEF S
    <3> QED BY <2>3, <3>2, FS_EmptySet
  <2>5. ~ Decided(results') /\ num_warriors > 1 => Cardinality(Survivors(results')) > 1
    BY <1>f, <1>w DEF Decided
  <2>6. Decided(results') => ~ (Cardinality(Survivors(results')) > 1)
    BY <1>f DEF Decided
  <2>7. num_warriors > 0
    BY <2>1 DEF Contested
  <2> QED BY <1>w, <1>s, <2>1, <2>4, <2>5, <2>6, <2>7 DEF Contested
<1>4. CASE TaskGoesOn
  <2>1. /\ phase = "running" /\ results' = results
        /\ phase' = IF Decided(results) THEN "stopped" ELSE "running"
    BY <1>4 DEF TaskGoesOn, Stepping
  <2>2. ~ Decided(results)
    BY <1>f, <2>1 DEF Contested, Decided
  <2> QED BY <1>w, <1>s, <2>1, <2>2 DEF Contested
<1>5. CASE Conclude
  BY <1>5 DEF Conclude, Contested
<1>6. CASE UNCHANGED vars
  BY <1>6, <1>w, <1>s DEF vars, Contested
<1> QED BY <1>1, <1>2, <1>3, <1>4, <1>5, <1>6, StepMoves

LEMMA NextIInv == IInv /\ [Next]_vars => IInv'
  BY NextTypes, NextQueue, NextBookkeeping, NextContested DEF IInv

LEMMA Invariance == Spec => []IInv
  BY InitIInv, NextIInv, PTL DEF Spec

\* run records a loss for exactly the warriors that the queue has no task of, in every
\* battle (core/mod.rs:325-352).
THEOREM LossesCorrect == Spec => []LossIffFallen
<1>1. IInv => LossIffFallen
  BY DEF IInv, Bookkeeping
<1> QED BY <1>1, Invariance, PTL

\* With several warriors run never meets step's Halt: a survivor always has a task.
THEOREM SomeoneAlwaysLeft == Spec => []SomeoneLeft
<1>1. IInv => SomeoneLeft
  <2> SUFFICES ASSUME IInv, phase \in {"running", "stopped"}, process_queue.queue = << >>
               PROVE  num_warriors = 1
    BY DEF SomeoneLeft
  <2>1. num_warriors \in Nat /\ num_warriors > 0
    BY BattleTypes DEF IInv, Contested
  <2>2. Survivors(results) = {}
    BY SurvivorsHaveTasks DEF IInv, TasksOf
  <2>3. Cardinality(Survivors(results)) = 0
    BY <2>2, SurvivorsFinite DEF IInv
  <2> QED BY <2>1, <2>2, <2>3 DEF IInv, Contested
<1> QED BY <1>1, Invariance, PTL

\* A loss is final: no later step gives the warrior another verdict or a task.
THEOREM LossesFinal == Spec => NoResurrection
<1> DEFINE Kept == \A w \in WarriorID :
                     results[w] = "Loss" => /\ results'[w] = "Loss"
                                            /\ process_queue'.processes[w] = 0
<1>1. ASSUME IInv, Next, IInv', NEW w \in WarriorID, results[w] = "Loss",
             ~ UNCHANGED vars
      PROVE  results'[w] = "Loss" /\ process_queue'.processes[w] = 0
  <2>s. [Next]_vars
    BY <1>1
  <2>b. battle' = battle /\ WarriorID' = WarriorID
    <3>1. battle' = battle
      BY <2>s, <1>1, StepMoves
      DEF IInv, Moves, Become, LoadWarrior, TaskDies, TaskGoesOn, Conclude, vars
    <3> QED BY <3>1, SameBattle
  <2>1. phase \in {"running", "stopped"}
    <3>1. phase \notin {"new", "loading"}
      BY <1>1 DEF IInv, Bookkeeping
    <3>2. phase \in {"running", "stopped", "finished", "rejected", "panicked"}
      BY <1>1, <3>1 DEF IInv, TypeOK, Phases
    <3>3. CASE phase \in {"finished", "rejected", "panicked"}
      BY <1>1, <2>s, <3>3, StepMoves
      DEF IInv, Next, Step, Load, Run, Cycle, Conclude, Rest, LoadNobody, LoadRefused,
          LoadBegins, LoadPanics, LoadRejects, LoadWarrior, TaskDies, TaskGoesOn,
          TaskPanics, Halt, OutOfCycles, Stepping
    <3> QED BY <3>2, <3>3
  <2>2. TasksOf(process_queue, w) = {} /\ process_queue.processes[w] = 0
    <3>1. TasksOf(process_queue, w) = {}
      BY <1>1, <2>1 DEF IInv, Bookkeeping, LossIffFallen
    <3> QED BY <1>1, <3>1, FS_EmptySet DEF IInv, QueueAccounting, Accounted
  <2>3. CASE process_queue' = process_queue /\ results' = results
    BY <1>1, <2>2, <2>3
  <2>4. CASE Conclude
    BY <1>1, <2>2, <2>4 DEF Conclude, VerdictsOf
  <2>5. CASE TaskDies \/ TaskGoesOn
    <3>1. process_queue.queue # << >> /\ phase' \in {"running", "stopped"}
      BY <2>5 DEF TaskDies, TaskGoesOn, Stepping
    <3>2. TasksOf(process_queue, Task.id) # {}
      BY <1>1, <3>1, FrontTask DEF IInv, TypeOK, Task
    <3>3. w # Task.id
      BY <2>2, <3>2
    <3>4. TasksOf(process_queue', w) = {}
      BY <1>1, <2>2, <2>5, <3>1, <3>3, TasksAfter DEF IInv, TaskDies, TaskGoesOn
    <3>5. TasksOf(process_queue, w)' = {}
      BY <3>4 DEF TasksOf
    <3>6. results'[w] = "Loss"
      BY <1>1, <2>b, <3>1, <3>5 DEF IInv, Bookkeeping, LossIffFallen
    <3>7. process_queue'.processes[w] = 0
      BY <1>1, <2>b, <3>4, <3>5, FS_EmptySet
      DEF IInv, QueueAccounting, Accounted, TasksOf
    <3> QED BY <3>6, <3>7
  <2> QED
    BY <1>1, <2>s, <2>1, <2>3, <2>4, <2>5, StepMoves DEF IInv, Moves, Become, LoadWarrior
<1>2. IInv /\ [Next]_vars /\ IInv' => [Kept]_vars
  BY <1>1
<1> QED BY <1>2, Invariance, PTL DEF Spec, NoResurrection

\* A tie takes two survivors at the end of the cycles, and a battle of several that is
\* not tied has one winner: whatever the warriors do.
THEOREM TiesCorrect == Spec => []TieOnlyByTimeout
<1>1. Init => TieOnlyByTimeout
  BY DEF Init, TieOnlyByTimeout
<1>2. ASSUME IInv, TieOnlyByTimeout, [Next]_vars PROVE TieOnlyByTimeout'
  <2>b. battle' = battle
    BY <1>2, StepMoves
    DEF IInv, Moves, Become, LoadWarrior, TaskDies, TaskGoesOn, Conclude, vars
  <2>w. WarriorID' = WarriorID /\ num_warriors' = num_warriors /\ config' = config
        /\ num_warriors \in Nat
    BY <1>2, <2>b, SameBattle, BattleTypes DEF IInv
  <2>1. CASE Conclude
    <3> DEFINE S    == Survivors(results)
               tied == { w \in WarriorID : results'[w] = "Tie" }
               won  == { w \in WarriorID : results'[w] = "Win" }
    <3>1. /\ phase = "stopped" /\ steps_taken' = steps_taken
          /\ results' = VerdictsOf(results)
      BY <2>1 DEF Conclude
    <3>2. \A w \in WarriorID : results[w] = IF w \in S THEN "Undecided" ELSE "Loss"
      BY <1>2, <3>1 DEF IInv, Bookkeeping, LossIffFallen, Survivors
    <3>3. S \subseteq WarriorID
      BY DEF Survivors
    <3>4. \A w \in WarriorID : results'[w] = IF w \notin S THEN "Loss"
                                             ELSE IF Cardinality(S) > 1 THEN "Tie"
                                             ELSE "Win"
      BY <3>1, <3>2 DEF VerdictsOf
    <3>5. /\ Cardinality(S) \in Nat
          /\ Cardinality(S) = 0 <=> S = {}
      BY <1>2, SurvivorsFinite DEF IInv
    <3>6. CASE Cardinality(S) > 1
      <4>1. tied = S
        BY <3>3, <3>4, <3>6
      <4>2. steps_taken' = config.max_cycles
        BY <1>2, <3>1, <3>6 DEF IInv, Contested
      <4>3. Cardinality(tied) # 1 /\ tied # {}
        BY <3>5, <3>6, <4>1
      <4> HIDE DEF tied
      <4> QED BY <2>w, <4>2, <4>3 DEF TieOnlyByTimeout, tied
    <3>7. CASE ~ (Cardinality(S) > 1)
      <4>1. tied = {} /\ won = S
        BY <3>3, <3>4, <3>7
      <4>2. num_warriors > 1 => Cardinality(won) = 1
        BY <1>2, <3>1, <3>5, <3>7, <4>1 DEF IInv, Contested
      <4>3. Cardinality(tied) # 1
        BY <4>1, FS_EmptySet
      <4> HIDE DEF tied, won
      <4> QED BY <2>w, <4>1, <4>2, <4>3 DEF TieOnlyByTimeout, tied, won
    <3> QED BY <3>6, <3>7
  <2>2. CASE ~ Conclude
    <3>1. phase' = "finished" => UNCHANGED vars
      BY <1>2, <2>2, StepMoves
      DEF IInv, Moves, Become, LoadWarrior, TaskDies, TaskGoesOn, Stepping
    <3> QED BY <1>2, <2>w, <3>1 DEF TieOnlyByTimeout, vars
  <2> QED BY <2>1, <2>2
<1> QED BY <1>1, <1>2, Invariance, PTL DEF Spec
=============================================================================
