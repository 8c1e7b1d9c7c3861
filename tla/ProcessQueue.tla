---------------------------- MODULE ProcessQueue ----------------------------
(***************************************************************************)
(* core/process.rs: the queue of the tasks of all warriors, as a data      *)
(* structure: operators over one record.  A core has a single FIFO queue.  *)
(* `processes' counts the queued tasks of each warrior beside the queue,   *)
(* `next_thread_id' is an ever increasing counter per warrior.  A key that *)
(* the BTreeMaps do not hold yet is a 0 here; thread_count, the one lookup *)
(* that panics on it, is only asked about a warrior that was just popped.  *)
(***************************************************************************)
EXTENDS Integers, Sequences, FiniteSets

Entry(Ids, Offsets) == [id : Ids, thread : Nat, offset : Offsets]

ProcessQueue(Ids, Offsets) ==
  [queue : Seq(Entry(Ids, Offsets)),
   processes : [Ids -> Nat],
   next_thread_id : [Ids -> Nat]]

NoThread == -1      \* the `None' of push's last argument

EmptyQueue(Ids) ==
  [queue |-> << >>,
   processes |-> [w \in Ids |-> 0],
   next_thread_id |-> [w \in Ids |-> 0]]

-----------------------------------------------------------------------------
\* Mutant: the count of the warrior is left alone.
PopUncounted(pq) == [pq EXCEPT !.queue = Tail(@)]

\* Pop from a queue that is not empty: the front entry, with its warrior's
\* count decremented (saturating at 0).
Pop(pq) ==
  [queue          |-> Tail(pq.queue),
   processes      |-> [pq.processes EXCEPT ![Head(pq.queue).id] =
                         IF @ = 0 THEN 0 ELSE @ - 1],
   next_thread_id |-> pq.next_thread_id]

\* Mutant: the entry goes to the front.
PushFront(pq, id, offset, thread) ==
  LET fresh == thread = NoThread IN
  [pq EXCEPT
     !.queue = << [id |-> id, offset |-> offset,
                   thread |-> IF fresh THEN pq.next_thread_id[id] ELSE thread]
               >> \o @,
     !.processes[id] = @ + 1,
     !.next_thread_id[id] = IF fresh THEN @ + 1 ELSE @]

\* Push a task to the back, with the given thread id or with the next new one.
Push(pq, id, offset, thread) ==
  LET fresh == thread = NoThread
      entry == [id |-> id, offset |-> offset,
                thread |-> IF fresh THEN pq.next_thread_id[id] ELSE thread]
  IN  [queue          |-> Append(pq.queue, entry),
       processes      |-> [pq.processes EXCEPT ![id] = @ + 1],
       next_thread_id |-> [pq.next_thread_id EXCEPT ![id] =
                             IF fresh THEN @ + 1 ELSE @]]

-----------------------------------------------------------------------------
\* The positions of a warrior's tasks in the queue.
TasksOf(pq, id) == { i \in DOMAIN pq.queue : pq.queue[i].id = id }

\* The count kept beside the queue is the number of tasks in it.
Accounted(pq, Ids) ==
  \A w \in Ids : pq.processes[w] = Cardinality(TasksOf(pq, w))

\* No two queued tasks of a warrior share a thread id, and the ids to come are
\* free: the next one is above all of them.
ThreadsDistinct(pq) ==
  /\ \A i, j \in DOMAIN pq.queue :
        /\ pq.queue[i].id = pq.queue[j].id
        /\ pq.queue[i].thread = pq.queue[j].thread
        => i = j
  /\ \A i \in DOMAIN pq.queue :
        pq.queue[i].thread < pq.next_thread_id[pq.queue[i].id]
=============================================================================
