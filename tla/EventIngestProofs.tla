-------------------------- MODULE EventIngestProofs --------------------------
(* Theorems about EventIngest, for any identifiers, contents, calendars    *)
(* and number of workers.                                                  *)
(*                                                                         *)
(* Two invariants of each worker say how far its bytes and its rows are    *)
(* (Staged, Whole): the bytes are in the store before the first insert,    *)
(* and a reference to the primary store is committed with its row.  That   *)
(* much survives every interleaving.  The rest is about an event_id that   *)
(* no two workers have persisted at once (Quiet): its only worker goes on  *)
(* to the store only if there was no reference, and then nobody makes one  *)
(* before it does, so what it overwrites nobody has been promised.  That   *)
(* its bytes are still there when it commits needs more (Calm): no upload  *)
(* of the event_id is running beside it.  One that is left running belongs *)
(* to a delivery that has promised nothing, and the next delivery to begin *)
(* beside it makes the event_id one of strayed.                            *)
EXTENDS EventIngest, FiniteSetTheorems, TLAPS

\* A worker past its judgement, with the store still to write.
Storing(w) == pc[w] \in {"put", "write"}

\* A worker whose bytes are stored.
Stored(w) == pc[w] \in {"insertRef", "insertEvent"} \/ rows[w] # {}

Primary(w) == place[w] = event[w].at.day

Staged(w) ==
    /\ pc[w] # "idle" => event[w] \in Events
    /\ Storing(w) \/ Stored(w) => place[w] = Vault \/ Primary(w)
    /\ Stored(w) => objects[Key(w)] # None

Whole(w) ==
    /\ rows[w] # {} => pc[w] \in {"insertEvent", "commit"}
    /\ pc[w] = "insertEvent" => place[w] # Vault /\ "event" \notin rows[w]
    /\ "event" \in rows[w] => place[w] # Vault
    /\ pc[w] = "commit" /\ "ref" \in rows[w] => place[w] = Vault \/ "event" \in rows[w]

WorkerInv(w) == Staged(w) /\ Whole(w)

\* What a worker relies on that has an event_id to itself: until it commits
\* there is no reference, and its reference goes with its row.
Alone(w) ==
    /\ Storing(w) \/ Stored(w) => refs[event[w].id] = None
    /\ pc[w] = "insertEvent" \/ rows[w] # {} => "ref" \in rows[w]

\* The bytes it stored are there.
Certain(w) == Stored(w) => objects[Key(w)] = event[w].raw

\* What has been committed of event_id i is one whole.
Kept(i) ==
    /\ \A e, f \in events : e.id = i /\ f.id = i => e = f
    /\ refs[i] = None \/ refs[i].place = Vault => \A e \in events : e.id # i

\* What has been promised of event_id i is in the store.
Safe(i) ==
    /\ refs[i] # None => objects[<<refs[i].place, i>>] = refs[i].sha
    /\ \A e \in events : e.id = i => objects[<<e.at.day, i>>] = e.raw

Busy(w, i) == pc[w] # "idle" /\ event[w].id = i

Quiet(i) ==
    /\ Kept(i)
    /\ \A v, w \in Workers : Busy(v, i) /\ Busy(w, i) => v = w
    /\ \A w \in Workers : Busy(w, i) => Alone(w)

\* An upload of event_id i whose caller is gone.
Running(i) == \E u \in uploads : u.id = i

Untold(i) == refs[i] = None /\ \A e \in events : e.id # i

Calm(i) ==
    /\ Safe(i)
    /\ \A w \in Workers : Busy(w, i) => Certain(w)
    /\ Running(i) => Untold(i) /\ \A w \in Workers : ~Busy(w, i)

IInv ==
    /\ TypeOK /\ NothingDangles /\ ReferenceHasRow
    /\ \A w \in Workers : WorkerInv(w)
    /\ \A i \in Ids \ raced : Quiet(i)
    /\ \A i \in Ids \ (raced \cup strayed) : Calm(i)

-----------------------------------------------------------------------------
\* The initial state satisfies the invariant.
LEMMA InitIInv == Init => IInv
<1> SUFFICES ASSUME Init PROVE IInv
  OBVIOUS
<1> USE DEF Init
<1>1. TypeOK
  BY IngestAssumption DEF TypeOK, Steps
<1>2. NothingDangles /\ ReferenceHasRow
  BY DEF NothingDangles, ReferenceHasRow
<1>3. ASSUME NEW w \in Workers PROVE WorkerInv(w)
  BY DEF WorkerInv, Staged, Whole, Storing, Stored
<1>4. ASSUME NEW i \in Ids PROVE Quiet(i) /\ Calm(i)
  BY DEF Quiet, Kept, Busy, Calm, Safe, Running
<1> QED BY <1>1, <1>2, <1>3, <1>4 DEF IInv

\* The parts of an event.
LEMMA EventParts ==
    ASSUME NEW e \in Events
    PROVE  e.id \in Ids /\ e.raw \in Raws /\ e.at \in Observed /\ e.at.day \in Places
           /\ e.at.day # Vault /\ e.raw # None
BY IngestAssumption DEF Events, Places

\* The local state of every worker but w is untouched.
OthersUnchanged(w) ==
    \A v \in Workers : v # w =>
        pc'[v] = pc[v] /\ event'[v] = event[v] /\ place'[v] = place[v] /\ rows'[v] = rows[v]

-----------------------------------------------------------------------------
(* Steps that write neither the store nor the tables.                      *)

\* What is left to show of such a step of w.
LEMMA LocalStep ==
    ASSUME IInv, NEW w \in Workers, TypeOK', OthersUnchanged(w),
           objects' = objects, refs' = refs, events' = events,
           raced \subseteq raced', strayed \subseteq strayed', WorkerInv(w)',
           \A i \in Ids \ raced' : Busy(w, i)' =>
              Alone(w)' /\ \A v \in Workers : v # w => ~Busy(v, i),
           \A i \in Ids \ (raced' \cup strayed') : Busy(w, i)' => Certain(w)' /\ ~Running(i)',
           \A i \in Ids \ (raced' \cup strayed') : Running(i)' =>
              Running(i) \/ (Untold(i) /\ \A v \in Workers : v # w => ~Busy(v, i))
    PROVE  IInv'
<1>1. NothingDangles' /\ ReferenceHasRow'
  BY DEF IInv, NothingDangles, ReferenceHasRow
<1>2. ASSUME NEW v \in Workers, v # w
      PROVE  /\ WorkerInv(v)'
             /\ \A i : Busy(v, i)' <=> Busy(v, i)
             /\ Alone(v)' <=> Alone(v)
             /\ Certain(v)' <=> Certain(v)
  <2>1. pc'[v] = pc[v] /\ event'[v] = event[v] /\ place'[v] = place[v] /\ rows'[v] = rows[v]
    BY <1>2 DEF OthersUnchanged
  <2>2. WorkerInv(v)
    BY DEF IInv
  <2>3. WorkerInv(v)'
    BY <2>1, <2>2 DEF WorkerInv, Staged, Whole, Storing, Stored, Primary, Key
  <2>4. \A i : Busy(v, i)' <=> Busy(v, i)
    BY <2>1 DEF Busy
  <2>5. Alone(v)' <=> Alone(v)
    BY <2>1 DEF Alone, Storing, Stored
  <2>6. Certain(v)' <=> Certain(v)
    BY <2>1 DEF Certain, Stored, Key
  <2> QED BY <2>3, <2>4, <2>5, <2>6
<1>3. ASSUME NEW i \in Ids \ raced' PROVE Quiet(i)'
  <2>1. Quiet(i)
    BY <1>3 DEF IInv
  <2>2. Kept(i)'
    BY <2>1 DEF Quiet, Kept
  <2>3. \A u, v \in Workers : Busy(u, i)' /\ Busy(v, i)' => u = v
    BY <1>2, <1>3, <2>1 DEF Quiet
  <2>4. \A v \in Workers : Busy(v, i)' => Alone(v)'
    BY <1>2, <1>3, <2>1 DEF Quiet
  <2> QED BY <2>2, <2>3, <2>4 DEF Quiet
<1>4. ASSUME NEW i \in Ids \ (raced' \cup strayed') PROVE Calm(i)'
  <2>1. Calm(i)
    BY <1>4 DEF IInv
  <2>2. Safe(i)' /\ (Untold(i)' <=> Untold(i))
    BY <2>1 DEF Calm, Safe, Untold
  <2>3. \A v \in Workers : Busy(v, i)' => Certain(v)'
    BY <1>2, <1>4, <2>1 DEF Calm
  <2>4. Running(i)' => Untold(i)' /\ \A v \in Workers : ~Busy(v, i)'
    BY <1>2, <1>4, <2>1, <2>2 DEF Calm
  <2> QED BY <2>2, <2>3, <2>4 DEF Calm
<1> QED BY <1>1, <1>2, <1>3, <1>4 DEF IInv

\* Which uploads are running is a matter of uploads alone.
LEMMA SameUploads ==
    ASSUME uploads' = uploads
    PROVE  \A i : Running(i)' <=> Running(i)
BY DEF Running

\* A delivery begins; if another of the same event_id is under way it is no
\* longer quiet.
LEMMA BeginIInv ==
    ASSUME IInv, NEW w \in Workers, NEW e \in Events, Begin(w, e)
    PROVE  IInv'
<1>1. /\ pc[w] = "idle" /\ pc' = [pc EXCEPT ![w] = "select"]
      /\ event' = [event EXCEPT ![w] = e]
      /\ raced' = IF \E v \in Workers : pc[v] # "idle" /\ event[v].id = e.id
                  THEN raced \cup {e.id} ELSE raced
      /\ strayed' = IF \E u \in uploads : u.id = e.id THEN strayed \cup {e.id} ELSE strayed
      /\ uploads' = uploads /\ month' = month /\ partitions' = partitions /\ objects' = objects
      /\ refs' = refs /\ events' = events /\ place' = place /\ rows' = rows
  BY DEF Begin, Goto, tables
<1>2. TypeOK /\ WorkerInv(w)
  BY DEF IInv
<1>3. TypeOK'
  BY <1>1, <1>2, EventParts DEF TypeOK, Steps
<1>4. pc'[w] = "select" /\ event'[w] = e /\ OthersUnchanged(w)
  BY <1>1, <1>2 DEF TypeOK, OthersUnchanged
<1>5. rows'[w] = {}
  BY <1>1, <1>2 DEF WorkerInv, Whole
<1>6. WorkerInv(w)'
  BY <1>4, <1>5 DEF WorkerInv, Staged, Whole, Storing, Stored
<1>7. ASSUME NEW i \in Ids \ raced', Busy(w, i)'
      PROVE  Alone(w)' /\ \A v \in Workers : v # w => ~Busy(v, i)
  <2>1. i = e.id
    BY <1>4, <1>7 DEF Busy
  <2>2. Alone(w)'
    BY <1>4, <1>5 DEF Alone, Storing, Stored
  <2> QED BY <1>1, <1>7, <2>1, <2>2 DEF Busy
<1>8. ASSUME NEW i \in Ids \ (raced' \cup strayed'), Busy(w, i)'
      PROVE  Certain(w)' /\ ~Running(i)'
  <2>1. i = e.id
    BY <1>4, <1>8 DEF Busy
  <2>2. Certain(w)'
    BY <1>4, <1>5 DEF Certain, Stored
  <2> QED BY <1>1, <1>8, <2>1, <2>2 DEF Running
<1>9. raced \subseteq raced' /\ strayed \subseteq strayed'
  BY <1>1
<1> QED BY <1>1, <1>3, <1>4, <1>6, <1>7, <1>8, <1>9, SameUploads, LocalStep

\* What a worker that goes on has, and has in common with what it had.
LEMMA GoesOn ==
    ASSUME IInv, NEW w \in Workers, pc[w] # "idle", NEW step \in Steps, step # "idle",
           pc' = [pc EXCEPT ![w] = step], event' = event
    PROVE  /\ TypeOK /\ WorkerInv(w) /\ event[w] \in Events
           /\ pc' \in [Workers -> Steps] /\ pc'[w] = step /\ event'[w] = event[w]
           /\ \A v \in Workers : v # w => pc'[v] = pc[v] /\ event'[v] = event[v]
           /\ \A i : Busy(w, i)' <=> Busy(w, i)
           /\ \A i \in Ids \ raced : Busy(w, i) =>
                 Alone(w) /\ \A v \in Workers : v # w => ~Busy(v, i)
           /\ \A i \in Ids \ (raced \cup strayed) : Busy(w, i) => Certain(w) /\ ~Running(i)
<1>1. TypeOK /\ WorkerInv(w) /\ event[w] \in Events
  BY DEF IInv, WorkerInv, Staged
<1>2. /\ pc' \in [Workers -> Steps] /\ pc'[w] = step
      /\ \A v \in Workers : v # w => pc'[v] = pc[v]
  BY <1>1 DEF TypeOK
<1>3. \A i : Busy(w, i)' <=> Busy(w, i)
  BY <1>2 DEF Busy
<1>4. \A i \in Ids \ raced : Busy(w, i) => Alone(w) /\ \A v \in Workers : v # w => ~Busy(v, i)
  BY DEF IInv, Quiet
<1>5. \A i \in Ids \ (raced \cup strayed) : Busy(w, i) => Certain(w) /\ ~Running(i)
  BY DEF IInv, Calm
<1> QED BY <1>1, <1>2, <1>3, <1>4, <1>5

\* A repeated delivery has nothing to write.
LEMMA DuplicateIInv ==
    ASSUME IInv, NEW w \in Workers, Duplicate(w)
    PROVE  IInv'
<1>1. /\ pc[w] = "select" /\ pc' = [pc EXCEPT ![w] = "commit"]
      /\ month' = month /\ partitions' = partitions /\ objects' = objects /\ raced' = raced
      /\ strayed' = strayed /\ uploads' = uploads
      /\ refs' = refs /\ events' = events /\ event' = event /\ place' = place /\ rows' = rows
  BY DEF Duplicate, Goto, tables, local, beside
<1>2. "commit" \in Steps
  BY DEF Steps
<1>3. /\ TypeOK /\ WorkerInv(w) /\ event[w] \in Events
      /\ pc' \in [Workers -> Steps] /\ pc'[w] = "commit"
      /\ \A v \in Workers : v # w => pc'[v] = pc[v]
      /\ \A i : Busy(w, i)' <=> Busy(w, i)
      /\ \A i \in Ids \ raced : Busy(w, i) => \A v \in Workers : v # w => ~Busy(v, i)
      /\ \A i \in Ids \ (raced \cup strayed) : Busy(w, i) => ~Running(i)
  BY <1>1, <1>2, GoesOn
<1>4. rows[w] = {}
  BY <1>1, <1>3 DEF WorkerInv, Whole
<1>5. WorkerInv(w)' /\ Alone(w)' /\ Certain(w)'
  BY <1>1, <1>3, <1>4 DEF WorkerInv, Staged, Whole, Alone, Certain, Storing, Stored
<1>6. TypeOK' /\ OthersUnchanged(w)
  BY <1>1, <1>3 DEF TypeOK, OthersUnchanged
<1> QED BY <1>1, <1>3, <1>5, <1>6, SameUploads, LocalStep

\* A new delivery is given a place, the vault unless its month is the current
\* one.
LEMMA JudgeIInv ==
    ASSUME IInv, NEW w \in Workers, Judge(w)
    PROVE  IInv'
<1>at. PICK p : p = IF InWindow(event[w].at) THEN event[w].at.day ELSE Vault
  OBVIOUS
<1>1. /\ pc[w] = "select" /\ pc' = [pc EXCEPT ![w] = "put"] /\ refs[event[w].id] = None
      /\ place' = [place EXCEPT ![w] = p]
      /\ month' = month /\ partitions' = partitions /\ objects' = objects /\ raced' = raced
      /\ strayed' = strayed /\ uploads' = uploads
      /\ refs' = refs /\ events' = events /\ event' = event /\ rows' = rows
  BY <1>at DEF Judge, Goto, tables, beside, Existing
<1>2. "put" \in Steps
  BY DEF Steps
<1>3. /\ TypeOK /\ WorkerInv(w) /\ event[w] \in Events
      /\ pc' \in [Workers -> Steps] /\ pc'[w] = "put"
      /\ \A v \in Workers : v # w => pc'[v] = pc[v]
      /\ \A i : Busy(w, i)' <=> Busy(w, i)
      /\ \A i \in Ids \ raced : Busy(w, i) => \A v \in Workers : v # w => ~Busy(v, i)
      /\ \A i \in Ids \ (raced \cup strayed) : Busy(w, i) => ~Running(i)
  BY <1>1, <1>2, GoesOn
<1>4. rows[w] = {}
  BY <1>1, <1>3 DEF WorkerInv, Whole
<1>5. p \in Places /\ (p = Vault \/ p = event[w].at.day)
  BY <1>at, <1>3, EventParts DEF Places
<1>6. /\ place' \in [Workers -> Places \cup {None}] /\ place'[w] = p
      /\ \A v \in Workers : v # w => place'[v] = place[v]
  BY <1>1, <1>3, <1>5 DEF TypeOK
<1>7. WorkerInv(w)' /\ Alone(w)' /\ Certain(w)'
  BY <1>1, <1>3, <1>4, <1>5, <1>6
     DEF WorkerInv, Staged, Whole, Alone, Certain, Storing, Stored, Primary
<1>8. TypeOK' /\ OthersUnchanged(w)
  BY <1>1, <1>3, <1>6 DEF TypeOK, OthersUnchanged
<1> QED BY <1>1, <1>3, <1>7, <1>8, SameUploads, LocalStep

\* The reference is inserted unless there is one; without a row to follow, the
\* worker commits.
LEMMA InsertRefIInv ==
    ASSUME IInv, NEW w \in Workers, InsertRef(w)
    PROVE  IInv'
<1>s. PICK step : step = IF place[w] = Vault THEN "commit" ELSE "insertEvent"
  OBVIOUS
<1>1. /\ pc[w] = "insertRef" /\ pc' = [pc EXCEPT ![w] = step]
      /\ rows' = [rows EXCEPT ![w] = IF refs[event[w].id] = None THEN rows[w] \cup {"ref"} ELSE rows[w]]
      /\ month' = month /\ partitions' = partitions /\ objects' = objects /\ raced' = raced
      /\ strayed' = strayed /\ uploads' = uploads
      /\ refs' = refs /\ events' = events /\ event' = event /\ place' = place
  BY <1>s DEF InsertRef, Goto, tables, beside, Existing
<1>2. step \in {"commit", "insertEvent"} /\ step \in Steps /\ step # "idle"
  BY <1>s DEF Steps
<1>3. /\ TypeOK /\ WorkerInv(w) /\ event[w] \in Events
      /\ pc' \in [Workers -> Steps] /\ pc'[w] = step
      /\ \A v \in Workers : v # w => pc'[v] = pc[v]
      /\ \A i : Busy(w, i)' <=> Busy(w, i)
      /\ \A i \in Ids \ raced : Busy(w, i) =>
            Alone(w) /\ \A v \in Workers : v # w => ~Busy(v, i)
      /\ \A i \in Ids \ (raced \cup strayed) : Busy(w, i) => Certain(w) /\ ~Running(i)
  BY <1>1, <1>2, GoesOn
<1>4. rows[w] = {}
  BY <1>1, <1>3 DEF WorkerInv, Whole
<1>5. /\ rows' \in [Workers -> SUBSET {"ref", "event"}]
      /\ rows'[w] = IF refs[event[w].id] = None THEN {"ref"} ELSE {}
      /\ \A v \in Workers : v # w => rows'[v] = rows[v]
  BY <1>1, <1>3, <1>4 DEF TypeOK
<1>6. Staged(w)'
  BY <1>1, <1>3 DEF WorkerInv, Staged, Storing, Stored, Primary, Key
<1>7. Whole(w)'
  BY <1>1, <1>s, <1>2, <1>3, <1>5 DEF Whole
<1>8. (Alone(w) => Alone(w)') /\ (Certain(w) => Certain(w)')
  BY <1>1, <1>3, <1>5 DEF Alone, Certain, Storing, Stored, Key
<1>9. TypeOK' /\ OthersUnchanged(w)
  BY <1>1, <1>3, <1>5 DEF TypeOK, OthersUnchanged
<1> QED BY <1>1, <1>3, <1>6, <1>7, <1>8, <1>9, SameUploads, LocalStep DEF WorkerInv

\* The row is inserted next to the reference.
LEMMA InsertEventIInv ==
    ASSUME IInv, NEW w \in Workers, InsertEvent(w)
    PROVE  IInv'
<1>1. /\ pc[w] = "insertEvent" /\ pc' = [pc EXCEPT ![w] = "commit"]
      /\ rows' = [rows EXCEPT ![w] = rows[w] \cup {"event"}]
      /\ month' = month /\ partitions' = partitions /\ objects' = objects /\ raced' = raced
      /\ strayed' = strayed /\ uploads' = uploads
      /\ refs' = refs /\ events' = events /\ event' = event /\ place' = place
  BY DEF InsertEvent, Goto, tables, beside
<1>2. "commit" \in Steps
  BY DEF Steps
<1>3. /\ TypeOK /\ WorkerInv(w) /\ event[w] \in Events
      /\ pc' \in [Workers -> Steps] /\ pc'[w] = "commit"
      /\ \A v \in Workers : v # w => pc'[v] = pc[v]
      /\ \A i : Busy(w, i)' <=> Busy(w, i)
      /\ \A i \in Ids \ raced : Busy(w, i) =>
            Alone(w) /\ \A v \in Workers : v # w => ~Busy(v, i)
      /\ \A i \in Ids \ (raced \cup strayed) : Busy(w, i) => Certain(w) /\ ~Running(i)
  BY <1>1, <1>2, GoesOn
<1>4. /\ rows' \in [Workers -> SUBSET {"ref", "event"}] /\ rows'[w] = rows[w] \cup {"event"}
      /\ \A v \in Workers : v # w => rows'[v] = rows[v]
  BY <1>1, <1>3 DEF TypeOK
<1>5. Staged(w)'
  BY <1>1, <1>3 DEF WorkerInv, Staged, Storing, Stored, Primary, Key
<1>6. Whole(w)'
  BY <1>1, <1>3, <1>4 DEF WorkerInv, Whole
<1>7. (Alone(w) => Alone(w)') /\ (Certain(w) => Certain(w)')
  BY <1>1, <1>3, <1>4 DEF Alone, Certain, Storing, Stored, Key
<1>8. TypeOK' /\ OthersUnchanged(w)
  BY <1>1, <1>3, <1>4 DEF TypeOK, OthersUnchanged
<1> QED BY <1>1, <1>3, <1>5, <1>6, <1>7, <1>8, SameUploads, LocalStep DEF WorkerInv

\* A worker that has ended.
LEMMA EndEffect ==
    ASSUME TypeOK, NEW w \in Workers, End(w)
    PROVE  /\ pc' \in [Workers -> Steps] /\ event' \in [Workers -> Events \cup {None}]
           /\ place' \in [Workers -> Places \cup {None}]
           /\ rows' \in [Workers -> SUBSET {"ref", "event"}]
           /\ pc'[w] = "idle" /\ rows'[w] = {} /\ OthersUnchanged(w)
           /\ WorkerInv(w)' /\ \A i : ~Busy(w, i)'
<1>1. /\ pc' \in [Workers -> Steps] /\ event' \in [Workers -> Events \cup {None}]
      /\ place' \in [Workers -> Places \cup {None}]
      /\ rows' \in [Workers -> SUBSET {"ref", "event"}]
      /\ pc'[w] = "idle" /\ rows'[w] = {} /\ OthersUnchanged(w)
  BY DEF End, TypeOK, Steps, OthersUnchanged
<1>2. WorkerInv(w)' /\ \A i : ~Busy(w, i)'
  BY <1>1 DEF WorkerInv, Staged, Whole, Storing, Stored, Busy
<1> QED BY <1>1, <1>2

\* A delivery that is refused, fails or dies leaves the store and the tables
\* as they are.
LEMMA EndsBadly ==
    ASSUME IInv, NEW w \in Workers, Conflict(w) \/ InsertFails(w) \/ Abort(w)
    PROVE  IInv'
<1>1. /\ End(w) /\ month' = month /\ partitions' = partitions /\ objects' = objects
      /\ raced' = raced /\ strayed' = strayed /\ uploads' = uploads
      /\ refs' = refs /\ events' = events
  BY DEF Conflict, InsertFails, Abort, tables, beside
<1>2. /\ pc' \in [Workers -> Steps] /\ event' \in [Workers -> Events \cup {None}]
      /\ place' \in [Workers -> Places \cup {None}]
      /\ rows' \in [Workers -> SUBSET {"ref", "event"}]
      /\ OthersUnchanged(w) /\ WorkerInv(w)' /\ \A i : ~Busy(w, i)'
  BY <1>1, EndEffect DEF IInv
<1>3. TypeOK'
  BY <1>1, <1>2 DEF IInv, TypeOK
<1> QED BY <1>1, <1>2, <1>3, SameUploads, LocalStep

\* A worker that leaves its upload running has promised nothing, and neither
\* has anyone before it if nobody interfered.
LEMMA AbandonIInv ==
    ASSUME IInv, NEW w \in Workers, Abandon(w)
    PROVE  IInv'
<1>u. PICK u : u = [place |-> place[w], id |-> event[w].id, raw |-> event[w].raw]
  OBVIOUS
<1>1. /\ pc[w] = "put" /\ place[w] # Vault /\ End(w) /\ uploads' = uploads \cup {u}
      /\ month' = month /\ partitions' = partitions /\ objects' = objects
      /\ raced' = raced /\ strayed' = strayed /\ refs' = refs /\ events' = events
  BY <1>u DEF Abandon, tables
<1>2. /\ pc' \in [Workers -> Steps] /\ event' \in [Workers -> Events \cup {None}]
      /\ place' \in [Workers -> Places \cup {None}]
      /\ rows' \in [Workers -> SUBSET {"ref", "event"}]
      /\ OthersUnchanged(w) /\ WorkerInv(w)' /\ \A i : ~Busy(w, i)'
  BY <1>1, EndEffect DEF IInv
<1>3. u \in Uploads /\ u.id = event[w].id
  <2>1. event[w] \in Events /\ (place[w] = Vault \/ Primary(w))
    BY <1>1 DEF IInv, WorkerInv, Staged, Storing
  <2>2. place[w] \in Places
    BY <2>1, EventParts DEF Primary, Places
  <2> QED BY <1>u, <2>1, <2>2, EventParts DEF Uploads
<1>4. TypeOK'
  BY <1>1, <1>2, <1>3 DEF IInv, TypeOK
<1>5. ASSUME NEW i \in Ids \ (raced' \cup strayed'), Running(i)', ~Running(i)
      PROVE  Untold(i) /\ \A v \in Workers : v # w => ~Busy(v, i)
  <2>1. i = event[w].id
    BY <1>1, <1>3, <1>5 DEF Running
  <2>2. Quiet(i) /\ Busy(w, i)
    BY <1>1, <1>5, <2>1 DEF IInv, Busy
  <2>3. refs[i] = None
    BY <1>1, <2>1, <2>2 DEF Quiet, Alone, Storing
  <2> QED BY <2>2, <2>3 DEF Quiet, Kept, Untold
<1> QED BY <1>1, <1>2, <1>4, <1>5, LocalStep

-----------------------------------------------------------------------------
(* The raw store.                                                          *)

\* Where a worker writes.
LEMMA KeyPlace ==
    ASSUME IInv, NEW w \in Workers, Storing(w) \/ Stored(w)
    PROVE  /\ pc[w] # "idle" /\ event[w] \in Events /\ place[w] \in Places
           /\ Key(w) \in Places \X Ids
<1>1. pc[w] # "idle" /\ event[w] \in Events /\ (place[w] = Vault \/ Primary(w))
  BY DEF IInv, WorkerInv, Staged, Whole, Storing, Stored
<1>2. place[w] \in Places
  BY <1>1, EventParts DEF Primary, Places
<1> QED BY <1>1, <1>2, EventParts DEF Key

\* The common part of Truncate and Put: x is written where w keeps its bytes.
LEMMA WriteStep ==
    ASSUME IInv, NEW w \in Workers, Storing(w), NEW x \in Raws \cup {Torn}, NEW step \in Steps,
           \/ step = "write"
           \/ step = "insertRef" /\ x = event[w].raw,
           pc' = [pc EXCEPT ![w] = step],
           objects' = [objects EXCEPT ![Key(w)] = x],
           UNCHANGED <<month, partitions, tables, local, beside>>
    PROVE  IInv'
<1>1. /\ month' = month /\ partitions' = partitions
      /\ raced' = raced /\ strayed' = strayed /\ uploads' = uploads
      /\ refs' = refs /\ events' = events /\ event' = event /\ place' = place /\ rows' = rows
  BY DEF tables, local, beside
<1>2. pc[w] # "idle" /\ event[w] \in Events /\ Key(w) \in Places \X Ids
  BY KeyPlace
<1>3. /\ TypeOK /\ WorkerInv(w)
      /\ pc' \in [Workers -> Steps] /\ pc'[w] = step
      /\ \A v \in Workers : v # w => pc'[v] = pc[v]
      /\ \A i : Busy(w, i)' <=> Busy(w, i)
      /\ \A i \in Ids \ raced : Busy(w, i) =>
            Alone(w) /\ \A v \in Workers : v # w => ~Busy(v, i)
      /\ \A i \in Ids \ (raced \cup strayed) : Busy(w, i) => Certain(w) /\ ~Running(i)
  BY <1>1, <1>2, GoesOn
<1>4. /\ objects' \in [Places \X Ids -> Raws \cup {None, Torn}]
      /\ objects'[Key(w)] = x
      /\ \A k \in Places \X Ids : k # Key(w) => objects'[k] = objects[k]
      /\ x # None
  BY <1>2, <1>3, IngestAssumption DEF TypeOK
<1>5. TypeOK'
  BY <1>1, <1>3, <1>4 DEF TypeOK
<1>6. \A i \in Ids : refs[i] # None => <<refs[i].place, i>> \in Places \X Ids
  BY <1>3 DEF TypeOK
<1>7. \A e \in events : <<e.at.day, e.id>> \in Places \X Ids
  BY <1>3, EventParts DEF TypeOK
<1>8. NothingDangles'
  <2>1. \A i \in Ids : refs[i] # None => objects'[<<refs[i].place, i>>] # None
    BY <1>4, <1>6 DEF IInv, NothingDangles
  <2>2. \A e \in events : objects'[<<e.at.day, e.id>>] # None
    BY <1>4, <1>7 DEF IInv, NothingDangles
  <2> QED BY <1>1, <2>1, <2>2 DEF NothingDangles
<1>9. ReferenceHasRow'
  BY <1>1 DEF IInv, ReferenceHasRow
<1>10. rows[w] = {}
  BY <1>3 DEF WorkerInv, Whole, Storing
<1>11. WorkerInv(w)'
  <2>1. Key(w)' = Key(w)
    BY <1>1 DEF Key
  <2>2. Staged(w)'
    BY <1>1, <1>2, <1>3, <1>4, <2>1 DEF WorkerInv, Staged, Storing, Stored, Primary
  <2>3. Whole(w)'
    BY <1>1, <1>3, <1>10 DEF Whole
  <2> QED BY <2>2, <2>3 DEF WorkerInv
<1>12. Alone(w) => Alone(w)'
  BY <1>1, <1>2, <1>3, <1>10 DEF Alone, Storing, Stored
<1>c. Certain(w)'
  <2>1. Key(w)' = Key(w)
    BY <1>1 DEF Key
  <2> QED BY <1>1, <1>3, <1>4, <1>10, <2>1 DEF Certain, Stored
<1>13. ASSUME NEW v \in Workers, v # w
       PROVE  /\ WorkerInv(v)' /\ \A i : Busy(v, i)' <=> Busy(v, i)
              /\ Alone(v) => Alone(v)'
              /\ event[v].id # event[w].id => (Certain(v) => Certain(v)')
  <2>1. pc'[v] = pc[v] /\ WorkerInv(v) /\ Key(v)' = Key(v)
    BY <1>1, <1>3, <1>13 DEF IInv, Key
  <2>2. Stored(v) => Key(v) \in Places \X Ids
    BY KeyPlace
  <2>3. WorkerInv(v)'
    BY <1>1, <1>4, <2>1, <2>2 DEF WorkerInv, Staged, Whole, Storing, Stored, Primary
  <2>4. event[v].id # event[w].id => Key(v) # Key(w)
    BY DEF Key
  <2>5. event[v].id # event[w].id => (Certain(v) => Certain(v)')
    BY <1>1, <1>4, <2>1, <2>2, <2>4 DEF Certain, Stored
  <2>6. Alone(v) => Alone(v)'
    BY <1>1, <2>1 DEF Alone, Storing, Stored
  <2> QED BY <1>1, <2>1, <2>3, <2>5, <2>6 DEF Busy
<1>14. ASSUME NEW i \in Ids \ raced' PROVE Quiet(i)'
  <2>1. Quiet(i)
    BY <1>1, <1>14 DEF IInv
  <2>2. \A u, v \in Workers : Busy(u, i)' /\ Busy(v, i)' => u = v
    BY <1>3, <1>13, <2>1 DEF Quiet
  <2>3. \A v \in Workers : Busy(v, i)' => Alone(v)'
    BY <1>3, <1>12, <1>13, <2>1 DEF Quiet
  <2>4. Kept(i)'
    BY <1>1, <2>1 DEF Quiet, Kept
  <2> QED BY <2>2, <2>3, <2>4 DEF Quiet
<1>16. ASSUME NEW i \in Ids \ (raced' \cup strayed') PROVE Calm(i)'
  <2>1. Calm(i) /\ Quiet(i)
    BY <1>1, <1>16 DEF IInv
  <2>2. /\ Running(i)' <=> Running(i)
        /\ Untold(i)' <=> Untold(i)
        /\ \A v \in Workers : Busy(v, i)' <=> Busy(v, i)
    BY <1>1, <1>3, <1>13 DEF Running, Untold
  <2>3. CASE i = event[w].id
    <3>1. Busy(w, i)
      BY <1>2, <2>3 DEF Busy
    <3>2. Untold(i)
      BY <2>1, <2>3, <3>1 DEF Quiet, Kept, Alone, Untold
    <3>3. Safe(i)'
      BY <1>1, <3>2 DEF Safe, Untold
    <3>4. \A v \in Workers : Busy(v, i)' => Certain(v)'
      BY <1>c, <2>1, <2>2, <3>1 DEF Quiet
    <3> QED BY <2>1, <2>2, <3>3, <3>4 DEF Calm
  <2>4. CASE i # event[w].id
    <3>1. \A p : <<p, i>> # Key(w)
      BY <2>4 DEF Key
    <3>2. Safe(i)'
      <4>1. refs[i] # None => objects'[<<refs[i].place, i>>] = refs[i].sha
        BY <1>4, <1>6, <2>1, <3>1 DEF Calm, Safe
      <4>2. \A e \in events : e.id = i => objects'[<<e.at.day, i>>] = e.raw
        BY <1>4, <1>7, <2>1, <3>1 DEF Calm, Safe
      <4> QED BY <1>1, <4>1, <4>2 DEF Safe
    <3>3. ASSUME NEW v \in Workers, Busy(v, i)' PROVE Certain(v)'
      <4>1. v # w
        BY <1>3, <2>4, <3>3 DEF Busy
      <4>2. Busy(v, i) /\ Certain(v)
        BY <1>13, <2>1, <3>3, <4>1 DEF Calm
      <4> QED BY <1>13, <2>4, <4>1, <4>2 DEF Busy
    <3> QED BY <2>1, <2>2, <3>2, <3>3 DEF Calm
  <2> QED BY <2>3, <2>4
<1>15. \A v \in Workers : WorkerInv(v)'
  BY <1>11, <1>13
<1> QED BY <1>5, <1>8, <1>9, <1>14, <1>15, <1>16 DEF IInv

\* The file is opened and for a moment empty.
LEMMA TruncateIInv ==
    ASSUME IInv, NEW w \in Workers, Truncate(w)
    PROVE  IInv'
<1>1. "write" \in Steps /\ Storing(w)
  BY DEF Truncate, Goto, Steps, Storing
<1> QED BY <1>1, WriteStep DEF Truncate, Goto

\* The bytes are in the store.
LEMMA PutIInv ==
    ASSUME IInv, NEW w \in Workers, Put(w)
    PROVE  IInv'
<1>1. "insertRef" \in Steps /\ Storing(w)
  BY DEF Put, Steps, Storing
<1>2. PICK x : x = event[w].raw
  OBVIOUS
<1>3. x \in Raws
  BY <1>1, <1>2, KeyPlace, EventParts
<1> QED BY <1>1, <1>2, <1>3, WriteStep DEF Put

\* An upload that lands without its caller: nobody who is alone was promised
\* the object it replaces.
LEMMA LandIInv ==
    ASSUME IInv, NEW u \in uploads, Land(u)
    PROVE  IInv'
<1>k. PICK k : k = <<u.place, u.id>>
  OBVIOUS
<1>1. /\ objects' = [objects EXCEPT ![k] = u.raw]
      /\ month' = month /\ partitions' = partitions
      /\ raced' = raced /\ strayed' = strayed /\ uploads' = uploads
      /\ refs' = refs /\ events' = events
      /\ pc' = pc /\ event' = event /\ place' = place /\ rows' = rows
  BY <1>k DEF Land, tables, local, beside
<1>2. /\ TypeOK /\ k \in Places \X Ids /\ u.raw \in Raws /\ u.raw # None
  BY <1>k, IngestAssumption DEF IInv, TypeOK, Uploads
<1>3. /\ objects' \in [Places \X Ids -> Raws \cup {None, Torn}]
      /\ \A j \in Places \X Ids : j # k => objects'[j] = objects[j]
      /\ objects'[k] # None
  BY <1>1, <1>2 DEF TypeOK
<1>4. TypeOK'
  BY <1>1, <1>2, <1>3 DEF TypeOK
<1>5. \A i \in Ids : refs[i] # None => <<refs[i].place, i>> \in Places \X Ids
  BY <1>2 DEF TypeOK
<1>6. \A e \in events : <<e.at.day, e.id>> \in Places \X Ids
  BY <1>2, EventParts DEF TypeOK
<1>7. NothingDangles' /\ ReferenceHasRow'
  <2>1. \A i \in Ids : refs[i] # None => objects'[<<refs[i].place, i>>] # None
    BY <1>3, <1>5 DEF IInv, NothingDangles
  <2>2. \A e \in events : objects'[<<e.at.day, e.id>>] # None
    BY <1>3, <1>6 DEF IInv, NothingDangles
  <2>3. NothingDangles'
    BY <1>1, <2>1, <2>2 DEF NothingDangles
  <2>4. ReferenceHasRow'
    BY <1>1 DEF IInv, ReferenceHasRow
  <2> QED BY <2>3, <2>4
<1>8. ASSUME NEW v \in Workers
      PROVE  /\ WorkerInv(v)' /\ Key(v)' = Key(v)
             /\ Stored(v) => Key(v) \in Places \X Ids
             /\ \A i : Busy(v, i)' <=> Busy(v, i)
  <2>1. WorkerInv(v) /\ Key(v)' = Key(v) /\ (Stored(v) => Key(v) \in Places \X Ids)
    BY <1>1, KeyPlace DEF IInv, Key
  <2>2. WorkerInv(v)'
    BY <1>1, <1>3, <2>1 DEF WorkerInv, Staged, Whole, Storing, Stored, Primary
  <2> QED BY <1>1, <2>1, <2>2 DEF Busy
<1>9. \A i \in Ids \ raced' : Quiet(i)'
  BY <1>1 DEF IInv, Quiet, Kept, Busy, Alone, Storing, Stored
<1>10. ASSUME NEW i \in Ids \ (raced' \cup strayed') PROVE Calm(i)'
  <2>1. /\ Calm(i)
        /\ Running(i)' <=> Running(i)
        /\ Untold(i)' <=> Untold(i)
    BY <1>1, <1>10 DEF IInv, Running, Untold
  <2>2. CASE i = u.id
    <3>1. Running(i)
      BY <2>2 DEF Running
    <3>2. Untold(i) /\ \A v \in Workers : ~Busy(v, i)
      BY <2>1, <3>1 DEF Calm
    <3>3. Safe(i)'
      BY <1>1, <3>2 DEF Safe, Untold
    <3> QED BY <1>8, <2>1, <3>2, <3>3 DEF Calm
  <2>3. CASE i # u.id
    <3>1. \A p : <<p, i>> # k
      BY <1>k, <2>3
    <3>2. Safe(i)'
      <4>1. refs[i] # None => objects'[<<refs[i].place, i>>] = refs[i].sha
        BY <1>3, <1>5, <2>1, <3>1 DEF Calm, Safe
      <4>2. \A e \in events : e.id = i => objects'[<<e.at.day, i>>] = e.raw
        BY <1>3, <1>6, <2>1, <3>1 DEF Calm, Safe
      <4> QED BY <1>1, <4>1, <4>2 DEF Safe
    <3>3. ASSUME NEW v \in Workers, Busy(v, i)' PROVE Certain(v)'
      <4>1. Busy(v, i) /\ Certain(v)
        BY <1>8, <2>1, <3>3 DEF Calm
      <4>2. Key(v) # k
        BY <3>1, <4>1 DEF Key, Busy
      <4> QED BY <1>1, <1>3, <1>8, <4>1, <4>2 DEF Certain, Stored
    <3> QED BY <1>8, <2>1, <3>2, <3>3 DEF Calm
  <2> QED BY <2>2, <2>3
<1> QED BY <1>4, <1>7, <1>8, <1>9, <1>10 DEF IInv

\* An upload that is over.
LEMMA FinishIInv ==
    ASSUME IInv, NEW u \in uploads, Finish(u)
    PROVE  IInv'
<1>1. /\ uploads' = uploads \ {u}
      /\ month' = month /\ partitions' = partitions /\ objects' = objects
      /\ raced' = raced /\ strayed' = strayed /\ refs' = refs /\ events' = events
      /\ pc' = pc /\ event' = event /\ place' = place /\ rows' = rows
  BY DEF Finish, tables, local
<1>2. TypeOK' /\ NothingDangles' /\ ReferenceHasRow'
  BY <1>1 DEF IInv, TypeOK, NothingDangles, ReferenceHasRow
<1>3. \A w \in Workers : WorkerInv(w)'
  BY <1>1 DEF IInv, WorkerInv, Staged, Whole, Storing, Stored, Primary, Key
<1>4. \A i \in Ids \ raced' : Quiet(i)'
  BY <1>1 DEF IInv, Quiet, Kept, Busy, Alone, Storing, Stored
<1>5. ASSUME NEW i \in Ids \ (raced' \cup strayed') PROVE Calm(i)'
  <2>1. Calm(i) /\ (Running(i)' => Running(i))
    BY <1>1, <1>5 DEF IInv, Running
  <2> QED BY <1>1, <2>1 DEF Calm, Safe, Busy, Certain, Stored, Key, Untold
<1> QED BY <1>2, <1>3, <1>4, <1>5 DEF IInv

-----------------------------------------------------------------------------
(* The tables.                                                             *)

\* A commit makes a worker's reference and its row visible together.
LEMMA CommitIInv ==
    ASSUME IInv, NEW w \in Workers, Commit(w)
    PROVE  IInv'
<1>e. PICK e : e = event[w]
  OBVIOUS
<1>p. PICK p : p = place[w]
  OBVIOUS
<1>new. PICK new : new = [place |-> p, sha |-> e.raw]
  OBVIOUS
<1>1. /\ pc[w] = "commit" /\ End(w)
      /\ refs' = IF "ref" \in rows[w] THEN [refs EXCEPT ![e.id] = new] ELSE refs
      /\ events' = IF "event" \in rows[w] THEN events \cup {e} ELSE events
      /\ month' = month /\ partitions' = partitions /\ objects' = objects /\ raced' = raced
      /\ strayed' = strayed /\ uploads' = uploads
  BY <1>e, <1>p, <1>new DEF Commit, beside
<1>2. /\ TypeOK /\ WorkerInv(w) /\ e \in Events /\ e.id \in Ids /\ e.raw \in Raws
  BY <1>e, <1>1, EventParts DEF IInv, WorkerInv, Staged
<1>3. /\ pc' \in [Workers -> Steps] /\ event' \in [Workers -> Events \cup {None}]
      /\ place' \in [Workers -> Places \cup {None}]
      /\ rows' \in [Workers -> SUBSET {"ref", "event"}]
      /\ OthersUnchanged(w) /\ WorkerInv(w)' /\ \A i : ~Busy(w, i)'
  BY <1>1, <1>2, EndEffect
<1>4. rows[w] # {} =>
         /\ p \in Places /\ (p = Vault \/ p = e.at.day) /\ objects[<<p, e.id>>] # None
         /\ "event" \in rows[w] => p = e.at.day /\ p # Vault
         /\ "ref" \in rows[w] => p = Vault \/ "event" \in rows[w]
  <2>1. rows[w] # {} => place[w] \in Places
    BY KeyPlace DEF Stored
  <2> QED BY <1>e, <1>p, <1>1, <1>2, <2>1 DEF WorkerInv, Staged, Whole, Stored, Primary, Key
<1>5. "ref" \in rows[w] => new \in [place : Places, sha : Raws] /\ new # None
  BY <1>new, <1>2, <1>4, ReferenceAssumption
<1>6. /\ refs' \in [Ids -> [place : Places, sha : Raws] \cup {None}]
      /\ refs'[e.id] = IF "ref" \in rows[w] THEN new ELSE refs[e.id]
      /\ \A i \in Ids : i # e.id => refs'[i] = refs[i]
  BY <1>1, <1>2, <1>5 DEF TypeOK
<1>7. TypeOK'
  BY <1>1, <1>2, <1>3, <1>6 DEF TypeOK
<1>8. new.place = p /\ new.sha = e.raw
  BY <1>new
<1>9. NothingDangles'
  <2>1. ASSUME NEW i \in Ids, refs'[i] # None PROVE objects[<<refs'[i].place, i>>] # None
    <3>1. CASE refs'[i] = refs[i]
      BY <2>1, <3>1 DEF IInv, NothingDangles
    <3>2. CASE refs'[i] # refs[i]
      BY <1>4, <1>6, <1>8, <3>2
    <3> QED BY <3>1, <3>2
  <2>2. ASSUME NEW f \in events' PROVE objects[<<f.at.day, f.id>>] # None
    <3>1. CASE f \in events
      BY <3>1 DEF IInv, NothingDangles
    <3>2. CASE f \notin events
      BY <1>1, <1>4, <2>2, <3>2
    <3> QED BY <3>1, <3>2
  <2> QED BY <1>1, <2>1, <2>2 DEF NothingDangles
<1>10. ReferenceHasRow'
  <2> SUFFICES ASSUME NEW i \in Ids, refs'[i] # None, refs'[i].place # Vault
               PROVE  \E f \in events' : f.id = i /\ f.at.day = refs'[i].place /\ f.raw = refs'[i].sha
    BY DEF ReferenceHasRow
  <2>1. CASE refs'[i] = refs[i]
    <3>1. \E f \in events : f.id = i /\ f.at.day = refs[i].place /\ f.raw = refs[i].sha
      BY <2>1 DEF IInv, ReferenceHasRow
    <3> QED BY <1>1, <2>1, <3>1
  <2>2. CASE refs'[i] # refs[i]
    <3>1. i = e.id /\ "ref" \in rows[w] /\ refs'[i] = new
      BY <1>6, <2>2
    <3>2. "event" \in rows[w] /\ p = e.at.day
      BY <1>4, <1>8, <3>1
    <3> QED BY <1>1, <1>8, <3>1, <3>2
  <2> QED BY <2>1, <2>2
<1>11. ASSUME NEW v \in Workers, v # w
       PROVE  /\ WorkerInv(v)' /\ \A i : Busy(v, i)' <=> Busy(v, i)
              /\ \A i \in Ids : Busy(v, i) /\ i # e.id /\ Alone(v) => Alone(v)'
              /\ Certain(v) => Certain(v)'
  <2>1. /\ pc'[v] = pc[v] /\ event'[v] = event[v] /\ place'[v] = place[v] /\ rows'[v] = rows[v]
        /\ Key(v)' = Key(v) /\ WorkerInv(v)
    BY <1>3, <1>11 DEF OthersUnchanged, Key, IInv
  <2>2. WorkerInv(v)'
    BY <1>1, <2>1 DEF WorkerInv, Staged, Whole, Storing, Stored, Primary
  <2>3. \A i \in Ids : Busy(v, i) /\ i # e.id /\ Alone(v) => Alone(v)'
    BY <1>1, <1>6, <2>1 DEF Alone, Storing, Stored, Busy
  <2>4. Certain(v) => Certain(v)'
    BY <1>1, <2>1 DEF Certain, Stored
  <2> QED BY <2>1, <2>2, <2>3, <2>4 DEF Busy
\* An event_id of which w commits something had nothing committed before.
<1>f. ASSUME NEW i \in Ids \ raced', i = e.id, rows[w] # {}
      PROVE  /\ Untold(i) /\ refs'[i] = new /\ new # None
             /\ \A f \in events' : f.id = i => f = e /\ f.at.day = p /\ p # Vault
  <2>1. Quiet(i) /\ Alone(w)
    BY <1>e, <1>1, <1>f DEF IInv, Quiet, Busy
  <2>2. refs[i] = None /\ "ref" \in rows[w]
    BY <1>e, <1>f, <2>1 DEF Alone, Stored
  <2>3. Untold(i)
    BY <2>1, <2>2 DEF Quiet, Kept, Untold
  <2>4. \A f \in events' : f.id = i => f = e /\ "event" \in rows[w]
    BY <1>1, <2>3 DEF Untold
  <2>5. refs'[i] = new /\ new # None
    BY <1>5, <1>6, <1>f, <2>2
  <2>6. \A f \in events' : f.id = i => f = e /\ f.at.day = p /\ p # Vault
    BY <1>4, <2>4
  <2> QED BY <2>3, <2>5, <2>6
\* Of any other, or if w commits nothing, what is committed stays.
<1>g. ASSUME NEW i \in Ids, i # e.id \/ rows[w] = {}
      PROVE  refs'[i] = refs[i] /\ \A f : f.id = i => (f \in events' <=> f \in events)
  BY <1>1, <1>6, <1>g
<1>12. ASSUME NEW i \in Ids \ raced' PROVE Quiet(i)'
  <2>1. Quiet(i)
    BY <1>1, <1>12 DEF IInv
  <2>2. \A u, v \in Workers : Busy(u, i)' /\ Busy(v, i)' => u = v
    BY <1>3, <1>11, <2>1 DEF Quiet
  <2>3. ASSUME NEW v \in Workers, Busy(v, i)' PROVE Alone(v)'
    <3>1. v # w /\ Busy(v, i) /\ Alone(v)
      BY <1>3, <1>11, <2>1, <2>3 DEF Quiet
    <3>2. i # e.id
      BY <1>e, <1>1, <2>1, <3>1 DEF Quiet, Busy
    <3> QED BY <1>11, <3>1, <3>2
  <2>4. Kept(i)'
    <3>1. CASE i # e.id \/ rows[w] = {}
      BY <1>g, <2>1, <3>1 DEF Quiet, Kept
    <3>2. CASE i = e.id /\ rows[w] # {}
      BY <1>8, <1>f, <3>2 DEF Kept
    <3> QED BY <3>1, <3>2
  <2> QED BY <2>2, <2>3, <2>4 DEF Quiet
<1>14. ASSUME NEW i \in Ids \ (raced' \cup strayed') PROVE Calm(i)'
  <2>1. Calm(i) /\ Quiet(i) /\ (Running(i)' <=> Running(i))
    BY <1>1, <1>14 DEF IInv, Running
  <2>2. \A v \in Workers : Busy(v, i)' => v # w /\ Busy(v, i) /\ Certain(v)'
    BY <1>3, <1>11, <2>1 DEF Calm
  <2>3. Safe(i)'
    <3>1. CASE i # e.id \/ rows[w] = {}
      BY <1>1, <1>g, <2>1, <3>1 DEF Calm, Safe
    <3>2. CASE i = e.id /\ rows[w] # {}
      <4>1. objects[<<p, i>>] = e.raw
        BY <1>e, <1>p, <1>1, <2>1, <3>2 DEF Calm, Certain, Busy, Stored, Key
      <4> QED BY <1>1, <1>8, <1>f, <3>2, <4>1 DEF Safe
    <3> QED BY <3>1, <3>2
  <2>4. ASSUME Running(i) PROVE Untold(i)' /\ \A v \in Workers : ~Busy(v, i)'
    <3>1. Untold(i) /\ \A v \in Workers : ~Busy(v, i)
      BY <2>1, <2>4 DEF Calm
    <3>2. i # e.id
      BY <1>e, <1>1, <3>1 DEF Busy
    <3> QED BY <1>g, <2>2, <3>1, <3>2 DEF Untold
  <2> QED BY <2>1, <2>2, <2>3, <2>4 DEF Calm
<1>13. \A v \in Workers : WorkerInv(v)'
  BY <1>3, <1>11
<1> QED BY <1>7, <1>9, <1>10, <1>12, <1>13, <1>14 DEF IInv

-----------------------------------------------------------------------------
\* The calendar and the partitions are nobody's business here.
LEMMA CalendarIInv ==
    ASSUME IInv, NextMonth \/ EnsurePartitions
    PROVE  IInv'
<1>1. /\ objects' = objects /\ refs' = refs /\ events' = events
      /\ uploads' = uploads /\ raced' = raced /\ strayed' = strayed
      /\ pc' = pc /\ event' = event /\ place' = place /\ rows' = rows
  BY DEF NextMonth, EnsurePartitions, tables, local, beside
<1>2. month' \in 0 .. LastMonth /\ partitions' \subseteq 0 .. LastMonth
  <2>1. /\ LastMonth \in Nat
        /\ month \in 0 .. LastMonth /\ partitions \subseteq 0 .. LastMonth
    BY IngestAssumption DEF IInv, TypeOK
  <2>2. CASE NextMonth
    BY <2>1, <2>2 DEF NextMonth
  <2>3. CASE EnsurePartitions
    <3>1. month' = month
      BY <2>3 DEF EnsurePartitions
    <3>2. partitions' = partitions \cup ((month - 2 .. month + 3) \cap 0 .. LastMonth)
      BY <2>3 DEF EnsurePartitions
    <3> QED BY <2>1, <3>1, <3>2, Zenon
  <2> QED BY <2>2, <2>3
<1>3. TypeOK'
  BY <1>1, <1>2 DEF IInv, TypeOK
<1>4. NothingDangles' /\ ReferenceHasRow'
  BY <1>1 DEF IInv, NothingDangles, ReferenceHasRow
<1>5. \A w \in Workers : WorkerInv(w)'
  BY <1>1 DEF IInv, WorkerInv, Staged, Whole, Storing, Stored, Primary, Key
<1>6. \A i \in Ids \ raced' : Quiet(i)'
  BY <1>1 DEF IInv, Quiet, Kept, Busy, Alone, Storing, Stored
<1>7. \A i \in Ids \ (raced' \cup strayed') : Calm(i)'
  BY <1>1 DEF IInv, Calm, Safe, Busy, Certain, Stored, Key, Running, Untold
<1> QED BY <1>3, <1>4, <1>5, <1>6, <1>7 DEF IInv

\* Every step preserves the invariant.
LEMMA NextIInv == IInv /\ [Next]_vars => IInv'
<1> SUFFICES ASSUME IInv, [Next]_vars PROVE IInv'
  OBVIOUS
<1>1. CASE UNCHANGED vars
  <2>1. /\ objects' = objects /\ refs' = refs /\ events' = events
        /\ uploads' = uploads /\ raced' = raced /\ strayed' = strayed
        /\ pc' = pc /\ event' = event /\ place' = place /\ rows' = rows
        /\ month' = month /\ partitions' = partitions
    BY <1>1 DEF vars, tables, local, beside
  <2>2. TypeOK' /\ NothingDangles' /\ ReferenceHasRow'
    BY <2>1 DEF IInv, TypeOK, NothingDangles, ReferenceHasRow
  <2>3. \A w \in Workers : WorkerInv(w)'
    BY <2>1 DEF IInv, WorkerInv, Staged, Whole, Storing, Stored, Primary, Key
  <2>4. \A i \in Ids \ raced' : Quiet(i)'
    BY <2>1 DEF IInv, Quiet, Kept, Busy, Alone, Storing, Stored
  <2>5. \A i \in Ids \ (raced' \cup strayed') : Calm(i)'
    BY <2>1 DEF IInv, Calm, Safe, Busy, Certain, Stored, Key, Running, Untold
  <2> QED BY <2>2, <2>3, <2>4, <2>5 DEF IInv
<1>2. ASSUME NEW w \in Workers, Step(w) PROVE IInv'
  BY <1>2, BeginIInv, EndsBadly, AbandonIInv, DuplicateIInv, JudgeIInv, TruncateIInv, PutIInv,
     InsertRefIInv, InsertEventIInv, CommitIInv DEF Step
<1>3. CASE NextMonth \/ EnsurePartitions
  BY <1>3, CalendarIInv
<1>4. ASSUME NEW u \in uploads, Land(u) \/ Finish(u) PROVE IInv'
  BY <1>4, LandIInv, FinishIInv
<1> QED BY <1>1, <1>2, <1>3, <1>4 DEF Next

\* The strengthened invariant holds in every reachable state.
THEOREM Invariance == Spec => []IInv
BY InitIInv, NextIInv, PTL DEF Spec

\* The variables keep their types.
THEOREM TypeCorrect == Spec => []TypeOK
<1>1. IInv => TypeOK
  BY DEF IInv
<1> QED BY <1>1, Invariance, PTL

\* Nothing that is committed names an object that was never stored
\* (event_persistence.py, persist_raw_event).
THEOREM NeverDangles == Spec => []NothingDangles
<1>1. IInv => NothingDangles
  BY DEF IInv
<1> QED BY <1>1, Invariance, PTL

\* A reference to the primary store is committed with its row
\* (event_persistence.py, persist_raw_event).
THEOREM RowWithReference == Spec => []ReferenceHasRow
<1>1. IInv => ReferenceHasRow
  BY DEF IInv
<1> QED BY <1>1, Invariance, PTL

\* The bytes of an event that nobody persisted twice at once, or beside an
\* upload of it left running, are the bytes it was accepted with, whatever is
\* delivered again, whatever fails and whenever such uploads land
\* (event_persistence.py, persist_raw_event; raw_store.py, S3RawObjectStore.put).
THEOREM ProvenanceWhenQuiet == Spec => []QuietProvenance
<1>1. IInv => QuietProvenance
  BY DEF IInv, Calm, Safe, QuietProvenance
<1> QED BY <1>1, Invariance, PTL

\* Such an event has one row or is in quarantine, never both.
THEOREM SingleRowWhenQuiet == Spec => []QuietSingleRow
<1>1. IInv => QuietSingleRow
  <2> SUFFICES ASSUME IInv, NEW i \in Ids \ raced
               PROVE  /\ Cardinality({e \in events : e.id = i}) <= 1
                      /\ refs[i] # None /\ refs[i].place = Vault => {e \in events : e.id = i} = {}
    BY DEF QuietSingleRow
  <2> DEFINE mine == {e \in events : e.id = i}
  <2>1. Kept(i)
    BY DEF IInv, Quiet
  <2>2. Cardinality(mine) <= 1
    <3>1. CASE mine = {}
      BY <3>1, FS_EmptySet
    <3>2. ASSUME NEW e \in mine PROVE Cardinality(mine) <= 1
      <4>1. mine = {e}
        BY <2>1, <3>2 DEF Kept
      <4>2. Cardinality({e}) = 1
        BY FS_Singleton
      <4> QED BY <4>1, <4>2
    <3> QED BY <3>1, <3>2
  <2> QED BY <2>1, <2>2 DEF Kept
<1> QED BY <1>1, Invariance, PTL
=============================================================================
