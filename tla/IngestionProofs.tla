---------------------------- MODULE IngestionProofs ----------------------------
(***************************************************************************)
(* Theorems about the ingestion of purchases, for any number of            *)
(* transactions, requests and attempts.                                    *)
(***************************************************************************)
EXTENDS Ingestion, TLAPS

\* What the webhook path still knows of a signature.
Known(ib, hk) == ib # "none" /\ (hk.state # "absent" \/ ib # "RECEIVED")

\* The rows and jobs of one signature: nothing precedes the transaction but
\* the webhook's own row, an order is what its log shows, and whoever is done has
\* left a trace of it.
SigOK(s, ld, k, ib, hk, jb, od) ==
    /\ s > ld => k = NotLanded
    /\ od # 0 => s <= ld /\ ~k.mixed /\ k.shown = od /\ od <= k.paid
    /\ hk.state # "absent" => ib # "none"
    /\ hk.state = "done" => ib \notin {"none", "RECEIVED"}
    /\ hk.state = "queued" \/ ib = "PROCESSED" => jb.state # "absent" \/ od # 0
    /\ jb.state \in {"created", "done"} => od # 0
    /\ hk.state # "failed" => hk.tries < HookAttempts
    /\ jb.state # "failed" => jb.tries < TicketAttempts

\* What a request has done for its signatures by its last two stages.
Promised(hd, ib, hk) ==
    /\ hd.pc = "enqueue" => \A s \in hd.fresh : ib[s] # "none"
    /\ hd.pc = "mark" => \A s \in hd.fresh : Known(ib[s], hk[s])

SigInv == \A s \in Sigs : SigOK(s, landed, kind[s], inbox[s], hook[s], job[s], order[s])
SeenInv == \A s \in seen : Known(inbox[s], hook[s])
RequestInv == \A h \in Handlers : Promised(handler[h], inbox, hook)
IInv == TypeOK /\ SigInv /\ SeenInv /\ RequestInv

-----------------------------------------------------------------------------
\* What BullMQ's steps do to a table of jobs.
LEMMA AddedIs ==
    ASSUME NEW n \in Nat \ {0}, NEW jobs \in [Sigs -> JobSet(n)], NEW s \in Sigs
    PROVE  /\ Added(jobs, s) \in [Sigs -> JobSet(n)]
           /\ \A q \in Sigs : q # s => Added(jobs, s)[q] = jobs[q]
           /\ Added(jobs, s)[s].state # "absent"
           /\ \/ Added(jobs, s)[s] = jobs[s]
              \/ /\ jobs[s].state = "absent"
                 /\ Added(jobs, s)[s].state = "waiting" /\ Added(jobs, s)[s].tries = 0
<1>1. [state |-> "waiting", tries |-> 0] \in JobSet(n)
  BY DEF JobSet, JobStates
<1>2. CASE jobs[s].state = "absent"
  BY <1>1, <1>2 DEF Added
<1>3. CASE jobs[s].state # "absent"
  BY <1>3 DEF Added
<1> QED
  BY <1>2, <1>3

LEMMA ToIs ==
    ASSUME NEW n \in Nat, NEW jobs \in [Sigs -> JobSet(n)], NEW s \in Sigs, NEW st \in JobStates
    PROVE  /\ To(jobs, s, st) \in [Sigs -> JobSet(n)]
           /\ \A q \in Sigs : q # s => To(jobs, s, st)[q] = jobs[q]
           /\ To(jobs, s, st)[s].state = st
           /\ To(jobs, s, st)[s].tries = jobs[s].tries
BY DEF To, JobSet

LEMMA EndedIs ==
    ASSUME NEW n \in Nat, NEW jobs \in [Sigs -> JobSet(n)], NEW s \in Sigs, NEW st \in JobStates
    PROVE  /\ Ended(jobs, s, st) \in [Sigs -> JobSet(n)]
           /\ \A q \in Sigs : q # s => Ended(jobs, s, st)[q] = jobs[q]
           /\ Ended(jobs, s, st)[s].state = st
           /\ Ended(jobs, s, st)[s].tries = 0
BY DEF Ended, JobSet

LEMMA ThrownIs ==
    ASSUME NEW n \in Nat \ {0}, NEW jobs \in [Sigs -> JobSet(n)], NEW s \in Sigs,
           jobs[s].tries < n
    PROVE  /\ Thrown(jobs, s, n) \in [Sigs -> JobSet(n)]
           /\ \A q \in Sigs : q # s => Thrown(jobs, s, n)[q] = jobs[q]
           /\ Thrown(jobs, s, n)[s].state \in {"waiting", "failed"}
           /\ Thrown(jobs, s, n)[s].state # "failed" => Thrown(jobs, s, n)[s].tries < n
<1>1. jobs[s] \in JobSet(n) /\ jobs[s].tries \in 0..n
  BY DEF JobSet
<1>2. CASE jobs[s].tries + 1 >= n
  <2>1. Thrown(jobs, s, n) = Ended(jobs, s, "failed") /\ "failed" \in JobStates
    BY <1>2 DEF Thrown, JobStates
  <2> QED
    BY <2>1, EndedIs
<1>3. CASE ~(jobs[s].tries + 1 >= n)
  <2> DEFINE k == jobs[s].tries + 1
             r == [state |-> "waiting", tries |-> k]
  <2>1. Thrown(jobs, s, n) = [jobs EXCEPT ![s] = r]
    BY <1>3 DEF Thrown
  <2>2. k \in 0..n /\ k < n
    BY <1>1, <1>3
  <2> HIDE DEF k
  <2>3. r \in JobSet(n) /\ r.state = "waiting" /\ r.tries = k
    BY <2>2 DEF JobSet, JobStates
  <2> HIDE DEF r
  <2> QED
    BY <2>1, <2>2, <2>3
<1> QED
  BY <1>2, <1>3

\* Forgetting a job.
LEMMA NoJobIs ==
    ASSUME NEW n \in Nat
    PROVE  NoJob \in JobSet(n) /\ NoJob.state = "absent" /\ NoJob.tries = 0
BY DEF NoJob, JobSet, JobStates

-----------------------------------------------------------------------------
\* A step that touches one signature, and forgets nothing of it.
LEMMA OneSig ==
    ASSUME TypeOK, SigInv, SeenInv, RequestInv, NEW s \in Sigs,
           UNCHANGED <<chain, webhook>>,
           \A q \in Sigs : q # s => /\ inbox'[q] = inbox[q] /\ hook'[q] = hook[q]
                                    /\ job'[q] = job[q] /\ order'[q] = order[q],
           SigOK(s, landed, kind[s], inbox'[s], hook'[s], job'[s], order'[s]),
           inbox[s] # "none" => inbox'[s] # "none",
           Known(inbox[s], hook[s]) => Known(inbox'[s], hook'[s])
    PROVE  SigInv' /\ SeenInv' /\ RequestInv'
<1>1. landed' = landed /\ kind' = kind /\ seen' = seen /\ handler' = handler
  BY DEF chain, webhook
<1>2. \A q \in Sigs : SigOK(q, landed', kind'[q], inbox'[q], hook'[q], job'[q], order'[q])
  <2> SUFFICES ASSUME NEW q \in Sigs
               PROVE  SigOK(q, landed', kind'[q], inbox'[q], hook'[q], job'[q], order'[q])
    OBVIOUS
  <2>1. CASE q = s
    BY <1>1, <2>1
  <2>2. CASE q # s
    BY <1>1, <2>2 DEF SigInv
  <2> QED
    BY <2>1, <2>2
<1>3. \A q \in Sigs : /\ inbox[q] # "none" => inbox'[q] # "none"
                      /\ Known(inbox[q], hook[q]) => Known(inbox'[q], hook'[q])
  OBVIOUS
<1>4. seen \subseteq Sigs /\ \A h \in Handlers : handler[h].fresh \subseteq Sigs
  BY DEF TypeOK, Requests
<1>5. SeenInv'
  BY <1>1, <1>3, <1>4 DEF SeenInv
<1>6. \A h \in Handlers : Promised(handler'[h], inbox', hook')
  BY <1>1, <1>3, <1>4 DEF RequestInv, Promised
<1> QED
  BY <1>2, <1>5, <1>6 DEF SigInv, RequestInv

\* What the invariant says of one signature, unfolded.
LEMMA At ==
    ASSUME TypeOK, SigInv, NEW s \in Sigs
    PROVE  /\ SigOK(s, landed, kind[s], inbox[s], hook[s], job[s], order[s])
           /\ kind[s] \in Kinds(s) /\ kind[s].paid \in Nat
           /\ kind[s].shown \in Nat /\ kind[s].shown <= kind[s].paid
           /\ inbox[s] \in Verdicts /\ order[s] \in Nat
           /\ HookAttempts \in Nat \ {0} /\ TicketAttempts \in Nat \ {0}
           /\ s \in Nat /\ landed \in Nat
           /\ hook \in [Sigs -> JobSet(HookAttempts)] /\ job \in [Sigs -> JobSet(TicketAttempts)]
<1>1. kind[s] \in Kinds(s)
  BY DEF TypeOK
<1>2. kind[s].paid \in Nat /\ kind[s].shown \in 0..kind[s].paid
  <2>1. CASE kind[s] \in Lands[s]
    BY <2>1, IngestionConstants
  <2>2. CASE kind[s] = NotLanded
    BY <2>2 DEF NotLanded
  <2> QED
    BY <1>1, <2>1, <2>2 DEF Kinds
<1>3. HookAttempts \in Nat \ {0} /\ TicketAttempts \in Nat \ {0} /\ MaxSig \in Nat
  BY IngestionConstants
<1>4. s \in Nat /\ landed \in Nat
  BY <1>3 DEF Sigs, TypeOK
<1> QED
  BY <1>1, <1>2, <1>3, <1>4 DEF SigInv, TypeOK

LEMMA InitInv == Init => IInv
<1> SUFFICES ASSUME Init PROVE IInv
  OBVIOUS
<1> USE IngestionConstants DEF Init
<1>1. HookAttempts \in Nat \ {0} /\ TicketAttempts \in Nat \ {0}
  OBVIOUS
<1>2. TypeOK
  <2>1. landed \in 0..MaxSig /\ cursor \in 0..MaxSig /\ faults \in 0..MaxFaults
    OBVIOUS
  <2>2. \A s \in Sigs : kind[s] \in Kinds(s)
    BY DEF Kinds
  <2>3. kind \in [Sigs -> UNION {Kinds(s) : s \in Sigs}]
    BY DEF Kinds
  <2>4. handler \in [Handlers -> Requests] /\ seen \subseteq Sigs /\ relay \subseteq Sigs
    BY DEF Ready, Requests
  <2>5. inbox \in [Sigs -> Verdicts] /\ order \in [Sigs -> Nat]
    BY DEF Verdicts
  <2>6. hook \in [Sigs -> JobSet(HookAttempts)] /\ job \in [Sigs -> JobSet(TicketAttempts)]
    BY <1>1, NoJobIs
  <2>7. poll \in [todo : SUBSET Sigs, newest : 0..MaxSig]
    BY DEF NoPoll
  <2> QED
    BY <2>1, <2>2, <2>3, <2>4, <2>5, <2>6, <2>7 DEF TypeOK
<1>3. SigInv
  BY <1>1, NoJobIs DEF SigInv, SigOK
<1>4. SeenInv /\ RequestInv
  BY DEF SeenInv, RequestInv, Promised, Ready
<1> QED
  BY <1>2, <1>3, <1>4 DEF IInv

-----------------------------------------------------------------------------
\* The chain, the node, and the API.
LEMMA LandInv ==
    ASSUME IInv, NEW s \in Sigs, NEW k \in Lands[s], s = landed + 1, Land(k)
    PROVE  IInv'
<1> USE DEF Land
<1>0. TypeOK /\ SigInv /\ SeenInv /\ RequestInv /\ MaxSig \in Nat /\ landed \in Nat
  BY IngestionConstants DEF IInv, TypeOK
<1>1. UNCHANGED <<handler, seen, inbox, hook, job, order, relay, cursor, poll, faults>>
  BY DEF webhook, orders, indexer
<1>2. \A q \in Sigs : kind'[q] = IF q = s THEN k ELSE kind[q]
  BY <1>0 DEF TypeOK
<1>3. TypeOK'
  <2>1. landed' \in 0..MaxSig
    BY <1>0
  <2>2. k \in Kinds(s) /\ k \in UNION {Kinds(r) : r \in Sigs}
    BY DEF Kinds
  <2>3. kind' \in [Sigs -> UNION {Kinds(r) : r \in Sigs}]
    BY <1>0, <2>2 DEF TypeOK
  <2>4. \A q \in Sigs : kind'[q] \in Kinds(q)
    BY <1>0, <1>2, <2>2 DEF TypeOK
  <2> QED
    BY <1>0, <1>1, <2>1, <2>3, <2>4 DEF TypeOK
<1>4. \A q \in Sigs : SigOK(q, landed', kind'[q], inbox[q], hook[q], job[q], order[q])
  <2> SUFFICES ASSUME NEW q \in Sigs
               PROVE  SigOK(q, landed', kind'[q], inbox[q], hook[q], job[q], order[q])
    OBVIOUS
  <2>1. SigOK(q, landed, kind[q], inbox[q], hook[q], job[q], order[q]) /\ q \in Nat
    BY <1>0, At
  <2>2. CASE q = s
    BY <1>0, <2>1, <2>2 DEF SigOK
  <2>3. CASE q # s
    BY <1>0, <1>2, <2>1, <2>3 DEF SigOK
  <2> QED
    BY <2>2, <2>3
<1> QED
  BY <1>0, <1>1, <1>3, <1>4 DEF IInv, SigInv, SeenInv, RequestInv

LEMMA SeenExpiresInv == ASSUME IInv, NEW s \in Sigs, SeenExpires(s) PROVE IInv'
BY DEF IInv, SeenExpires, TypeOK, SigInv, SeenInv, RequestInv, chain, orders, indexer

LEMMA ReceiveInv ==
    ASSUME IInv, NEW h \in Handlers, NEW sigs \in SUBSET Sigs, Receive(h, sigs)
    PROVE  IInv'
<1> USE DEF Receive
<1>1. UNCHANGED <<landed, kind, seen, inbox, hook, job, order, relay, cursor, poll, faults>>
  BY DEF chain, orders, indexer
<1>2. [pc |-> "persist", fresh |-> sigs \ seen] \in Requests
  BY DEF Requests
<1>3. handler' \in [Handlers -> Requests]
  BY <1>2 DEF IInv, TypeOK
<1>4. \A g \in Handlers : g # h => handler'[g] = handler[g]
  BY DEF IInv, TypeOK
<1>5. handler'[h].pc = "persist"
  BY DEF IInv, TypeOK
<1>6. \A g \in Handlers : Promised(handler'[g], inbox, hook)
  BY <1>4, <1>5 DEF IInv, RequestInv, Promised
<1> QED
  BY <1>1, <1>3, <1>6 DEF IInv, TypeOK, SigInv, SeenInv, RequestInv

\* A request that starts again, after its last stage or in the middle.
LEMMA RequestEnds ==
    ASSUME IInv, NEW h \in Handlers, handler' = [handler EXCEPT ![h] = Ready]
    PROVE  /\ handler' \in [Handlers -> Requests]
           /\ \A g \in Handlers : Promised(handler'[g], inbox, hook)
<1>1. Ready \in Requests /\ Ready.pc = "idle"
  BY DEF Ready, Requests
<1>2. handler' \in [Handlers -> Requests]
  BY <1>1 DEF IInv, TypeOK
<1>3. \A g \in Handlers : handler'[g] = IF g = h THEN Ready ELSE handler[g]
  BY DEF IInv, TypeOK
<1> QED
  BY <1>1, <1>2, <1>3 DEF IInv, RequestInv, Promised

LEMMA HandlerFailsInv == ASSUME IInv, NEW h \in Handlers, HandlerFails(h) PROVE IInv'
<1> USE DEF HandlerFails
<1>1. UNCHANGED <<landed, kind, seen, inbox, hook, job, order, relay, cursor, poll>>
  BY DEF chain, orders, indexer
<1>2. faults' \in 0..MaxFaults
  BY IngestionConstants DEF Fault, IInv, TypeOK
<1>3. /\ handler' \in [Handlers -> Requests]
      /\ \A g \in Handlers : Promised(handler'[g], inbox, hook)
  BY RequestEnds
<1> QED
  BY <1>1, <1>2, <1>3 DEF IInv, TypeOK, SigInv, SeenInv, RequestInv

LEMMA MarkSeenInv == ASSUME IInv, NEW h \in Handlers, MarkSeen(h) PROVE IInv'
<1> USE DEF MarkSeen
<1>1. UNCHANGED <<landed, kind, inbox, hook, job, order, relay, cursor, poll, faults>>
  BY DEF chain, orders, indexer
<1>2. /\ handler' \in [Handlers -> Requests]
      /\ \A g \in Handlers : Promised(handler'[g], inbox, hook)
  BY RequestEnds
<1>3. handler[h].fresh \subseteq Sigs
  BY DEF IInv, TypeOK, Requests
<1>4. \A s \in seen' : Known(inbox[s], hook[s])
  BY DEF IInv, SeenInv, RequestInv, Promised
<1> QED
  BY <1>1, <1>2, <1>3, <1>4 DEF IInv, TypeOK, SigInv, SeenInv, RequestInv

LEMMA PersistInv == ASSUME IInv, NEW h \in Handlers, Persist(h) PROVE IInv'
<1> USE DEF Persist
<1>0. TypeOK /\ SigInv /\ SeenInv /\ RequestInv
  BY DEF IInv
<1>1. UNCHANGED <<landed, kind, seen, hook, job, order, relay, cursor, poll, faults>>
  BY DEF chain, orders, indexer
<1>2. \A q \in Sigs : inbox'[q] = inbox[q] \/ (inbox[q] = "none" /\ inbox'[q] = "RECEIVED")
  OBVIOUS
<1>3. \A q \in handler[h].fresh : q \in Sigs /\ inbox'[q] # "none"
  BY <1>0 DEF TypeOK, Requests
<1>4. /\ handler'[h].pc = "enqueue" /\ handler'[h].fresh = handler[h].fresh
      /\ \A g \in Handlers : g # h => handler'[g] = handler[g]
      /\ handler' \in [Handlers -> Requests]
  BY <1>0 DEF TypeOK, Requests
<1>5. inbox' \in [Sigs -> Verdicts]
  BY <1>0 DEF TypeOK, Verdicts
<1>6. \A q \in Sigs : SigOK(q, landed, kind[q], inbox'[q], hook[q], job[q], order[q])
  BY <1>0, <1>2 DEF SigInv, SigOK
<1>7. \A q \in Sigs : /\ inbox[q] # "none" => inbox'[q] # "none"
                      /\ Known(inbox[q], hook[q]) => Known(inbox'[q], hook[q])
  BY <1>2 DEF Known
<1>8. \A q \in seen : Known(inbox'[q], hook[q])
  BY <1>0, <1>7 DEF TypeOK, SeenInv
<1>9. \A g \in Handlers : Promised(handler'[g], inbox', hook)
  <2> SUFFICES ASSUME NEW g \in Handlers PROVE Promised(handler'[g], inbox', hook)
    OBVIOUS
  <2>1. CASE g = h
    BY <1>3, <1>4, <2>1 DEF Promised
  <2>2. CASE g # h
    BY <1>0, <1>4, <1>7, <2>2 DEF RequestInv, Promised, TypeOK, Requests
  <2> QED
    BY <2>1, <2>2
<1> QED
  BY <1>0, <1>1, <1>4, <1>5, <1>6, <1>8, <1>9 DEF IInv, TypeOK, SigInv, SeenInv, RequestInv

LEMMA EnqueueInv == ASSUME IInv, NEW h \in Handlers, Enqueue(h) PROVE IInv'
<1> USE DEF Enqueue
<1>0. /\ TypeOK /\ SigInv /\ SeenInv /\ RequestInv
      /\ HookAttempts \in Nat \ {0} /\ hook \in [Sigs -> JobSet(HookAttempts)]
  BY IngestionConstants DEF IInv, TypeOK
<1>1. UNCHANGED <<landed, kind, seen, inbox, job, order, relay, cursor, poll, faults>>
  BY DEF chain, orders, indexer
<1>2. /\ handler'[h].pc = "mark" /\ handler'[h].fresh = handler[h].fresh
      /\ \A g \in Handlers : g # h => handler'[g] = handler[g]
      /\ handler' \in [Handlers -> Requests] /\ handler[h].fresh \subseteq Sigs
  BY <1>0 DEF TypeOK, Requests
<1>3. \A q \in handler[h].fresh : inbox[q] # "none"
  BY <1>0 DEF RequestInv, Promised
<1>4. \A q \in Sigs :
        /\ hook'[q] \in JobSet(HookAttempts)
        /\ q \in handler[h].fresh => hook'[q].state # "absent"
        /\ \/ hook'[q] = hook[q]
           \/ /\ q \in handler[h].fresh /\ hook[q].state = "absent"
              /\ hook'[q].state = "waiting" /\ hook'[q].tries = 0
  <2> SUFFICES ASSUME NEW q \in Sigs
               PROVE  /\ hook'[q] \in JobSet(HookAttempts)
                      /\ q \in handler[h].fresh => hook'[q].state # "absent"
                      /\ \/ hook'[q] = hook[q]
                         \/ /\ q \in handler[h].fresh /\ hook[q].state = "absent"
                            /\ hook'[q].state = "waiting" /\ hook'[q].tries = 0
    OBVIOUS
  <2>1. CASE q \in handler[h].fresh
    <3>1. hook'[q] = Added(hook, q)[q]
      BY <2>1
    <3> QED
      BY <1>0, <2>1, <3>1, AddedIs
  <2>2. CASE q \notin handler[h].fresh
    BY <1>0, <2>2
  <2> QED
    BY <2>1, <2>2
<1>5. hook' \in [Sigs -> JobSet(HookAttempts)]
  BY <1>4
<1>6. \A q \in Sigs : SigOK(q, landed, kind[q], inbox[q], hook'[q], job[q], order[q])
  BY <1>0, <1>3, <1>4 DEF SigInv, SigOK
<1>7. \A q \in Sigs : Known(inbox[q], hook[q]) => Known(inbox[q], hook'[q])
  BY <1>4 DEF Known
<1>8. \A q \in seen : Known(inbox[q], hook'[q])
  BY <1>0, <1>7 DEF TypeOK, SeenInv
<1>9. \A g \in Handlers : Promised(handler'[g], inbox, hook')
  <2> SUFFICES ASSUME NEW g \in Handlers PROVE Promised(handler'[g], inbox, hook')
    OBVIOUS
  <2>1. CASE g = h
    BY <1>2, <1>3, <1>4, <2>1 DEF Promised, Known
  <2>2. CASE g # h
    BY <1>0, <1>2, <1>7, <2>2 DEF RequestInv, Promised, TypeOK, Requests
  <2> QED
    BY <2>1, <2>2
<1> QED
  BY <1>0, <1>1, <1>2, <1>5, <1>6, <1>8, <1>9 DEF IInv, TypeOK, SigInv, SeenInv, RequestInv

-----------------------------------------------------------------------------
\* Steps of a webhook job: the job and the row of one signature.
LEMMA HookStep ==
    ASSUME IInv, NEW s \in Sigs, NEW st \in JobStates, NEW v \in Verdicts,
           hook' = Ended(hook, s, st), inbox' = [inbox EXCEPT ![s] = v],
           UNCHANGED <<chain, webhook, job, orders, indexer, faults>>,
           SigOK(s, landed, kind[s], v, hook'[s], job[s], order[s]),
           v # "none", st # "absent" \/ v # "RECEIVED"
    PROVE  IInv'
<1>0. TypeOK /\ SigInv /\ SeenInv /\ RequestInv
  BY DEF IInv
<1>1. /\ HookAttempts \in Nat /\ hook \in [Sigs -> JobSet(HookAttempts)]
      /\ UNCHANGED <<landed, kind, handler, seen, job, order, relay, cursor, poll, faults>>
  BY <1>0, IngestionConstants DEF TypeOK, chain, webhook, orders, indexer
<1>2. /\ hook' \in [Sigs -> JobSet(HookAttempts)] /\ hook'[s].state = st
      /\ \A q \in Sigs : q # s => hook'[q] = hook[q]
  BY <1>1, EndedIs
<1>3. /\ inbox' \in [Sigs -> Verdicts] /\ inbox'[s] = v
      /\ \A q \in Sigs : q # s => inbox'[q] = inbox[q]
  BY <1>0 DEF TypeOK
<1>4. Known(v, hook'[s])
  BY <1>2 DEF Known
<1>5. SigInv' /\ SeenInv' /\ RequestInv'
  BY <1>0, <1>1, <1>2, <1>3, <1>4, OneSig
<1>6. TypeOK'
  BY <1>0, <1>1, <1>2, <1>3 DEF TypeOK
<1> QED
  BY <1>5, <1>6 DEF IInv

LEMMA HookStaleInv == ASSUME IInv, NEW s \in Sigs, HookStale(s) PROVE IInv'
<1> USE DEF HookStale, HookAt
<1>1. TypeOK /\ SigInv
  BY DEF IInv
<1>2. "done" \in JobStates /\ "PROCESSED" \in Verdicts
  BY DEF JobStates, Verdicts
<1>3. inbox' = [inbox EXCEPT ![s] = "PROCESSED"]
  BY <1>1 DEF TypeOK
<1>4. hook'[s].state = "done" /\ hook'[s].tries = 0
  BY <1>1, <1>2, At, EndedIs
<1>5. SigOK(s, landed, kind[s], "PROCESSED", hook'[s], job[s], order[s])
  BY <1>1, <1>4, At DEF SigOK
<1> QED
  BY <1>2, <1>3, <1>5, HookStep

LEMMA HookSkipsInv == ASSUME IInv, NEW s \in Sigs, HookSkips(s) PROVE IInv'
<1> USE DEF HookSkips, HookAt
<1>1. TypeOK /\ SigInv
  BY DEF IInv
<1>2. "done" \in JobStates /\ "SKIPPED" \in Verdicts
  BY DEF JobStates, Verdicts
<1>4. hook'[s].state = "done" /\ hook'[s].tries = 0
  BY <1>1, <1>2, At, EndedIs
<1>5. SigOK(s, landed, kind[s], "SKIPPED", hook'[s], job[s], order[s])
  BY <1>1, <1>4, At DEF SigOK
<1> QED
  BY <1>2, <1>5, HookStep

LEMMA HookProcessedInv == ASSUME IInv, NEW s \in Sigs, HookProcessed(s) PROVE IInv'
<1> USE DEF HookProcessed, HookAt
<1>1. TypeOK /\ SigInv
  BY DEF IInv
<1>2. "done" \in JobStates /\ "PROCESSED" \in Verdicts
  BY DEF JobStates, Verdicts
<1>4. hook'[s].state = "done" /\ hook'[s].tries = 0
  BY <1>1, <1>2, At, EndedIs
<1>5. SigOK(s, landed, kind[s], "PROCESSED", hook'[s], job[s], order[s])
  BY <1>1, <1>4, At DEF SigOK
<1> QED
  BY <1>2, <1>5, HookStep

\* An attempt of a webhook job that throws.
LEMMA HookThrown ==
    ASSUME IInv, NEW s \in Sigs, hook[s].state \in {"waiting", "queued"},
           hook' = Thrown(hook, s, HookAttempts),
           UNCHANGED <<chain, webhook, inbox, job, orders, indexer>>,
           faults' \in 0..MaxFaults
    PROVE  IInv'
<1>0. TypeOK /\ SigInv /\ SeenInv /\ RequestInv
  BY DEF IInv
<1>1. UNCHANGED <<landed, kind, handler, seen, inbox, job, order, relay, cursor, poll>>
  BY DEF chain, webhook, orders, indexer
<1>2. /\ SigOK(s, landed, kind[s], inbox[s], hook[s], job[s], order[s])
      /\ HookAttempts \in Nat \ {0} /\ hook \in [Sigs -> JobSet(HookAttempts)]
  BY <1>0, At
<1>3. hook[s].tries < HookAttempts
  BY <1>2 DEF SigOK
<1>4. /\ hook' \in [Sigs -> JobSet(HookAttempts)]
      /\ \A q \in Sigs : q # s => hook'[q] = hook[q]
      /\ hook'[s].state \in {"waiting", "failed"}
      /\ hook'[s].state # "failed" => hook'[s].tries < HookAttempts
  BY <1>2, <1>3, ThrownIs
<1>5. SigOK(s, landed, kind[s], inbox[s], hook'[s], job[s], order[s])
  BY <1>2, <1>4 DEF SigOK
<1>6. Known(inbox[s], hook[s]) => Known(inbox[s], hook'[s])
  BY <1>4 DEF Known
<1>7. SigInv' /\ SeenInv' /\ RequestInv'
  BY <1>0, <1>1, <1>4, <1>5, <1>6, OneSig DEF chain, webhook
<1>8. TypeOK'
  BY <1>0, <1>1, <1>4 DEF TypeOK
<1> QED
  BY <1>7, <1>8 DEF IInv

LEMMA HookUnseenInv == ASSUME IInv, NEW s \in Sigs, HookUnseen(s) PROVE IInv'
<1>1. faults' \in 0..MaxFaults
  BY DEF HookUnseen, IInv, TypeOK
<1> QED
  BY <1>1, HookThrown DEF HookUnseen, HookAt

LEMMA HookThrowsInv == ASSUME IInv, NEW s \in Sigs, HookThrows(s) PROVE IInv'
<1>1. faults' \in 0..MaxFaults
  BY IngestionConstants DEF HookThrows, Fault, IInv, TypeOK
<1> QED
  BY <1>1, HookThrown DEF HookThrows

-----------------------------------------------------------------------------
\* Steps that touch the ticket job and the order of one signature.
LEMMA TicketStep ==
    ASSUME IInv, NEW s \in Sigs, UNCHANGED <<chain, webhook, hook, cursor>>,
           job' \in [Sigs -> JobSet(TicketAttempts)],
           inbox' \in [Sigs -> Verdicts], order' \in [Sigs -> Nat],
           \A q \in Sigs : q # s => /\ job'[q] = job[q]
                                    /\ inbox'[q] = inbox[q] /\ order'[q] = order[q],
           relay' \subseteq Sigs, faults' \in 0..MaxFaults,
           poll' \in [todo : SUBSET Sigs, newest : 0..MaxSig],
           inbox'[s] = inbox[s] \/ (inbox[s] # "none" /\ inbox'[s] = "FAILED"),
           SigOK(s, landed, kind[s], inbox'[s], hook[s], job'[s], order'[s])
    PROVE  IInv'
<1>0. TypeOK /\ SigInv /\ SeenInv /\ RequestInv
  BY DEF IInv
<1>1. UNCHANGED <<landed, kind, handler, seen, hook, cursor>>
  BY DEF chain, webhook
<1>2. /\ inbox[s] # "none" => inbox'[s] # "none"
      /\ Known(inbox[s], hook[s]) => Known(inbox'[s], hook'[s])
  BY <1>1 DEF Known
<1>3. SigInv' /\ SeenInv' /\ RequestInv'
  BY <1>0, <1>1, <1>2, OneSig
<1>4. TypeOK'
  BY <1>0, <1>1 DEF TypeOK
<1> QED
  BY <1>3, <1>4 DEF IInv

\* A step of the ticket job alone.
LEMMA JobStep ==
    ASSUME IInv, NEW s \in Sigs, UNCHANGED <<chain, webhook, inbox, hook, order, cursor>>,
           job' \in [Sigs -> JobSet(TicketAttempts)],
           \A q \in Sigs : q # s => job'[q] = job[q],
           relay' \subseteq Sigs, faults' \in 0..MaxFaults,
           poll' \in [todo : SUBSET Sigs, newest : 0..MaxSig],
           SigOK(s, landed, kind[s], inbox[s], hook[s], job'[s], order[s])
    PROVE  IInv'
<1>1. inbox' \in [Sigs -> Verdicts] /\ order' \in [Sigs -> Nat]
  BY DEF IInv, TypeOK
<1> QED
  BY <1>1, TicketStep

\* What the lemmas above need of the variables a step leaves alone.
LEMMA Rest ==
    ASSUME IInv
    PROVE  /\ TypeOK /\ SigInv
           /\ relay \subseteq Sigs /\ faults \in 0..MaxFaults
           /\ poll \in [todo : SUBSET Sigs, newest : 0..MaxSig]
           /\ landed \in 0..MaxSig /\ cursor \in 0..MaxSig /\ MaxSig \in Nat
BY IngestionConstants DEF IInv, TypeOK

\* A ticket job added once more.
LEMMA AddedOK ==
    ASSUME IInv, NEW s \in Sigs, job' = Added(job, s)
    PROVE  /\ job' \in [Sigs -> JobSet(TicketAttempts)]
           /\ \A q \in Sigs : q # s => job'[q] = job[q]
           /\ job'[s].state # "absent"
           /\ SigOK(s, landed, kind[s], inbox[s], hook[s], job'[s], order[s])
<1>1. /\ SigOK(s, landed, kind[s], inbox[s], hook[s], job[s], order[s])
      /\ TicketAttempts \in Nat \ {0} /\ job \in [Sigs -> JobSet(TicketAttempts)]
  BY Rest, At
<1>2. /\ job' \in [Sigs -> JobSet(TicketAttempts)]
      /\ \A q \in Sigs : q # s => job'[q] = job[q]
      /\ job'[s].state # "absent"
      /\ \/ job'[s] = job[s]
         \/ /\ job[s].state = "absent"
            /\ job'[s].state = "waiting" /\ job'[s].tries = 0
  BY <1>1, AddedIs
<1>3. SigOK(s, landed, kind[s], inbox[s], hook[s], job'[s], order[s])
  BY <1>1, <1>2 DEF SigOK
<1> QED
  BY <1>2, <1>3

LEMMA HookVerifiedInv == ASSUME IInv, NEW s \in Sigs, HookVerified(s) PROVE IInv'
<1> USE DEF HookVerified, HookAt
<1>0. TypeOK /\ SigInv /\ SeenInv /\ RequestInv
  BY DEF IInv
<1>1. UNCHANGED <<landed, kind, handler, seen, inbox, order, relay, cursor, poll, faults>>
  BY DEF chain, webhook, orders, indexer
<1>2. /\ HookAttempts \in Nat \ {0} /\ hook \in [Sigs -> JobSet(HookAttempts)]
      /\ SigOK(s, landed, kind[s], inbox[s], hook[s], job[s], order[s])
  BY <1>0, At
<1>3. "queued" \in JobStates
  BY DEF JobStates
<1>4. /\ hook' \in [Sigs -> JobSet(HookAttempts)]
      /\ \A q \in Sigs : q # s => hook'[q] = hook[q]
      /\ hook'[s].state = "queued" /\ hook'[s].tries = hook[s].tries
  BY <1>2, <1>3, ToIs
<1>5. /\ job' \in [Sigs -> JobSet(TicketAttempts)]
      /\ \A q \in Sigs : q # s => job'[q] = job[q]
      /\ job'[s].state # "absent"
      /\ SigOK(s, landed, kind[s], inbox[s], hook[s], job'[s], order[s])
  BY AddedOK
<1>6. SigOK(s, landed, kind[s], inbox[s], hook'[s], job'[s], order[s])
  BY <1>2, <1>4, <1>5 DEF SigOK
<1>7. Known(inbox[s], hook[s]) => Known(inbox[s], hook'[s])
  BY <1>4 DEF Known
<1>8. SigInv' /\ SeenInv' /\ RequestInv'
  BY <1>0, <1>1, <1>4, <1>5, <1>6, <1>7, OneSig DEF chain, webhook
<1>9. TypeOK'
  BY <1>0, <1>1, <1>4, <1>5 DEF TypeOK
<1> QED
  BY <1>8, <1>9 DEF IInv

\* A ticket job moved to another state.
LEMMA MovedIs ==
    ASSUME IInv, NEW s \in Sigs, NEW st \in JobStates,
           job' = To(job, s, st) \/ job' = Ended(job, s, st)
    PROVE  /\ job' \in [Sigs -> JobSet(TicketAttempts)]
           /\ \A q \in Sigs : q # s => job'[q] = job[q]
           /\ job'[s].state = st /\ job'[s].tries \in {0, job[s].tries}
<1>1. TicketAttempts \in Nat /\ job \in [Sigs -> JobSet(TicketAttempts)]
  BY IngestionConstants DEF IInv, TypeOK
<1> QED
  BY <1>1, ToIs, EndedIs

\* An attempt of a ticket job that throws.
LEMMA JobThrown ==
    ASSUME IInv, NEW s \in Sigs, job[s].state \in {"waiting", "created"},
           job' = Thrown(job, s, TicketAttempts),
           UNCHANGED <<chain, webhook, inbox, hook, orders, indexer>>, faults' \in 0..MaxFaults
    PROVE  IInv'
<1>1. UNCHANGED <<order, relay, cursor, poll>>
  BY DEF orders, indexer
<1>2. /\ SigOK(s, landed, kind[s], inbox[s], hook[s], job[s], order[s])
      /\ TicketAttempts \in Nat \ {0} /\ job \in [Sigs -> JobSet(TicketAttempts)]
  BY Rest, At
<1>3. job[s].tries < TicketAttempts
  BY <1>2 DEF SigOK
<1>4. /\ job' \in [Sigs -> JobSet(TicketAttempts)]
      /\ \A q \in Sigs : q # s => job'[q] = job[q]
      /\ job'[s].state \in {"waiting", "failed"}
      /\ job'[s].state # "failed" => job'[s].tries < TicketAttempts
  BY <1>2, <1>3, ThrownIs
<1>5. SigOK(s, landed, kind[s], inbox[s], hook[s], job'[s], order[s])
  BY <1>2, <1>4 DEF SigOK
<1> QED
  BY <1>1, <1>4, <1>5, Rest, JobStep

LEMMA JobThrowsInv == ASSUME IInv, NEW s \in Sigs, JobThrows(s) PROVE IInv'
<1>1. faults' \in 0..MaxFaults
  BY Rest, IngestionConstants DEF JobThrows, Fault
<1> QED
  BY <1>1, JobThrown DEF JobThrows

LEMMA RefuseInv == ASSUME IInv, NEW s \in Sigs, Refuse(s) PROVE IInv'
<1> USE DEF Refuse, JobAt
<1>1. CASE inbox[s] = "none"
  BY <1>1, Rest, JobThrown
<1>2. CASE inbox[s] # "none"
  <2>1. job' = Ended(job, s, "failed") /\ inbox' = [inbox EXCEPT ![s] = "FAILED"]
    BY <1>2
  <2>2. "failed" \in JobStates /\ "FAILED" \in Verdicts
    BY DEF JobStates, Verdicts
  <2>3. /\ job' \in [Sigs -> JobSet(TicketAttempts)]
        /\ \A q \in Sigs : q # s => job'[q] = job[q]
        /\ job'[s].state = "failed"
    BY <2>1, <2>2, MovedIs
  <2>4. /\ UNCHANGED <<order, relay, cursor, poll, faults>> /\ order \in [Sigs -> Nat]
        /\ inbox' \in [Sigs -> Verdicts] /\ inbox'[s] = "FAILED"
        /\ \A q \in Sigs : q # s => inbox'[q] = inbox[q]
    BY <2>1, <2>2, Rest DEF orders, indexer, TypeOK
  <2>5. SigOK(s, landed, kind[s], "FAILED", hook[s], job'[s], order[s])
    BY <1>2, <2>3, Rest, At DEF SigOK
  <2>6. UNCHANGED <<chain, webhook, hook>>
    OBVIOUS
  <2> HIDE DEF Refuse, JobAt
  <2> QED
    BY <1>2, <2>3, <2>4, <2>5, <2>6, Rest, TicketStep
<1> QED
  BY <1>1, <1>2

LEMMA CreateInv == ASSUME IInv, NEW s \in Sigs, Create(s) PROVE IInv'
<1> USE DEF Create, JobAt, Mergeable
<1> DEFINE n == IF order[s] = 0 THEN kind[s].shown ELSE order[s]
<1>1. /\ SigOK(s, landed, kind[s], inbox[s], hook[s], job[s], order[s])
      /\ kind[s].shown \in Nat /\ kind[s].shown # 0 /\ ~kind[s].mixed
      /\ kind[s].paid \in Nat /\ kind[s].shown <= kind[s].paid /\ order[s] \in Nat
      /\ inbox[s] \in Verdicts /\ s \in Nat /\ landed \in Nat
      /\ TicketAttempts \in Nat \ {0}
  BY Rest, At
<1>2. n \in Nat /\ n # 0 /\ (order[s] # 0 => n = order[s]) /\ kind[s].shown = n
  BY <1>1 DEF SigOK
<1>3. /\ order' \in [Sigs -> Nat] /\ order'[s] = n /\ inbox' \in [Sigs -> Verdicts]
      /\ \A q \in Sigs : q # s => order'[q] = order[q]
  BY <1>1, Rest DEF TypeOK
<1>4. s <= landed
  BY <1>1 DEF SigOK, NotLanded
<1>5. "created" \in JobStates
  BY DEF JobStates
<1>6. /\ job' \in [Sigs -> JobSet(TicketAttempts)]
      /\ \A q \in Sigs : q # s => job'[q] = job[q]
      /\ job'[s].state = "created" /\ job'[s].tries \in {0, job[s].tries}
  BY <1>5, MovedIs
<1>7. /\ UNCHANGED <<chain, webhook, inbox, hook, relay, cursor, poll, faults>>
      /\ job[s].state = "waiting"
  BY DEF indexer
<1> HIDE DEF n, Create, JobAt, Mergeable
<1>8. SigOK(s, landed, kind[s], inbox[s], hook[s], job'[s], n)
  BY <1>1, <1>2, <1>4, <1>6, <1>7 DEF SigOK
<1> QED
  BY <1>1, <1>2, <1>3, <1>6, <1>7, <1>8, Rest, TicketStep

LEMMA QueueRelayInv == ASSUME IInv, NEW s \in Sigs, QueueRelay(s) PROVE IInv'
<1> USE DEF QueueRelay, JobAt
<1>1. "done" \in JobStates
  BY DEF JobStates
<1>2. /\ job' \in [Sigs -> JobSet(TicketAttempts)]
      /\ \A q \in Sigs : q # s => job'[q] = job[q]
      /\ job'[s].state = "done" /\ job'[s].tries \in {0, job[s].tries}
  BY <1>1, MovedIs
<1>3. SigOK(s, landed, kind[s], inbox[s], hook[s], job'[s], order[s])
  BY <1>2, Rest, At DEF SigOK
<1>4. UNCHANGED <<cursor, poll, faults>> /\ relay' \subseteq Sigs
  BY Rest DEF indexer
<1> QED
  BY <1>2, <1>3, <1>4, Rest, JobStep

LEMMA ReconcileInv == ASSUME IInv, NEW s \in Sigs, Reconcile(s) PROVE IInv'
BY DEF IInv, Reconcile, TypeOK, SigInv, SeenInv, RequestInv, chain, webhook, indexer

\* A completed job that BullMQ drops has left its trace.
LEMMA ForgetInv == ASSUME IInv, NEW s \in Sigs, Forget(s) PROVE IInv'
<1>0. TypeOK /\ SigInv /\ SeenInv /\ RequestInv
  BY DEF IInv
<1>1. /\ SigOK(s, landed, kind[s], inbox[s], hook[s], job[s], order[s])
      /\ HookAttempts \in Nat \ {0} /\ TicketAttempts \in Nat \ {0}
      /\ hook \in [Sigs -> JobSet(HookAttempts)] /\ job \in [Sigs -> JobSet(TicketAttempts)]
  BY <1>0, At
<1>2. UNCHANGED <<landed, kind, handler, seen, inbox, order, relay, cursor, poll, faults>>
  BY DEF Forget, chain, webhook, orders, indexer
<1>3. NoJob \in JobSet(HookAttempts) /\ NoJob \in JobSet(TicketAttempts)
      /\ NoJob.state = "absent" /\ NoJob.tries = 0
  BY <1>1, NoJobIs
<1>4. CASE hook[s].state = "done" /\ hook' = [hook EXCEPT ![s] = NoJob] /\ UNCHANGED job
  <2>1. /\ hook' \in [Sigs -> JobSet(HookAttempts)] /\ hook'[s] = NoJob
        /\ \A q \in Sigs : q # s => hook'[q] = hook[q]
    BY <1>1, <1>3, <1>4
  <2>2. SigOK(s, landed, kind[s], inbox[s], hook'[s], job[s], order[s])
    BY <1>1, <1>3, <1>4, <2>1 DEF SigOK
  <2>3. Known(inbox[s], hook'[s])
    BY <1>1, <1>4 DEF SigOK, Known
  <2>4. SigInv' /\ SeenInv' /\ RequestInv'
    BY <1>0, <1>2, <1>4, <2>1, <2>2, <2>3, OneSig DEF chain, webhook
  <2>5. TypeOK'
    BY <1>0, <1>2, <1>4, <2>1 DEF TypeOK
  <2> QED
    BY <2>4, <2>5 DEF IInv
<1>5. CASE job[s].state = "done" /\ job' = [job EXCEPT ![s] = NoJob] /\ UNCHANGED hook
  <2>1. /\ job' \in [Sigs -> JobSet(TicketAttempts)] /\ job'[s] = NoJob
        /\ \A q \in Sigs : q # s => job'[q] = job[q]
    BY <1>1, <1>3, <1>5
  <2>2. SigOK(s, landed, kind[s], inbox[s], hook[s], job'[s], order[s])
    BY <1>1, <1>3, <1>5, <2>1 DEF SigOK
  <2> QED
    BY <1>2, <1>5, <2>1, <2>2, Rest, JobStep DEF chain, webhook
<1> QED
  BY <1>4, <1>5 DEF Forget

-----------------------------------------------------------------------------
\* The backup poll.
LEMMA PollListInv == ASSUME IInv, PollList PROVE IInv'
<1>1. UNCHANGED <<landed, kind, handler, seen, inbox, hook, job, order, relay, cursor, faults>>
  BY DEF PollList, chain, webhook, orders
<1>2. poll' \in [todo : SUBSET Sigs, newest : 0..MaxSig]
  BY Rest DEF PollList
<1> QED
  BY <1>1, <1>2 DEF IInv, TypeOK, SigInv, SeenInv, RequestInv

LEMMA PollOneInv == ASSUME IInv, NEW s \in Sigs, PollOne(s) PROVE IInv'
<1>1. UNCHANGED <<landed, kind, handler, seen, inbox, hook, order, relay, cursor, faults>>
  BY DEF PollOne, chain, webhook, orders
<1>2. poll' \in [todo : SUBSET Sigs, newest : 0..MaxSig]
  BY Rest DEF PollOne
<1>3. CASE job' = Added(job, s)
  BY <1>1, <1>2, <1>3, Rest, AddedOK, JobStep DEF chain, webhook
<1>4. CASE UNCHANGED job
  BY <1>1, <1>2, <1>4 DEF IInv, TypeOK, SigInv, SeenInv, RequestInv
<1> QED
  BY <1>3, <1>4 DEF PollOne

LEMMA PollEnds ==
    ASSUME IInv, UNCHANGED <<chain, webhook, inbox, hook, job, orders>>,
           poll' = NoPoll, cursor' \in 0..MaxSig, faults' \in 0..MaxFaults
    PROVE  IInv'
<1>1. UNCHANGED <<landed, kind, handler, seen, inbox, hook, job, order, relay>>
  BY DEF chain, webhook, orders
<1>2. poll' \in [todo : SUBSET Sigs, newest : 0..MaxSig]
  BY IngestionConstants DEF NoPoll
<1> QED
  BY <1>1, <1>2 DEF IInv, TypeOK, SigInv, SeenInv, RequestInv

LEMMA PollMovesInv == ASSUME IInv, PollMoves PROVE IInv'
BY Rest, PollEnds DEF PollMoves

LEMMA PollThrowsInv == ASSUME IInv, PollThrows PROVE IInv'
BY Rest, PollEnds, IngestionConstants DEF PollThrows, Fault

-----------------------------------------------------------------------------
LEMMA NextInv == IInv /\ [Next]_vars => IInv'
<1> SUFFICES ASSUME IInv, [Next]_vars PROVE IInv'
  OBVIOUS
<1>1. CASE Solana
  BY <1>1, LandInv DEF Solana
<1>2. CASE Helius
  BY <1>2, ReceiveInv, PersistInv, EnqueueInv, MarkSeenInv, HandlerFailsInv, SeenExpiresInv
     DEF Helius
<1>3. CASE Poll
  BY <1>3, PollListInv, PollMovesInv, PollOneInv DEF Poll
<1>4. CASE PollThrows
  BY <1>4, PollThrowsInv
<1>5. CASE \E s \in Sigs : HookJob(s) \/ HookThrows(s)
  BY <1>5, HookStaleInv, HookUnseenInv, HookSkipsInv, HookVerifiedInv, HookProcessedInv,
     HookThrowsInv DEF HookJob
<1>6. CASE \E s \in Sigs : TicketJob(s) \/ JobThrows(s)
  BY <1>6, RefuseInv, CreateInv, QueueRelayInv, JobThrowsInv DEF TicketJob
<1>7. CASE \E s \in Sigs : Reconcile(s) \/ Forget(s)
  BY <1>7, ReconcileInv, ForgetInv
<1>8. CASE UNCHANGED vars
  BY <1>8 DEF vars, chain, webhook, orders, indexer, IInv, TypeOK, SigInv, SeenInv, RequestInv
<1> QED
  BY <1>1, <1>2, <1>3, <1>4, <1>5, <1>6, <1>7, <1>8 DEF Next

\* In every reachable state the rows, jobs and marks of every signature are
\* consistent, whatever was delivered, repeated, retried or interrupted
\* (routes/webhook.ts, webhookIngestWorker.ts, ticketWorker.ts).
THEOREM InductiveInvariant == Spec => []IInv
BY InitInv, NextInv, PTL DEF Spec

\* Rows, jobs, cursor and poll keep the values the code gives them.
THEOREM TypeCorrect == Spec => []TypeOK
<1>1. IInv => TypeOK
  BY DEF IInv
<1> QED
  BY <1>1, InductiveInvariant, PTL

\* An order stands for one buyer's purchase that landed, and holds each event
\* of its log exactly once, never more than was paid for, however often the
\* signature is delivered, retried or interrupted between the creation and
\* its end (ticketWorker.ts, the merge and the duplicate branch).
THEOREM OrdersMatch == Spec => []OrdersMatchChain
<1>1. IInv => OrdersMatchChain
  BY DEF IInv, SigInv, SigOK, OrdersMatchChain
<1> QED
  BY <1>1, InductiveInvariant, PTL

\* What Helius was told not to send again is not lost by this backend
\* (routes/webhook.ts: the mark comes after the row and the job).
THEOREM NothingIsDropped == Spec => []NothingDropped
<1>1. IInv => NothingDropped
  <2> SUFFICES ASSUME IInv, NEW s \in Sigs
               PROVE  /\ s \in seen => /\ inbox[s] # "none"
                                       /\ hook[s].state # "absent" \/ inbox[s] # "RECEIVED"
                      /\ inbox[s] = "PROCESSED" => job[s].state # "absent" \/ order[s] # 0
    BY DEF NothingDropped
  <2>1. s \in seen => Known(inbox[s], hook[s])
    BY DEF IInv, SeenInv
  <2>2. SigOK(s, landed, kind[s], inbox[s], hook[s], job[s], order[s])
    BY DEF IInv, SigInv
  <2> QED
    BY <2>1, <2>2 DEF Known, SigOK
<1> QED
  BY <1>1, InductiveInvariant, PTL
=============================================================================
