------------------------ MODULE EpochTransitionProofs ------------------------
(***************************************************************************)
(* Proofs about EpochTransition, for every value of its constants: the     *)
(* type invariant and EpochNeverAhead in every environment, with crashes,  *)
(* late and dropped transactions and a wiped Redis; OneTransition when     *)
(* Redis keeps its data; and, in an orderly environment with one process   *)
(* that boots, that sales are paused only around a rollover and that       *)
(* somebody resumes them.                                                  *)
(***************************************************************************)
EXTENDS EpochTransition, TLAPS

(* A round is due only while another can follow it.                        *)
DueInv == due => drawing < MaxDrawing

(* No process knows of a drawing Megapot has not opened.                   *)
GotInv == \A p \in Processes : me[p].got <= drawing

Inv == TypeOK /\ DueInv /\ GotInv /\ EpochNeverAhead

-----------------------------------------------------------------------------
(* An error leads to a stage the process knows.                            *)
LEMMA CatchType == \A p : Catch(p) \in Stages
  BY DEF Catch, Stages

(* A process starts with well-typed locals.                                *)
LEMMA StartType ==
  ASSUME NEW s \in Stages, NEW m \in {"loop", "verified", "boot", "refill"},
         NEW r \in 0..MaxDrawing, NEW g \in 0..MaxDrawing, NEW f \in BOOLEAN
  PROVE  Start(s, m, r, g, f) \in Locals /\ Start(s, m, r, g, f).got = g
BY DEF Start, Locals

(* So does a process at rest.                                              *)
LEMMA IdleType == Idle \in Locals /\ Idle.got = 0
<1>1. "idle" \in Stages /\ "loop" \in {"loop", "verified", "boot", "refill"}
      /\ 0 \in 0..MaxDrawing /\ FALSE \in BOOLEAN
  BY TransitionConstants DEF Stages
<1>. QED  BY <1>1, StartType DEF Idle

(* Giving a process new locals that are well-typed and know of no drawing  *)
(* ahead keeps everybody's that way.                                       *)
LEMMA SetType ==
  ASSUME NEW p \in Processes, NEW l \in Locals, Inv, l.got <= drawing,
         me' = [me EXCEPT ![p] = l]
  PROVE  me' \in [Processes -> Locals] /\ \A q \in Processes : me'[q].got <= drawing
<1>1. \A q \in Processes : me'[q] = IF q = p THEN l ELSE me[q]
  BY DEF Inv, TypeOK
<1>. QED  BY <1>1 DEF Inv, TypeOK, GotInv

(* Moving a process to another stage changes its stage alone, or puts it   *)
(* to rest.                                                                *)
LEMMA GotoType ==
  ASSUME NEW p \in Processes, NEW s \in Stages, Inv, Goto(p, s)
  PROVE  me' \in [Processes -> Locals] /\ \A q \in Processes : me'[q].got <= drawing
<1>1. Idle \in Locals /\ Idle.got <= drawing
  BY IdleType DEF Inv, TypeOK, Drawings
<1>2. CASE s = "idle"
  <2>1. me' = [me EXCEPT ![p] = Idle]
    BY <1>2 DEF Goto, Rest
  <2>2. \A q \in Processes : me'[q] = IF q = p THEN Idle ELSE me[q]
    BY <2>1 DEF Inv, TypeOK
  <2>. QED  BY <1>1, <2>1, <2>2 DEF Inv, TypeOK, GotInv
<1>3. CASE s # "idle"
  <2>1. me' = [me EXCEPT ![p] = [me[p] EXCEPT !.pc = s]]
    BY <1>3 DEF Goto
  <2>2. me[p] \in Locals
    BY DEF Inv, TypeOK
  <2>3. [me[p] EXCEPT !.pc = s] \in Locals /\ [me[p] EXCEPT !.pc = s].got = me[p].got
    BY <2>2 DEF Locals
  <2>4. \A q \in Processes : me'[q] = IF q = p THEN [me[p] EXCEPT !.pc = s] ELSE me[q]
    BY <2>1 DEF Inv, TypeOK
  <2>. QED  BY <2>1, <2>3, <2>4 DEF Inv, TypeOK, GotInv
<1>. QED  BY <1>2, <1>3

-----------------------------------------------------------------------------
(* The program runs the first drawing and nobody knows of a later one.     *)
LEMMA InitInv == Init => Inv
<1> SUFFICES ASSUME Init PROVE Inv
  OBVIOUS
<1>1. TypeOK
  <2>1. 1 \in Drawings /\ 1 \in 0..MaxDrawing /\ 0 \in 0..MaxFaults
    BY TransitionConstants DEF Drawings
  <2>2. chain \in [paused : BOOLEAN, epoch : Drawings]
    BY <2>1 DEF Init
  <2>3. sync \in [pc : {"idle", "compare", "key", "row"}, paused : BOOLEAN]
    BY DEF Init
  <2>4. me \in [Processes -> Locals]
    BY IdleType DEF Init
  <2>. QED  BY <2>1, <2>2, <2>3, <2>4 DEF Init, TypeOK
<1>2. DueInv /\ EpochNeverAhead
  BY DEF Init, DueInv, EpochNeverAhead
<1>3. GotInv
  <2> SUFFICES ASSUME NEW p \in Processes PROVE me[p].got <= drawing
    BY DEF GotInv
  <2>1. me[p].got = 0 /\ drawing = 1
    BY IdleType DEF Init
  <2>. QED  BY <2>1
<1>. QED  BY <1>1, <1>2, <1>3 DEF Inv

(* Megapot's own steps: a drawing becomes due and the next one opens.      *)
LEMMA MegapotInv == Inv /\ (BecomeDue \/ Rollover) => Inv'
<1> SUFFICES ASSUME Inv, BecomeDue \/ Rollover PROVE Inv'
  OBVIOUS
<1> USE TransitionConstants DEF Drawings
<1>1. UNCHANGED <<chain, pauses, resumes, round, key, row, lock, me, sync, faults>>
  BY DEF BecomeDue, Rollover, solana, caches
<1>2. drawing' \in Drawings /\ due' \in BOOLEAN /\ drawing <= drawing' /\ DueInv'
  <2>1. drawing \in 1..MaxDrawing
    BY DEF Inv, TypeOK
  <2>2. CASE BecomeDue
    BY <2>1, <2>2 DEF BecomeDue, DueInv, solana, caches
  <2>3. CASE Rollover
    <3>1. drawing' = drawing + 1 /\ due' = FALSE /\ drawing < MaxDrawing
      BY <2>3 DEF Rollover, Inv, DueInv
    <3>2. drawing' \in Drawings /\ drawing <= drawing'
      BY <2>1, <3>1
    <3>. QED  BY <3>1, <3>2 DEF DueInv
  <2>. QED  BY <2>2, <2>3
<1>3. TypeOK'
  BY <1>1, <1>2 DEF Inv, TypeOK
<1>4. GotInv'
  <2> SUFFICES ASSUME NEW p \in Processes PROVE me[p].got <= drawing'
    BY <1>1 DEF GotInv
  <2>1. me[p].got \in Nat /\ me[p].got <= drawing
    BY DEF Inv, TypeOK, GotInv, Locals
  <2>. QED  BY <1>2, <2>1 DEF Inv, TypeOK
<1>5. EpochNeverAhead'
  BY <1>1, <1>2 DEF EpochNeverAhead, Inv, TypeOK
<1>. QED  BY <1>2, <1>3, <1>4, <1>5 DEF Inv

(* Whatever order transactions land in, the program takes an epoch that    *)
(* was on its way and above its own.                                       *)
LEMMA LandInv == Inv /\ Land => Inv'
<1> SUFFICES ASSUME Inv, Land PROVE Inv'
  OBVIOUS
<1>1. UNCHANGED <<drawing, due, round, key, row, lock, me, sync, faults>>
  BY DEF Land, LandPause, LandResume, megapot, caches
<1>2. /\ pauses' \subseteq pauses /\ resumes' \subseteq resumes
      /\ chain'.epoch \in resumes \cup {chain.epoch}
      /\ chain' \in [paused : BOOLEAN, epoch : Drawings]
  <2>1. CASE \E x \in Ids : LandPause(x)
    BY <2>1 DEF LandPause, Inv, TypeOK
  <2>2. CASE \E e \in Drawings : LandResume(e)
    BY <2>2 DEF LandResume, Inv, TypeOK
  <2>. QED  BY <2>1, <2>2 DEF Land
<1>3. TypeOK'
  BY <1>1, <1>2 DEF Inv, TypeOK
<1>4. DueInv' /\ GotInv' /\ EpochNeverAhead'
  BY <1>1, <1>2 DEF Inv, DueInv, GotInv, EpochNeverAhead
<1>. QED  BY <1>3, <1>4 DEF Inv

-----------------------------------------------------------------------------
(* A step that moves one process by Goto, leaves Megapot alone and keeps   *)
(* the other variables' types keeps the invariant.                         *)
LEMMA FrameInv ==
  ASSUME Inv, UNCHANGED megapot,
         me' \in [Processes -> Locals], \A q \in Processes : me'[q].got <= drawing,
         pauses' \subseteq Ids, resumes' \subseteq Drawings, chain' = chain,
         \A e \in resumes' : e <= drawing,
         round' \in 0..MaxDrawing, key' \in BOOLEAN, row' \in BOOLEAN,
         lock' \in Processes \cup {Nobody},
         sync' \in [pc : {"idle", "compare", "key", "row"}, paused : BOOLEAN],
         faults' \in 0..MaxFaults
  PROVE  Inv'
<1>1. TypeOK'
  BY DEF Inv, TypeOK, megapot
<1>2. DueInv' /\ GotInv' /\ EpochNeverAhead'
  BY DEF Inv, DueInv, GotInv, EpochNeverAhead, megapot
<1>. QED  BY <1>1, <1>2 DEF Inv

(* What the invariant says of the variables a step leaves alone.           *)
LEMMA Frame ==
  ASSUME Inv
  PROVE  /\ pauses \subseteq Ids /\ resumes \subseteq Drawings
         /\ \A e \in resumes : e <= drawing
         /\ round \in 0..MaxDrawing /\ key \in BOOLEAN /\ row \in BOOLEAN
         /\ lock \in Processes \cup {Nobody}
         /\ sync \in [pc : {"idle", "compare", "key", "row"}, paused : BOOLEAN]
         /\ faults \in 0..MaxFaults
         /\ drawing \in Drawings /\ drawing \in 0..MaxDrawing
         /\ me \in [Processes -> Locals]
         /\ \A q \in Processes : me[q].got <= drawing /\ me[q].got \in 0..MaxDrawing
BY DEF Inv, TypeOK, EpochNeverAhead, GotInv, Drawings, Locals

(* The cron tick and a wiped Redis touch no process and no epoch.          *)
LEMMA CacheInv == Inv /\ (LockExpires \/ RedisWipe \/ Sync \/ SyncFails) => Inv'
<1> SUFFICES ASSUME Inv, LockExpires \/ RedisWipe \/ Sync \/ SyncFails PROVE Inv'
  OBVIOUS
<1>1. /\ UNCHANGED <<drawing, due, chain, pauses, resumes, me>>
  BY DEF LockExpires, RedisWipe, Sync, SyncRead, SyncCompare, SyncKey, SyncRow, SyncFails,
         megapot, solana, caches
<1>2. /\ round' \in 0..MaxDrawing /\ lock' \in Processes \cup {Nobody}
  BY TransitionConstants, Frame
     DEF LockExpires, RedisWipe, Sync, SyncRead, SyncCompare, SyncKey, SyncRow, SyncFails, caches
<1>3. faults' \in 0..MaxFaults
  BY TransitionConstants, Frame
     DEF LockExpires, RedisWipe, Sync, SyncRead, SyncCompare, SyncKey, SyncRow, SyncFails, Fault
<1>4. chain.paused \in BOOLEAN
  BY DEF Inv, TypeOK
<1>5. key' \in BOOLEAN /\ row' \in BOOLEAN
  BY <1>4, Frame
     DEF LockExpires, RedisWipe, Sync, SyncRead, SyncCompare, SyncKey, SyncRow, SyncFails, caches
<1>6. sync' \in [pc : {"idle", "compare", "key", "row"}, paused : BOOLEAN]
  BY <1>4, Frame
     DEF LockExpires, RedisWipe, Sync, SyncRead, SyncCompare, SyncKey, SyncRow, SyncFails
<1>. QED  BY <1>1, <1>2, <1>3, <1>5, <1>6, Frame, FrameInv DEF megapot

-----------------------------------------------------------------------------
(* A step that only moves one process keeps the invariant.                 *)
LEMMA MoveInv ==
  ASSUME Inv, NEW p \in Processes, NEW s \in Stages, Goto(p, s),
         UNCHANGED <<drawing, due, chain, pauses, resumes, round, key, row, sync, faults>>,
         lock' \in Processes \cup {Nobody}
  PROVE  Inv'
BY GotoType, Frame, FrameInv DEF megapot

(* The same for a step that gives a process other locals.                  *)
LEMMA LocalsInv ==
  ASSUME Inv, NEW p \in Processes, NEW l \in Locals, l.got <= drawing,
         me' = [me EXCEPT ![p] = l],
         UNCHANGED <<drawing, due, chain, pauses, resumes, round, key, row, sync, faults>>,
         lock' \in Processes \cup {Nobody}
  PROVE  Inv'
BY SetType, Frame, FrameInv DEF megapot

(* Due-check, lock and the refill of an empty cache.                       *)
LEMMA EnterInv ==
  ASSUME Inv, NEW p \in Processes,
         Check(p) \/ Rebuild(p) \/ Acquire(p) \/ BootRead(p) \/ Backfill(p) \/ Restart(p)
  PROVE  Inv'
<1>. USE DEF megapot, solana, caches
<1>. DEFINE l(s, m, r, g, f) == Start(s, m, r, g, f)
<1>0. 0 \in 0..MaxDrawing /\ 0 <= drawing /\ drawing <= drawing
  BY TransitionConstants, Frame DEF Drawings
<1>a. "lock" \in Stages /\ "cache" \in Stages /\ "boot" \in Stages
  BY DEF Stages
<1>1. CASE Check(p)
  <2>1. l("lock", "loop", round, 0, FALSE) \in Locals /\ l("lock", "loop", round, 0, FALSE).got <= drawing
    BY <1>0, <1>a, Frame DEF Start, Locals
  <2>. QED  BY <1>1, <2>1, Frame, LocalsInv DEF Check
<1>2. CASE Rebuild(p) \/ Backfill(p)
  <2>1. l("cache", "refill", 0, drawing, FALSE) \in Locals
        /\ l("cache", "refill", 0, drawing, FALSE).got <= drawing
    BY <1>0, <1>a, Frame DEF Start, Locals
  <2>. QED  BY <1>2, <2>1, Frame, LocalsInv DEF Rebuild, Backfill
<1>3. CASE Acquire(p)
  <2>1. \E s \in Stages : Goto(p, s)
    BY <1>3 DEF Acquire, Stages
  <2>2. lock' \in Processes \cup {Nobody}
    BY <1>3, Frame DEF Acquire
  <2>. QED  BY <1>3, <2>1, <2>2, MoveInv DEF Acquire
<1>4. CASE BootRead(p)
  <2>. DEFINE s == IF chain.epoch >= drawing THEN "backfill" ELSE "lock"
  <2>1. s \in Stages /\ chain.paused \in BOOLEAN
    BY DEF Stages, Inv, TypeOK
  <2>2. l(s, "boot", 0, drawing, chain.paused) \in Locals
        /\ l(s, "boot", 0, drawing, chain.paused).got <= drawing
    BY <1>0, <2>1, Frame, StartType
  <2>. QED  BY <1>4, <2>2, Frame, LocalsInv DEF BootRead
<1>5. CASE Restart(p)
  <2>1. l("boot", "boot", 0, 0, FALSE) \in Locals /\ l("boot", "boot", 0, 0, FALSE).got <= drawing
    BY <1>0, <1>a DEF Start, Locals
  <2>2. Idle \in Locals /\ Idle.got <= drawing
    BY <1>0, IdleType
  <2>. QED  BY <1>5, <2>1, <2>2, Frame, LocalsInv DEF Restart
<1>. QED  BY <1>1, <1>2, <1>3, <1>4, <1>5

-----------------------------------------------------------------------------
(* Moving through the stages while writing the caches or the lock.         *)
LEMMA WriteInv ==
  ASSUME Inv, NEW p \in Processes,
         \/ ConfirmPause(p) \/ Mark(p) \/ MarkRow(p) \/ Look(p) \/ CacheRow(p)
         \/ Clear(p) \/ ClearRow(p) \/ Unlock(p)
  PROVE  Inv'
<1>. USE DEF megapot, solana, caches
<1>1. \E s \in Stages : Goto(p, s)
  BY DEF ConfirmPause, Mark, MarkRow, Look, CacheRow, Clear, ClearRow, Unlock, Stages, Goto
<1>2. me[p].flag \in BOOLEAN
  BY Frame DEF Locals
<1>3. key' \in BOOLEAN /\ row' \in BOOLEAN
  BY <1>2, Frame DEF ConfirmPause, Mark, MarkRow, Look, CacheRow, Clear, ClearRow, Unlock, flags
<1>4. lock' \in Processes \cup {Nobody}
  BY Frame DEF ConfirmPause, Mark, MarkRow, Look, CacheRow, Clear, ClearRow, Unlock
<1>5. UNCHANGED <<drawing, due, chain, pauses, resumes, round, sync, faults>>
  BY DEF ConfirmPause, Mark, MarkRow, Look, CacheRow, Clear, ClearRow, Unlock, flags
<1>. QED  BY <1>1, <1>3, <1>4, <1>5, GotoType, Frame, FrameInv

(* Locals of which a step sets some fields.                                *)
LEMMA StepType ==
  ASSUME Inv, NEW p \in Processes, NEW s \in Stages
  PROVE  /\ [me[p] EXCEPT !.pc = s] \in Locals
         /\ [me[p] EXCEPT !.pc = s].got = me[p].got
         /\ \A m \in {"loop", "verified", "boot", "refill"} :
              /\ [me[p] EXCEPT !.pc = s, !.mode = m] \in Locals
              /\ [me[p] EXCEPT !.pc = s, !.mode = m].got = me[p].got
         /\ \A x \in Ids :
              /\ [me[p] EXCEPT !.pc = s, !.sent = x] \in Locals
              /\ [me[p] EXCEPT !.pc = s, !.sent = x].got = me[p].got
         /\ \A f \in BOOLEAN :
              /\ [me[p] EXCEPT !.pc = s, !.flag = f] \in Locals
              /\ [me[p] EXCEPT !.pc = s, !.flag = f].got = me[p].got
         /\ \A g \in 0..MaxDrawing :
              /\ [me[p] EXCEPT !.pc = s, !.got = g] \in Locals
              /\ [me[p] EXCEPT !.pc = s, !.got = g].got = g
<1>1. me[p] \in Locals
  BY DEF Inv, TypeOK
<1>. QED  BY <1>1 DEF Locals

(* Reading Megapot or the program while a transition runs.                 *)
LEMMA ReadInv ==
  ASSUME Inv, NEW p \in Processes, Verify(p) \/ Poll(p) \/ Cache(p)
  PROVE  Inv'
<1>. USE DEF megapot, solana, caches
<1>0. me[p] \in Locals /\ me[p].got <= drawing /\ me[p].got \in 0..MaxDrawing
  BY Frame
<1>1. CASE Verify(p)
  <2>. DEFINE s == IF chain.paused THEN "mark" ELSE "unlock"
  <2>1. s \in Stages
    BY DEF Stages
  <2>2. me' = [me EXCEPT ![p] = [me[p] EXCEPT !.pc = s, !.mode = "verified"]]
    BY <1>1 DEF Verify
  <2>3. UNCHANGED <<drawing, due, chain, pauses, resumes, round, key, row, lock, sync, faults>>
    BY <1>1 DEF Verify
  <2>. HIDE DEF s
  <2>4. [me[p] EXCEPT !.pc = s, !.mode = "verified"] \in Locals
        /\ [me[p] EXCEPT !.pc = s, !.mode = "verified"].got <= drawing
    BY <1>0, <2>1, StepType
  <2>. QED  BY <2>2, <2>3, <2>4, Frame, LocalsInv
<1>2. CASE Poll(p)
  <2>1. "look" \in Stages /\ drawing <= drawing
    BY Frame DEF Stages
  <2>2. me' = [me EXCEPT ![p] = [me[p] EXCEPT !.pc = "look", !.got = drawing]]
    BY <1>2 DEF Poll
  <2>3. UNCHANGED <<drawing, due, chain, pauses, resumes, round, key, row, lock, sync, faults>>
    BY <1>2 DEF Poll
  <2>4. [me[p] EXCEPT !.pc = "look", !.got = drawing] \in Locals
        /\ [me[p] EXCEPT !.pc = "look", !.got = drawing].got <= drawing
    <3>1. drawing \in 0..MaxDrawing
      BY Frame
    <3>2. [me[p] EXCEPT !.pc = "look", !.got = drawing] \in Locals
          /\ [me[p] EXCEPT !.pc = "look", !.got = drawing].got = drawing
      BY <2>1, <3>1, StepType
    <3>. QED  BY <2>1, <3>2
  <2>. QED  BY <2>2, <2>3, <2>4, Frame, LocalsInv
<1>3. CASE Cache(p)
  <2>1. "cacherow" \in Stages /\ key \in BOOLEAN
    BY Frame DEF Stages
  <2>2. me' = [me EXCEPT ![p] = [me[p] EXCEPT !.pc = "cacherow", !.flag = key]]
    BY <1>3 DEF Cache
  <2>3. /\ UNCHANGED <<drawing, due, chain, pauses, resumes, key, row, lock, sync, faults>>
        /\ round' \in 0..MaxDrawing
    BY <1>0, <1>3 DEF Cache, flags
  <2>4. [me[p] EXCEPT !.pc = "cacherow", !.flag = key] \in Locals
        /\ [me[p] EXCEPT !.pc = "cacherow", !.flag = key].got <= drawing
    BY <1>0, <2>1, StepType
  <2>. QED  BY <2>2, <2>3, <2>4, Frame, SetType, FrameInv
<1>. QED  BY <1>1, <1>2, <1>3

-----------------------------------------------------------------------------
(* Sending: a pause names no epoch; a resume names one Megapot has opened. *)
LEMMA SendInv ==
  ASSUME Inv, NEW p \in Processes, SendPause(p) \/ SendResume(p)
  PROVE  Inv'
<1>. USE DEF megapot, solana, caches
<1>0. me[p].got <= drawing /\ me[p].got \in 0..MaxDrawing
  BY Frame
<1>1. CASE SendPause(p)
  <2>1. UNCHANGED <<drawing, due, chain, resumes, round, key, row, lock, sync, faults>>
    BY <1>1 DEF SendPause
  <2>2. CASE AcceptsPause
    <3>1. PICK x \in Ids \ pauses :
            /\ pauses' = pauses \cup {x}
            /\ me' = [me EXCEPT ![p] = [me[p] EXCEPT !.pc = "confirm", !.sent = x]]
      BY <1>1, <2>2 DEF SendPause
    <3>2. "confirm" \in Stages /\ x \in Ids
      BY DEF Stages
    <3>3. [me[p] EXCEPT !.pc = "confirm", !.sent = x] \in Locals
          /\ [me[p] EXCEPT !.pc = "confirm", !.sent = x].got <= drawing
      BY <1>0, <3>2, StepType
    <3>4. pauses' \subseteq Ids
      BY <3>1, Frame
    <3>. QED  BY <2>1, <3>1, <3>3, <3>4, Frame, SetType, FrameInv
  <2>3. CASE ~AcceptsPause
    <3>1. Goto(p, Catch(p)) /\ UNCHANGED pauses /\ Catch(p) \in Stages
      BY <1>1, <2>3, CatchType DEF SendPause
    <3>. QED  BY <2>1, <3>1, Frame, GotoType, FrameInv
  <2>. QED  BY <2>2, <2>3
<1>2. CASE SendResume(p)
  <2>1. UNCHANGED <<drawing, due, chain, pauses, round, key, row, lock, sync, faults>>
    BY <1>2 DEF SendResume
  <2>2. \E s \in Stages : Goto(p, s)
    BY <1>2, CatchType DEF SendResume, Stages
  <2>3. resumes' \subseteq Drawings /\ \A e \in resumes' : e <= drawing
    <3>1. CASE AcceptsResume(me[p].got)
      <4>1. me[p].got \in Drawings
        BY <1>0, <3>1 DEF AcceptsResume, Drawings, Inv, TypeOK
      <4>2. resumes' = resumes \cup {me[p].got}
        BY <1>2, <3>1 DEF SendResume
      <4>. QED  BY <1>0, <4>1, <4>2, Frame
    <3>2. CASE ~AcceptsResume(me[p].got)
      BY <1>2, <3>2, Frame DEF SendResume
    <3>. QED  BY <3>1, <3>2
  <2>. QED  BY <2>1, <2>2, <2>3, Frame, GotoType, FrameInv
<1>. QED  BY <1>1, <1>2

(* A call that throws leaves its process at a stage that handles it,       *)
(* whether its transaction was sent or not.                                *)
LEMMA ThrowInv ==
  ASSUME Inv, NEW p \in Processes, Throw(p)
  PROVE  Inv'
<1>. USE DEF megapot, solana, caches
<1>1. UNCHANGED <<drawing, due, chain, round, key, row, lock, sync>> /\ faults' \in 0..MaxFaults
  BY TransitionConstants, Frame DEF Throw, Fault
<1>2. \E s \in Stages : Goto(p, s)
  BY CatchType DEF Throw, Stages
<1>3. pauses' \subseteq Ids
  BY Frame DEF Throw
<1>4. resumes' \subseteq Drawings /\ \A e \in resumes' : e <= drawing
  <2>1. me[p].got <= drawing /\ me[p].got \in 0..MaxDrawing
    BY Frame
  <2>2. CASE UNCHANGED resumes
    BY <2>2, Frame
  <2>3. CASE AcceptsResume(me[p].got) /\ resumes' = resumes \cup {me[p].got}
    <3>1. me[p].got \in Drawings
      BY <2>1, <2>3 DEF AcceptsResume, Drawings, Inv, TypeOK
    <3>. QED  BY <2>1, <2>3, <3>1, Frame
  <2>. QED  BY <2>2, <2>3 DEF Throw
<1>. QED  BY <1>1, <1>2, <1>3, <1>4, Frame, GotoType, FrameInv

(* A process that stops forgets everything.                                *)
LEMMA CrashInv ==
  ASSUME Inv, NEW p \in Processes, Crash(p)
  PROVE  Inv'
<1>1. UNCHANGED <<drawing, due, chain, pauses, resumes, round, key, row, lock, sync>>
      /\ faults' \in 0..MaxFaults
  BY TransitionConstants, Frame DEF Crash, Fault, megapot, solana, caches
<1>2. Start("down", "loop", 0, 0, FALSE) \in Locals
      /\ Start("down", "loop", 0, 0, FALSE).got <= drawing
  BY TransitionConstants, Frame DEF Start, Locals, Stages, Drawings
<1>3. me' = [me EXCEPT ![p] = Start("down", "loop", 0, 0, FALSE)]
  BY DEF Crash
<1>. QED  BY <1>1, <1>2, <1>3, Frame, SetType, FrameInv DEF megapot

(* A dropped transaction wakes the process that waits for it.              *)
LEMMA DropInv == Inv /\ Drop => Inv'
<1> SUFFICES ASSUME Inv, Drop PROVE Inv'
  OBVIOUS
<1>1. UNCHANGED <<drawing, due, chain, round, key, row, lock, sync>> /\ faults' \in 0..MaxFaults
  BY TransitionConstants, Frame DEF Drop, Fault, megapot, caches
<1>2. resumes' \subseteq resumes /\ pauses' \subseteq pauses
  BY DEF Drop
<1>3. me' \in [Processes -> Locals] /\ \A q \in Processes : me'[q].got <= drawing
  <2>1. CASE UNCHANGED me
    BY <2>1, Frame
  <2>2. CASE \E x \in pauses :
               me' = [p \in Processes |-> IF At(p, "confirm") /\ me[p].sent = x
                                          THEN [me[p] EXCEPT !.pc = Catch(p)] ELSE me[p]]
    <3>1. PICK x \in pauses :
                 me' = [p \in Processes |-> IF At(p, "confirm") /\ me[p].sent = x
                                            THEN [me[p] EXCEPT !.pc = Catch(p)] ELSE me[p]]
      BY <2>2
    <3>2. \A p \in Processes : [me[p] EXCEPT !.pc = Catch(p)] \in Locals
                              /\ [me[p] EXCEPT !.pc = Catch(p)].got <= drawing
      <4> SUFFICES ASSUME NEW p \in Processes
                   PROVE  /\ [me[p] EXCEPT !.pc = Catch(p)] \in Locals
                          /\ [me[p] EXCEPT !.pc = Catch(p)].got <= drawing
        OBVIOUS
      <4>1. Catch(p) \in Stages
        BY CatchType
      <4>2. /\ [me[p] EXCEPT !.pc = Catch(p)] \in Locals
            /\ [me[p] EXCEPT !.pc = Catch(p)].got = me[p].got
        BY <4>1, StepType
      <4>3. me[p].got <= drawing
        BY Frame
      <4>. QED  BY <4>2, <4>3
    <3>3. \A p \in Processes : me[p] \in Locals /\ me[p].got <= drawing
      BY Frame
    <3>4. ASSUME NEW p \in Processes PROVE me'[p] \in Locals /\ me'[p].got <= drawing
      <4>1. me'[p] = [me[p] EXCEPT !.pc = Catch(p)] \/ me'[p] = me[p]
        BY <3>1
      <4>. QED  BY <4>1, <3>2, <3>3
    <3>5. \A p \in Processes : me'[p] \in Locals /\ me'[p].got <= drawing
      BY <3>4
    <3>6. DOMAIN me' = Processes /\ me' = [p \in Processes |-> me'[p]]
      BY <3>1
    <3>. QED  BY <3>5, <3>6
  <2>. QED  BY <2>1, <2>2 DEF Drop
<1>. QED  BY <1>1, <1>2, <1>3, Frame, FrameInv DEF megapot

-----------------------------------------------------------------------------
(* Every step, of every actor and in every environment, keeps Inv.         *)
LEMMA StepInv == Inv /\ [Next]_vars => Inv'
<1> SUFFICES ASSUME Inv, [Next]_vars PROVE Inv'
  OBVIOUS
<1>1. CASE BecomeDue \/ Rollover
  BY <1>1, MegapotInv
<1>2. CASE Land
  BY <1>2, LandInv
<1>3. CASE Drop
  BY <1>3, DropInv
<1>4. CASE LockExpires \/ RedisWipe \/ Sync \/ SyncFails
  BY <1>4, CacheInv
<1>5. ASSUME NEW p \in Processes, Check(p) PROVE Inv'
  BY <1>5, EnterInv
<1>6. ASSUME NEW p \in Processes, Run(p) PROVE Inv'
  BY <1>6, EnterInv, WriteInv, ReadInv, SendInv DEF Run
<1>7. ASSUME NEW p \in Processes, Throw(p) PROVE Inv'
  BY <1>7, ThrowInv
<1>8. ASSUME NEW p \in Processes, Crash(p) PROVE Inv'
  BY <1>8, CrashInv
<1>9. CASE UNCHANGED vars
  <2>1. UNCHANGED <<drawing, due, chain, pauses, resumes, round, key, row, lock, me, sync, faults>>
    BY <1>9 DEF vars
  <2>. QED  BY <2>1, Frame, FrameInv DEF megapot
<1>. QED  BY <1>1, <1>2, <1>3, <1>4, <1>5, <1>6, <1>7, <1>8, <1>9 DEF Next

(* Every variable keeps its type, in every environment.                    *)
THEOREM TypeCorrect == Spec => []TypeOK
<1>1. Inv => TypeOK
  BY DEF Inv
<1>. QED  BY <1>1, InitInv, StepInv, PTL DEF Spec

(* Whatever is dropped, late, wiped or crashes, the program never sells    *)
(* tickets of a drawing Megapot has not opened.                            *)
THEOREM NeverAhead == Spec => []EpochNeverAhead
<1>1. Inv => EpochNeverAhead
  BY DEF Inv
<1>. QED  BY <1>1, InitInv, StepInv, PTL DEF Spec

-----------------------------------------------------------------------------
(* Who is between SET NX and DEL is the one Redis names.                   *)
HolderInv == \A p \in Processes : Holding(p) => lock = p

(* When process p steps, nobody else starts holding; p must only hold what *)
(* Redis says it does, and take or free no lock but a free one or its own. *)
LEMMA HolderFrame ==
  ASSUME Inv, HolderInv, NEW p \in Processes,
         \A q \in Processes : q # p => me'[q] = me[q],
         Holding(p)' => lock' = p,
         lock' # lock => lock \in {Nobody, p}
  PROVE  HolderInv'
<1> SUFFICES ASSUME NEW q \in Processes, Holding(q)', q # p PROVE lock' = q
  BY DEF HolderInv
<1>1. Holding(q)
  BY DEF Holding
<1>2. lock = q
  BY <1>1 DEF HolderInv
<1>. QED  BY <1>2, TransitionConstants

(* The stage Goto leads to.                                                *)
LEMMA GotoStage ==
  ASSUME Inv, NEW p \in Processes, NEW s \in Stages, Goto(p, s)
  PROVE  /\ \A q \in Processes : q # p => me'[q] = me[q]
         /\ me'[p].pc = s
         /\ s # "idle" => me'[p].mode = me[p].mode
<1>0. me \in [Processes -> Locals] /\ me[p] \in Locals
  BY Frame
<1>1. CASE s = "idle"
  <2>1. me' = [me EXCEPT ![p] = Idle] /\ Idle.pc = "idle"
    BY <1>1 DEF Goto, Rest, Idle, Start
  <2>. QED  BY <1>0, <1>1, <2>1
<1>2. CASE s # "idle"
  <2>1. me' = [me EXCEPT ![p] = [me[p] EXCEPT !.pc = s]]
    BY <1>2 DEF Goto
  <2>2. [me[p] EXCEPT !.pc = s].pc = s /\ [me[p] EXCEPT !.pc = s].mode = me[p].mode
    BY <1>0 DEF Locals
  <2>. QED  BY <1>0, <2>1, <2>2
<1>. QED  BY <1>1, <1>2

(* A throw never carries a process past the lock.                          *)
LEMMA CatchHolds ==
  ASSUME Inv, NEW p \in Processes, ~Holding(p),
         me[p].pc \notin {"idle", "down", "backfill"}
  PROVE  Catch(p) \in {"idle", "backfill"}
<1>1. me[p].pc \in Stages
  BY Frame DEF Locals
<1>. QED  BY <1>1 DEF Holding, Catch, At, Stages

(* Entering: only SET NX makes a process a holder.                         *)
LEMMA EnterHolder ==
  ASSUME Inv, HolderInv, NEW p \in Processes,
         Check(p) \/ Rebuild(p) \/ Acquire(p) \/ BootRead(p) \/ Backfill(p) \/ Restart(p) \/ Crash(p)
  PROVE  HolderInv'
<1>0. me \in [Processes -> Locals]
  BY Frame
<1>1. CASE Acquire(p)
  <2>1. PICK s \in Stages : Goto(p, s) /\ (s \in {"backfill", "idle"} \/ lock' = p)
                          /\ (UNCHANGED lock \/ lock = Nobody)
    BY <1>1 DEF Acquire, Stages
  <2>2. me'[p].pc = s /\ \A q \in Processes : q # p => me'[q] = me[q]
    BY <2>1, GotoStage
  <2>. QED  BY <2>1, <2>2, HolderFrame DEF Holding
<1>2. ASSUME NEW l, me' = [me EXCEPT ![p] = l], UNCHANGED lock,
             l.pc \in {"idle", "lock", "backfill", "boot", "down"} \/ (l.pc = "cache" /\ l.mode = "refill")
      PROVE  HolderInv'
  <2>1. me'[p] = l /\ \A q \in Processes : q # p => me'[q] = me[q]
    BY <1>0, <1>2
  <2>. QED  BY <1>2, <2>1, HolderFrame DEF Holding
<1>3. CASE Check(p)
  BY <1>2, <1>3 DEF Check, Start
<1>4. CASE Rebuild(p) \/ Backfill(p)
  BY <1>2, <1>4 DEF Rebuild, Backfill, Start
<1>5. CASE BootRead(p)
  <2>. DEFINE s == IF chain.epoch >= drawing THEN "backfill" ELSE "lock"
  <2>1. Start(s, "boot", 0, drawing, chain.paused).pc \in {"lock", "backfill"}
    BY DEF Start
  <2>2. me' = [me EXCEPT ![p] = Start(s, "boot", 0, drawing, chain.paused)] /\ UNCHANGED lock
    BY <1>5 DEF BootRead
  <2>. HIDE DEF s
  <2>. QED  BY <1>2, <2>1, <2>2
<1>6. CASE Restart(p)
  <2>1. PICK l \in {Start("boot", "boot", 0, 0, FALSE), Idle} :
          me' = [me EXCEPT ![p] = l] /\ UNCHANGED lock
    BY <1>6 DEF Restart
  <2>2. l.pc \in {"idle", "boot"}
    BY DEF Start, Idle
  <2>. QED  BY <1>2, <2>1, <2>2
<1>7. CASE Crash(p)
  BY <1>2, <1>7 DEF Crash, Start
<1>. QED  BY <1>1, <1>3, <1>4, <1>5, <1>6, <1>7

(* Going on: a holder that steps still holds, or gives the lock back.      *)
LEMMA RunHolder ==
  ASSUME Inv, HolderInv, NEW p \in Processes,
         \/ SendPause(p) \/ ConfirmPause(p) \/ Verify(p) \/ Mark(p) \/ MarkRow(p) \/ Poll(p)
         \/ Look(p) \/ SendResume(p) \/ Cache(p) \/ CacheRow(p) \/ Clear(p) \/ ClearRow(p)
  PROVE  HolderInv'
<1>0. me \in [Processes -> Locals] /\ me[p] \in Locals
  BY Frame
<1>1. UNCHANGED lock
  BY DEF SendPause, ConfirmPause, Verify, Mark, MarkRow, Poll, Look, SendResume, Cache,
         CacheRow, Clear, ClearRow
<1>2. \A q \in Processes : q # p => me'[q] = me[q]
  <2>1. CASE \E s \in Stages : Goto(p, s)
    BY <2>1, GotoStage
  <2>2. CASE \E l : me' = [me EXCEPT ![p] = l]
    BY <1>0, <2>2
  <2>3. CASE SendPause(p) \/ SendResume(p)
    BY <2>1, <2>2, <2>3, CatchType DEF SendPause, SendResume, Stages
  <2>4. CASE Verify(p) \/ Poll(p) \/ Cache(p)
    BY <2>2, <2>4 DEF Verify, Poll, Cache
  <2>. QED  BY <2>1, <2>2, <2>3, <2>4
            DEF ConfirmPause, Mark, MarkRow, Look, CacheRow, Clear, ClearRow, Stages, Goto
<1>3. CASE Holding(p)
  BY <1>1, <1>2, <1>3, HolderFrame DEF HolderInv
<1>4. CASE ~Holding(p)
  <2>1. (Cache(p) \/ CacheRow(p)) /\ me[p].mode = "refill"
    BY <1>4 DEF Holding, At, SendPause, ConfirmPause, Verify, Mark, MarkRow, Poll, Look,
                SendResume, Cache, CacheRow, Clear, ClearRow
  <2>2. ~Holding(p)'
    <3>1. CASE Cache(p)
      <4>1. me' = [me EXCEPT ![p] = [me[p] EXCEPT !.pc = "cacherow", !.flag = key]]
        BY <3>1 DEF Cache
      <4>2. me'[p].pc = "cacherow" /\ me'[p].mode = "refill"
        BY <1>0, <2>1, <4>1 DEF Locals
      <4>. QED  BY <4>2 DEF Holding
    <3>2. CASE CacheRow(p)
      <4>1. me' = [me EXCEPT ![p] = Idle] /\ Idle.pc = "idle"
        BY <2>1, <3>2 DEF CacheRow, Rest, Idle, Start
      <4>. QED  BY <1>0, <4>1 DEF Holding
    <3>. QED  BY <2>1, <3>1, <3>2
  <2>. QED  BY <1>1, <1>2, <2>2, HolderFrame
<1>. QED  BY <1>3, <1>4

(* DEL is only reached by the holder.                                      *)
LEMMA UnlockHolder ==
  ASSUME Inv, HolderInv, NEW p \in Processes, Unlock(p)
  PROVE  HolderInv'
<1>1. lock = p
  BY DEF Unlock, HolderInv, Holding, At
<1>2. PICK s \in {"idle", "backfill"} : Goto(p, s)
  BY DEF Unlock, Goto
<1>3. me'[p].pc = s /\ \A q \in Processes : q # p => me'[q] = me[q]
  BY <1>2, GotoStage DEF Stages
<1>. QED  BY <1>1, <1>3, HolderFrame DEF Holding

(* A throw.                                                                *)
LEMMA ThrowHolder ==
  ASSUME Inv, HolderInv, NEW p \in Processes, Throw(p)
  PROVE  HolderInv'
<1>1. UNCHANGED lock
  BY DEF Throw
<1>2. PICK s \in Stages : Goto(p, s) /\ (s = "idle" \/ (s = Catch(p) /\ ~At(p, "backfill")))
  BY CatchType DEF Throw, Stages
<1>3. me'[p].pc = s /\ \A q \in Processes : q # p => me'[q] = me[q]
  BY <1>2, GotoStage
<1>4. CASE Holding(p)
  BY <1>1, <1>3, <1>4, HolderFrame DEF HolderInv
<1>5. CASE ~Holding(p)
  <2>1. s \in {"idle", "backfill"}
    BY <1>2, <1>5, CatchHolds DEF Throw, At
  <2>. QED  BY <1>1, <1>3, <2>1, HolderFrame DEF Holding
<1>. QED  BY <1>4, <1>5

(* Every step keeps the holder, as long as Redis keeps its data.           *)
LEMMA HolderStep == RedisKeeps /\ Inv /\ HolderInv /\ [Next]_vars => HolderInv'
<1> SUFFICES ASSUME RedisKeeps, Inv, HolderInv, [Next]_vars PROVE HolderInv'
  OBVIOUS
<1>1. CASE UNCHANGED <<lock, me>>
  BY <1>1 DEF HolderInv, Holding
<1>2. CASE BecomeDue \/ Rollover \/ Land \/ Sync \/ SyncFails \/ UNCHANGED vars
  BY <1>1, <1>2 DEF BecomeDue, Rollover, Land, LandPause, LandResume, Sync, SyncRead, SyncCompare,
                    SyncKey, SyncRow, SyncFails, vars
<1>3. CASE LockExpires
  BY <1>3 DEF LockExpires, HolderInv, Holding
<1>4. CASE RedisWipe
  BY <1>4 DEF RedisWipe
<1>5. CASE Drop
  <2>1. UNCHANGED lock
    BY <1>5 DEF Drop
  <2>2. \A q \in Processes : me'[q] = me[q] \/ (At(q, "confirm"))
    BY <1>5, Frame DEF Drop
  <2>3. \A q \in Processes : Holding(q)' => Holding(q)
    BY <2>2 DEF Holding, At
  <2>. QED  BY <2>1, <2>3 DEF HolderInv
<1>6. ASSUME NEW p \in Processes, Check(p) \/ Run(p) \/ Throw(p) \/ Crash(p) PROVE HolderInv'
  BY <1>6, EnterHolder, RunHolder, UnlockHolder, ThrowHolder DEF Run
<1>. QED  BY <1>2, <1>3, <1>4, <1>5, <1>6 DEF Next

(* As long as Redis keeps its data, two processes are never both between   *)
(* taking the transition lock and giving it back, wherever they crash.     *)
THEOREM OneAtATime == ASSUME RedisKeeps PROVE Spec => []OneTransition
<1>1. Init => HolderInv
  BY DEF Init, HolderInv, Holding, Idle, Start
<1>2. HolderInv => OneTransition
  BY DEF HolderInv, OneTransition
<1>3. Inv /\ HolderInv /\ [Next]_vars => HolderInv'
  BY HolderStep
<1>. QED  BY <1>1, <1>2, <1>3, InitInv, StepInv, PTL DEF Spec

-----------------------------------------------------------------------------
(* What the two remaining invariants need: nothing stops a transition half *)
(* way, transactions land in time, due-checks are fresh, Redis keeps its   *)
(* data, and one process only, the API, boots with startSync.              *)
Orderly ==
    /\ CleanStops /\ FreshReads /\ TxSettles /\ RedisKeeps
    /\ \A p, q \in Servers : p = q

Calm == pauses = {} /\ resumes = {}

(* The epoch the program will run once the resume on its way has landed.   *)
Pending(e) ==
    IF resumes = {} THEN chain.epoch = e
    ELSE resumes = {e} /\ chain.paused /\ e > chain.epoch

(* Paused for the cached round, no resume sent; and the active round's     *)
(* resume sent, landed or not.                                             *)
Awaiting == Calm /\ chain.paused /\ chain.epoch = round
Done == pauses = {} /\ Pending(drawing)

Looping(p) == me[p].mode \in {"loop", "verified"}
Behind(p) == chain.epoch < drawing /\ me[p].got = drawing
Owns(p) == IF me[p].mode = "boot" THEN Behind(p) ELSE Looping(p) /\ me[p].round = round

(* A process outside every transition, and one at a stage of it, with what *)
(* it may count on there.                                                  *)
Quiet(p) == me[p].pc \in {"idle", "lock", "down"} /\ me[p].mode = "loop"
Busy(p) ==
    \/ At(p, "boot") /\ me[p].mode = "boot" /\ lock = Nobody
    \/ /\ At(p, "lock") /\ me[p].mode = "boot" /\ lock = Nobody
       /\ Calm /\ Behind(p) /\ me[p].flag = chain.paused
    \/ /\ At(p, "pause") /\ Owns(p) /\ me[p].mode # "verified"
       /\ me[p].mode = "boot" => Calm /\ ~chain.paused
    \/ /\ At(p, "confirm") /\ Owns(p) /\ me[p].mode # "verified"
       /\ resumes = {} /\ pauses \subseteq {me[p].sent} /\ (pauses = {} => chain.paused)
    \/ At(p, "verify") /\ Owns(p) /\ me[p].mode = "loop"
    \/ me[p].pc \in {"mark", "markrow"} /\ Owns(p) /\ Awaiting
    \/ /\ At(p, "poll") /\ Looping(p)
       /\ (me[p].round = round /\ Awaiting) \/ (me[p].round < drawing /\ Done)
    \/ /\ me[p].pc \in {"look", "resume"} /\ Looping(p)
       /\ me[p].round < drawing /\ me[p].got = drawing
       /\ (me[p].round = round /\ Awaiting) \/ Done
    \/ At(p, "resume") /\ me[p].mode = "boot" /\ Behind(p) /\ Awaiting
    \/ At(p, "cache") /\ me[p].round < drawing /\ me[p].got = drawing /\ Done
    \/ /\ me[p].pc \in {"cacherow", "clear", "clearrow"}
       /\ me[p].mode = "refill" => At(p, "cacherow")
       /\ me[p].round < drawing /\ round = drawing /\ Done
    \/ At(p, "unlock") /\ me[p].mode # "refill" /\ (me[p].mode = "boot" => round = drawing /\ Done)
    \/ At(p, "backfill") /\ me[p].mode = "boot" /\ round = drawing /\ Done

ProcOK(p) ==
    /\ Due(me[p].round) /\ (Quiet(p) \/ Busy(p))
    /\ ~Looping(p) => p \in Servers /\ me[p].round = 0
ProcInv == \A p \in Processes : ProcOK(p)

Alone == \A p, q \in Processes : ~Quiet(p) /\ ~Quiet(q) => p = q

(* The program runs, or will run, the cached round, but for a process that *)
(* has sent the next one's resume and not cached it yet.                   *)
Ahead(p) ==
    /\ me[p].pc \in {"poll", "look", "resume", "cache"} /\ me[p].mode # "refill"
    /\ me[p].round < drawing /\ Pending(drawing)
EpochInv == round # 0 /\ (Pending(round) \/ \E p \in Processes : Ahead(p))

(* A pause on its way is the cached round's, and that round is due.        *)
FlightInv ==
    /\ resumes # {} => pauses = {}
    /\ pauses # {} => Due(round) /\ chain.epoch = round
    /\ PausedOnlyAround

RolloverInv == ProcInv /\ Alone /\ EpochInv /\ FlightInv

(* At the start nobody is at work and nothing is on its way.               *)
LEMMA InitRollover == Init => RolloverInv
<1> SUFFICES ASSUME Init PROVE RolloverInv
  OBVIOUS
<1>1. \A p \in Processes : me[p] = Idle
  BY DEF Init
<1>2. Idle.pc = "idle" /\ Idle.mode = "loop" /\ Idle.round = 0
  BY DEF Idle, Start
<1>3. ProcInv /\ Alone
  BY <1>1, <1>2 DEF Init, ProcInv, ProcOK, Quiet, Alone, Looping, Due
<1>4. EpochInv /\ FlightInv
  BY DEF Init, EpochInv, FlightInv, Pending, PausedOnlyAround
<1>. QED  BY <1>3, <1>4 DEF RolloverInv

(* It gives both properties.                                               *)
LEMMA RolloverGives == Inv /\ RolloverInv => PausedOnlyAround /\ SomeoneResumes
<1> SUFFICES ASSUME Inv, RolloverInv PROVE PausedOnlyAround /\ SomeoneResumes
  OBVIOUS
<1>1. PausedOnlyAround
  BY DEF RolloverInv, FlightInv
<1>2. CASE Pending(round)
  BY <1>1, <1>2 DEF Pending, PausedOnlyAround, SomeoneResumes
<1>3. CASE \E p \in Processes : Ahead(p)
  BY <1>1, <1>3 DEF Ahead, SomeoneResumes, At
<1>. QED  BY <1>1, <1>2, <1>3 DEF RolloverInv, EpochInv

-----------------------------------------------------------------------------
(* What the types say of the numbers.                                      *)
LEMMA Numbers ==
  ASSUME Inv
  PROVE  /\ drawing \in Nat /\ chain.epoch \in Nat /\ round \in Nat
         /\ drawing \in Drawings /\ chain.epoch <= drawing
         /\ \A p \in Processes : me[p].round \in Nat /\ me[p].got \in Nat
BY TransitionConstants DEF Inv, TypeOK, Locals, Drawings, EpochNeverAhead

(* What a process may count on at each stage.                              *)
LEMMA AtStage ==
  ASSUME ProcInv, NEW p \in Processes
  PROVE  /\ Due(me[p].round)
         /\ ~Looping(p) => p \in Servers /\ me[p].round = 0
         /\ Quiet(p) \/ Busy(p)
BY DEF ProcInv, ProcOK

(* A process at work is alone at it.                                       *)
LEMMA OthersQuiet ==
  ASSUME Alone, NEW p \in Processes, ~Quiet(p), NEW q \in Processes, q # p
  PROVE  Quiet(q)
BY DEF Alone

(* Who is at work besides the one that has sent a resume knows that none   *)
(* is on its way but the cached round's.                                   *)
LEMMA Current ==
  ASSUME Alone, EpochInv, NEW p \in Processes, ~Quiet(p), ~Ahead(p)
  PROVE  Pending(round)
<1>1. ASSUME NEW q \in Processes, Ahead(q) PROVE FALSE
  <2>1. ~Quiet(q)
    BY <1>1 DEF Ahead, Quiet
  <2>2. q = p
    BY <2>1 DEF Alone
  <2>. QED  BY <1>1, <2>2
<1>. QED  BY <1>1 DEF EpochInv

(* When a process at work steps, the others are quiet and stay so: what is *)
(* left to show is its own.                                                *)
LEMMA BusyStep ==
  ASSUME Inv, RolloverInv, NEW p \in Processes, ~Quiet(p),
         \A q \in Processes : q # p => me'[q] = me[q],
         UNCHANGED megapot, ProcOK(p)'
  PROVE  ProcInv' /\ Alone'
<1>1. ASSUME NEW q \in Processes, q # p PROVE ProcOK(q)' /\ Quiet(q)'
  <2>1. Quiet(q) /\ Due(me[q].round)
    BY <1>1, OthersQuiet, AtStage DEF RolloverInv
  <2>. QED  BY <1>1, <2>1 DEF ProcOK, Quiet, Looping, Due, megapot
<1>. QED  BY <1>1 DEF ProcInv, Alone

(* When a quiet process steps and stays quiet, or the lock runs out, those *)
(* at work keep what they count on.                                        *)
LEMMA QuietStep ==
  ASSUME Inv, RolloverInv,
         UNCHANGED <<megapot, solana, round>>, lock' \in {lock, Nobody},
         \A q \in Processes :
            \/ me'[q] = me[q]
            \/ Quiet(q) /\ Quiet(q)' /\ Due(me'[q].round)
  PROVE  RolloverInv'
<1>. USE DEF megapot, solana
<1>1. ASSUME NEW q \in Processes PROVE ProcOK(q)' /\ (Quiet(q)' <=> Quiet(q))
  <2>1. Due(me[q].round) /\ (~Looping(q) => q \in Servers /\ me[q].round = 0) /\ (Quiet(q) \/ Busy(q))
    BY AtStage DEF RolloverInv
  <2>2. CASE me'[q] = me[q]
    <3>1. Quiet(q)' <=> Quiet(q)
      BY <2>2 DEF Quiet
    <3>2. Busy(q) => Busy(q)'
      BY <2>2 DEF Busy, At, Owns, Behind, Looping, Awaiting, Calm, Done, Pending
    <3>. QED  BY <2>1, <2>2, <3>1, <3>2 DEF ProcOK, Looping, Due
  <2>3. CASE Quiet(q) /\ Quiet(q)' /\ Due(me'[q].round)
    BY <2>3 DEF ProcOK, Quiet, Looping, Due
  <2>. QED  BY <1>1, <2>2, <2>3
<1>2. ProcInv' /\ Alone'
  BY <1>1 DEF ProcInv, Alone, RolloverInv
<1>3. EpochInv'
  <2>1. ASSUME NEW q \in Processes, Ahead(q) PROVE Ahead(q)'
    <3>1. ~Quiet(q)
      BY <2>1 DEF Ahead, Quiet
    <3>2. me'[q] = me[q]
      BY <3>1
    <3>. QED  BY <2>1, <3>2 DEF Ahead, Pending
  <2>2. Pending(round) => Pending(round)'
    BY DEF Pending
  <2>. QED  BY <2>1, <2>2 DEF EpochInv, RolloverInv
<1>4. FlightInv'
  BY DEF FlightInv, RolloverInv, PausedOnlyAround, Due
<1>. QED  BY <1>2, <1>3, <1>4 DEF RolloverInv

(* The cron tick and an expiring lock disturb no transition.               *)
LEMMA CacheRollover ==
  ASSUME Inv, RolloverInv, RedisKeeps,
         LockExpires \/ RedisWipe \/ Sync \/ SyncFails \/ UNCHANGED vars
  PROVE  RolloverInv'
<1>1. UNCHANGED <<megapot, solana, round, me>> /\ lock' \in {lock, Nobody}
  BY DEF LockExpires, RedisWipe, Sync, SyncRead, SyncCompare, SyncKey, SyncRow, SyncFails,
         vars, megapot, solana, caches
<1>. QED  BY <1>1, QuietStep

(* A round that was due stays due, and so do those before it.              *)
LEMMA DueStays ==
  ASSUME Inv, BecomeDue \/ Rollover, NEW r \in Nat, Due(r)
  PROVE  Due(r)'
BY Numbers DEF BecomeDue, Rollover, Due

(* Nobody who knows the active round is at work when the next one opens.   *)
LEMMA MegapotRollover ==
  ASSUME Inv, RolloverInv, Orderly, BecomeDue \/ Rollover
  PROVE  RolloverInv'
<1>1. UNCHANGED <<chain, pauses, resumes, round, lock, me>>
  BY DEF BecomeDue, Rollover, solana, caches
<1>2. ASSUME NEW p \in Processes PROVE ProcOK(p)' /\ (Quiet(p)' <=> Quiet(p))
  <2>1. Due(me[p].round)' /\ (~Looping(p) => p \in Servers /\ me[p].round = 0)'
    BY <1>1, AtStage, Numbers, DueStays DEF RolloverInv, Looping
  <2>2. Quiet(p)' <=> Quiet(p)
    BY <1>1 DEF Quiet
  <2>3. Busy(p) => Busy(p)'
    <3>1. CASE BecomeDue
      BY <1>1, <3>1 DEF BecomeDue, Busy, At, Owns, Behind, Looping, Awaiting, Calm, Done, Pending
    <3>2. CASE Rollover
      <4>1. ~CatchingUp(p)
        BY <3>2 DEF Rollover, Orderly
      <4>2. me[p].mode \in {"loop", "verified"}
        BY <4>1, Frame DEF CatchingUp, Locals
      <4>3. me[p].pc \in {"poll", "look", "resume", "cache", "cacherow", "clear", "clearrow"}
              => ~(me[p].round < drawing)
        BY <4>1 DEF CatchingUp
      <4>. QED  BY <1>1, <4>2, <4>3 DEF Busy, At, Owns, Looping, Awaiting, Calm
    <3>. QED  BY <3>1, <3>2
  <2>. QED  BY <2>1, <2>2, <2>3, AtStage DEF ProcOK, RolloverInv
<1>3. ProcInv' /\ Alone'
  BY <1>2 DEF ProcInv, Alone, RolloverInv
<1>4. EpochInv'
  <2>1. CASE Pending(round)
    BY <1>1, <2>1 DEF EpochInv, Pending, RolloverInv
  <2>2. ASSUME NEW p \in Processes, Ahead(p) PROVE Ahead(p)'
    <3>1. CASE BecomeDue
      BY <1>1, <2>2, <3>1 DEF Ahead, Pending, BecomeDue
    <3>2. CASE Rollover
      <4>1. ~CatchingUp(p)
        BY <3>2 DEF Rollover, Orderly
      <4>. QED  BY <2>2, <4>1 DEF CatchingUp, Ahead
    <3>. QED  BY <3>1, <3>2
  <2>. QED  BY <1>1, <2>1, <2>2 DEF EpochInv, RolloverInv
<1>5. FlightInv'
  <2>1. (Due(round) => Due(round)') /\ (Due(chain.epoch) => Due(chain.epoch)')
    BY <1>1, Numbers, DueStays
  <2>. QED  BY <1>1, <2>1 DEF FlightInv, PausedOnlyAround, RolloverInv
<1>. QED  BY <1>3, <1>4, <1>5 DEF RolloverInv

(* A pause lands on the cached round, which is due.                        *)
LEMMA LandPauseRollover ==
  ASSUME Inv, RolloverInv, NEW x \in Ids, LandPause(x)
  PROVE  RolloverInv'
<1>1. UNCHANGED <<drawing, due, resumes, round, lock, me>> /\ x \in pauses /\ pauses' = pauses \ {x}
  BY DEF LandPause, megapot, caches
<1>2. chain'.paused /\ chain'.epoch = chain.epoch
  BY DEF LandPause, AcceptsPause, Inv, TypeOK
<1>3. Due(round) /\ chain.epoch = round /\ resumes = {}
  BY <1>1 DEF RolloverInv, FlightInv
<1>4. ASSUME NEW p \in Processes PROVE ProcOK(p)' /\ (Quiet(p)' <=> Quiet(p))
  <2>1. Busy(p) => Busy(p)'
    BY <1>1, <1>2, <1>3 DEF Busy, At, Owns, Behind, Looping, Awaiting, Calm, Done
  <2>2. Quiet(p)' <=> Quiet(p)
    BY <1>1 DEF Quiet
  <2>. QED  BY <1>1, <2>1, <2>2, AtStage DEF ProcOK, Due, Looping, RolloverInv
<1>5. ProcInv' /\ Alone'
  BY <1>4 DEF ProcInv, Alone, RolloverInv
<1>6. EpochInv' /\ FlightInv'
  BY <1>1, <1>2, <1>3 DEF EpochInv, FlightInv, Pending, PausedOnlyAround, Due, RolloverInv
<1>. QED  BY <1>5, <1>6 DEF RolloverInv

(* The one resume on its way lands with the epoch everybody counts on.     *)
LEMMA LandResumeRollover ==
  ASSUME Inv, RolloverInv, NEW e \in Drawings, LandResume(e)
  PROVE  RolloverInv'
<1>1. UNCHANGED <<drawing, due, pauses, round, lock, me>> /\ pauses = {}
  BY DEF LandResume, megapot, caches, RolloverInv, FlightInv
<1>2. resumes = {e} /\ chain.paused /\ e > chain.epoch
  BY DEF LandResume, RolloverInv, EpochInv, Ahead, Pending
<1>3. resumes' = {} /\ chain'.epoch = e /\ ~chain'.paused
  BY <1>2 DEF LandResume, AcceptsResume
<1>4. \A d : Pending(d) => Pending(d)'
  BY <1>2, <1>3 DEF Pending
<1>5. ASSUME NEW p \in Processes PROVE ProcOK(p)' /\ (Quiet(p)' <=> Quiet(p))
  <2>1. Done => Done'
    BY <1>1, <1>2, <1>3 DEF Done, Pending
  <2>2. Busy(p) => Busy(p)'
    BY <1>1, <1>2, <2>1 DEF Busy, At, Owns, Looping, Awaiting, Calm
  <2>3. Quiet(p)' <=> Quiet(p)
    BY <1>1 DEF Quiet
  <2>. QED  BY <1>1, <2>2, <2>3, AtStage DEF ProcOK, Due, Looping, RolloverInv
<1>6. ProcInv' /\ Alone'
  BY <1>5 DEF ProcInv, Alone, RolloverInv
<1>7. EpochInv'
  BY <1>1, <1>2, <1>3 DEF EpochInv, Ahead, Pending, RolloverInv
<1>8. FlightInv'
  BY <1>1, <1>3 DEF FlightInv, PausedOnlyAround
<1>. QED  BY <1>6, <1>7, <1>8 DEF RolloverInv

-----------------------------------------------------------------------------
(* A process that goes to another stage keeps its locals, unless it rests. *)
LEMMA Moved ==
  ASSUME Inv, NEW p \in Processes, NEW s \in Stages, Goto(p, s)
  PROVE  /\ \A q \in Processes : q # p => me'[q] = me[q]
         /\ me'[p].pc = s
         /\ IF s = "idle" THEN me'[p].mode = "loop" /\ me'[p].round = 0
            ELSE /\ me'[p].mode = me[p].mode /\ me'[p].round = me[p].round
                 /\ me'[p].got = me[p].got /\ me'[p].flag = me[p].flag
                 /\ me'[p].sent = me[p].sent
<1>0. me \in [Processes -> Locals] /\ me[p] \in Locals
  BY Frame
<1>1. CASE s = "idle"
  <2>1. me' = [me EXCEPT ![p] = Idle]
    BY <1>1 DEF Goto, Rest
  <2>2. me'[p] = Idle /\ \A q \in Processes : q # p => me'[q] = me[q]
    BY <1>0, <2>1
  <2>3. Idle.pc = "idle" /\ Idle.mode = "loop" /\ Idle.round = 0
    BY DEF Idle, Start
  <2>. QED  BY <1>1, <2>2, <2>3
<1>2. CASE s # "idle"
  <2>1. me' = [me EXCEPT ![p] = [me[p] EXCEPT !.pc = s]]
    BY <1>2 DEF Goto
  <2>2. me'[p] = [me[p] EXCEPT !.pc = s] /\ \A q \in Processes : q # p => me'[q] = me[q]
    BY <1>0, <2>1
  <2>. QED  BY <1>0, <1>2, <2>2 DEF Locals
<1>. QED  BY <1>1, <1>2

(* The same for a process whose locals are set otherwise.                  *)
LEMMA Placed ==
  ASSUME Inv, NEW p \in Processes, NEW l, me' = [me EXCEPT ![p] = l]
  PROVE  me'[p] = l /\ \A q \in Processes : q # p => me'[q] = me[q]
BY Frame

(* A step of a process at work that leaves the chain, its transactions and *)
(* the cached round alone: what is left to show is that the process may    *)
(* count on what its next stage counts on.                                 *)
LEMMA BusyFrame ==
  ASSUME Inv, RolloverInv, NEW p \in Processes, ~Quiet(p),
         \A q \in Processes : q # p => me'[q] = me[q],
         UNCHANGED <<megapot, solana, round>>,
         ProcOK(p)', Pending(round) \/ Ahead(p)'
  PROVE  RolloverInv'
<1>. USE DEF megapot, solana
<1>1. ProcInv' /\ Alone'
  BY BusyStep
<1>2. EpochInv'
  <2>1. Pending(round) => Pending(round)'
    BY DEF Pending
  <2>. QED  BY <2>1 DEF EpochInv, RolloverInv
<1>3. FlightInv'
  BY DEF FlightInv, RolloverInv, PausedOnlyAround, Due
<1>. QED  BY <1>1, <1>2, <1>3 DEF RolloverInv

(* Confirming and recording the pause.                                     *)
LEMMA PausedRollover ==
  ASSUME Inv, RolloverInv, Orderly, NEW p \in Processes,
         ConfirmPause(p) \/ Verify(p) \/ Mark(p) \/ MarkRow(p)
  PROVE  RolloverInv'
<1>. USE DEF megapot, solana, caches, flags
<1>0. UNCHANGED <<megapot, solana, round>>
  BY DEF ConfirmPause, Verify, Mark, MarkRow
<1>1. me[p].pc \in {"confirm", "verify", "mark", "markrow"}
  BY DEF ConfirmPause, Verify, Mark, MarkRow, At
<1>2. ~Quiet(p) /\ ~Ahead(p) /\ Busy(p)
  BY <1>1, AtStage DEF Quiet, Ahead, RolloverInv
<1>3. Pending(round)
  BY <1>2, Current DEF RolloverInv
<1>4. Due(me[p].round) /\ (~Looping(p) => p \in Servers /\ me[p].round = 0)
  BY AtStage DEF RolloverInv
<1>5. CASE ConfirmPause(p)
  <2>1. Owns(p) /\ me[p].mode # "verified" /\ Calm /\ chain.paused
    BY <1>2, <1>5 DEF ConfirmPause, Busy, At, Calm
  <2>2. Awaiting
    BY <1>3, <2>1 DEF Awaiting, Calm, Pending
  <2>3. /\ me'[p].pc = "mark" /\ me'[p].mode = me[p].mode /\ me'[p].round = me[p].round
        /\ me'[p].got = me[p].got /\ \A q \in Processes : q # p => me'[q] = me[q]
    BY <1>5, Moved DEF ConfirmPause, Stages
  <2>4. ProcOK(p)'
    BY <1>0, <1>4, <2>1, <2>2, <2>3
       DEF ProcOK, Due, Busy, Looping, Owns, Behind, Awaiting, Calm
  <2>. QED  BY <1>0, <1>2, <1>3, <2>3, <2>4, BusyFrame
<1>6. CASE Verify(p)
  <2>1. Owns(p) /\ me[p].mode = "loop" /\ Calm
    BY <1>2, <1>6 DEF Verify, Busy, At, Calm, Settled, Orderly
  <2>. DEFINE s == IF chain.paused THEN "mark" ELSE "unlock"
              l == [me[p] EXCEPT !.pc = s, !.mode = "verified"]
  <2>2. me' = [me EXCEPT ![p] = l]
    BY <1>6 DEF Verify
  <2>3. me'[p] = l /\ \A q \in Processes : q # p => me'[q] = me[q]
    BY <2>2, Placed
  <2>4. l.pc = s /\ l.mode = "verified" /\ l.round = me[p].round
    BY Frame DEF Locals
  <2>5. CASE chain.paused
    <3>1. Awaiting
      BY <1>3, <2>1, <2>5 DEF Awaiting, Calm, Pending
    <3>2. ProcOK(p)'
      BY <1>0, <1>4, <2>1, <2>3, <2>4, <2>5, <3>1
         DEF ProcOK, Due, Busy, Looping, Owns, Awaiting, Calm
    <3>. QED  BY <1>0, <1>2, <1>3, <2>3, <3>2, BusyFrame
  <2>6. CASE ~chain.paused
    <3>1. ProcOK(p)'
      BY <1>0, <1>4, <2>3, <2>4, <2>6 DEF ProcOK, Due, Busy, Looping, At
    <3>. QED  BY <1>0, <1>2, <1>3, <2>3, <3>1, BusyFrame
  <2>. QED  BY <2>5, <2>6
<1>7. CASE Mark(p) \/ MarkRow(p)
  <2>1. Owns(p) /\ Awaiting
    BY <1>2, <1>7 DEF Mark, MarkRow, Busy, At
  <2>2. PICK s \in {"markrow", "resume", "poll"} :
          /\ Goto(p, s)
          /\ s = "resume" => me[p].mode = "boot"
          /\ s = "poll" => me[p].mode # "boot"
    BY <1>7 DEF Mark, MarkRow
  <2>3. /\ me'[p].pc = s /\ me'[p].mode = me[p].mode /\ me'[p].round = me[p].round
        /\ me'[p].got = me[p].got /\ \A q \in Processes : q # p => me'[q] = me[q]
    BY <2>2, Moved DEF Stages
  <2>4. ProcOK(p)'
    BY <1>0, <1>4, <2>1, <2>2, <2>3
       DEF ProcOK, Due, Busy, Looping, Owns, Behind, Awaiting, Calm, At
  <2>. QED  BY <1>0, <1>2, <1>3, <2>3, <2>4, BusyFrame
<1>. QED  BY <1>5, <1>6, <1>7

(* Waiting for the next round, and looking at the program.                 *)
LEMMA WaitRollover ==
  ASSUME Inv, RolloverInv, NEW p \in Processes, Poll(p) \/ Look(p)
  PROVE  RolloverInv'
<1>. USE DEF megapot, solana, caches
<1>0. UNCHANGED <<megapot, solana, round>>
  BY DEF Poll, Look
<1>1. me[p].pc \in {"poll", "look"}
  BY DEF Poll, Look, At
<1>2. ~Quiet(p) /\ Busy(p) /\ Looping(p)
  BY <1>1, AtStage DEF Quiet, Busy, At, RolloverInv
<1>3. Due(me[p].round)
  BY AtStage DEF RolloverInv
<1>4. me[p].round < drawing /\ ((me[p].round = round /\ Awaiting) \/ Done)
  <2>1. CASE Poll(p)
    BY <1>2, <2>1, Numbers DEF Poll, Busy, At
  <2>2. CASE Look(p)
    BY <1>2, <2>2 DEF Look, Busy, At
  <2>. QED  BY <2>1, <2>2
<1>5. Pending(round) \/ Ahead(p)
  BY <1>2, Current DEF RolloverInv
<1>6. CASE Poll(p)
  <2>. DEFINE l == [me[p] EXCEPT !.pc = "look", !.got = drawing]
  <2>0. me' = [me EXCEPT ![p] = l]
    BY <1>6 DEF Poll
  <2>1. me'[p] = l /\ \A q \in Processes : q # p => me'[q] = me[q]
    BY <2>0, Placed
  <2>2. l.pc = "look" /\ l.got = drawing /\ l.round = me[p].round /\ l.mode = me[p].mode
    BY Frame DEF Locals
  <2>. HIDE DEF l
  <2>3. ProcOK(p)'
    BY <1>0, <1>2, <1>3, <1>4, <2>1, <2>2
       DEF ProcOK, Due, Busy, Looping, Awaiting, Calm, Done, Pending
  <2>4. Pending(round) \/ Ahead(p)'
    BY <1>0, <1>5, <2>1, <2>2 DEF Ahead, Pending
  <2>. QED  BY <1>0, <1>2, <2>1, <2>3, <2>4, BusyFrame
<1>7. CASE Look(p)
  <2>. DEFINE s == IF chain.paused THEN "resume" ELSE "cache"
  <2>1. /\ me'[p].pc = s /\ me'[p].mode = me[p].mode /\ me'[p].round = me[p].round
        /\ me'[p].got = me[p].got /\ \A q \in Processes : q # p => me'[q] = me[q]
    BY <1>7, Moved DEF Look, Stages
  <2>2. me[p].got = drawing
    BY <1>2, <1>7 DEF Look, Busy, At
  <2>3. ~chain.paused => Done
    BY <1>4 DEF Awaiting
  <2>4. ProcOK(p)'
    BY <1>0, <1>2, <1>3, <1>4, <2>1, <2>2, <2>3
       DEF ProcOK, Due, Busy, At, Looping, Awaiting, Calm, Done, Pending
  <2>5. Pending(round) \/ Ahead(p)'
    BY <1>0, <1>2, <1>5, <2>1 DEF Ahead, Pending, Looping
  <2>. QED  BY <1>0, <1>2, <2>1, <2>4, <2>5, BusyFrame
<1>. QED  BY <1>6, <1>7

(* Resuming: the active round's epoch is sent, once more if it is on its   *)
(* way already; whether the sender hears of it or not.                     *)
LEMMA ResumeSent ==
  ASSUME Inv, RolloverInv, NEW p \in Processes, At(p, "resume"),
         NEW s \in {"cache", "poll"}, me[p].mode = "boot" => s = "cache", Goto(p, s),
         AcceptsResume(me[p].got), resumes' = resumes \cup {me[p].got},
         UNCHANGED <<drawing, due, chain, pauses, round, lock>>
  PROVE  RolloverInv'
<1>1. ~Quiet(p) /\ Busy(p) /\ Due(me[p].round) /\ (~Looping(p) => p \in Servers /\ me[p].round = 0)
  BY AtStage DEF Quiet, RolloverInv, At
<1>2. /\ me'[p].pc = s /\ me'[p].mode = me[p].mode /\ me'[p].round = me[p].round
      /\ me'[p].got = me[p].got /\ \A q \in Processes : q # p => me'[q] = me[q]
  BY Moved DEF Stages
<1>3. me[p].got = drawing /\ pauses = {} /\ me[p].mode # "refill"
  BY <1>1 DEF Busy, At, Behind, Awaiting, Calm, Done, Looping
<1>4. me[p].round < drawing
  <2>1. CASE Looping(p)
    BY <1>1, <2>1 DEF Busy, At, Looping
  <2>2. CASE ~Looping(p)
    BY <1>1, <2>2, Numbers, TransitionConstants DEF Drawings
  <2>. QED  BY <2>1, <2>2
<1>5. Done'
  <2>1. CASE resumes = {}
    BY <1>3, <2>1 DEF Done, Pending, AcceptsResume
  <2>2. CASE resumes # {}
    <3>1. Done
      BY <1>1, <2>2 DEF Busy, At, Awaiting, Calm
    <3>. QED  BY <1>3, <2>2, <3>1 DEF Done, Pending, AcceptsResume
  <2>. QED  BY <2>1, <2>2
<1>6. ProcOK(p)'
  BY <1>1, <1>2, <1>3, <1>4, <1>5 DEF ProcOK, Due, Busy, At, Looping
<1>7. ProcInv' /\ Alone'
  BY <1>1, <1>2, <1>6, BusyStep DEF megapot
<1>8. EpochInv' /\ FlightInv'
  <2>1. Ahead(p)'
    BY <1>2, <1>3, <1>4, <1>5 DEF Ahead, Done
  <2>. QED  BY <1>3, <2>1 DEF EpochInv, FlightInv, RolloverInv, PausedOnlyAround, Due
<1>. QED  BY <1>7, <1>8 DEF RolloverInv

(* A failure while a process waits sends it back to the poll.              *)
LEMMA PollAgain ==
  ASSUME Inv, RolloverInv, NEW p \in Processes, Looping(p),
         me[p].pc \in {"poll", "look", "resume", "cache", "cacherow", "clear", "clearrow"},
         Goto(p, "poll"), UNCHANGED <<megapot, solana, round>>
  PROVE  RolloverInv'
<1>. USE DEF megapot, solana
<1>1. ~Quiet(p) /\ Busy(p) /\ Due(me[p].round)
  BY AtStage DEF Quiet, RolloverInv
<1>2. /\ me'[p].pc = "poll" /\ me'[p].mode = me[p].mode /\ me'[p].round = me[p].round
      /\ \A q \in Processes : q # p => me'[q] = me[q]
  BY Moved DEF Stages
<1>3. (me[p].round = round /\ Awaiting) \/ (me[p].round < drawing /\ Done)
  BY <1>1 DEF Busy, At, Looping
<1>4. ProcOK(p)'
  BY <1>1, <1>2, <1>3 DEF ProcOK, Due, Busy, At, Looping, Awaiting, Calm, Done, Pending
<1>5. Pending(round) \/ Ahead(p)'
  <2>1. CASE Ahead(p)
    BY <1>2, <2>1 DEF Ahead, Pending
  <2>2. CASE ~Ahead(p)
    BY <1>1, <2>2, Current DEF RolloverInv
  <2>. QED  BY <2>1, <2>2
<1>. QED  BY <1>1, <1>2, <1>4, <1>5, BusyFrame

(* A failed or unconfirmed pause is verified, and one that did not happen  *)
(* gives the lock back.                                                    *)
LEMMA GiveUp ==
  ASSUME Inv, RolloverInv, NEW p \in Processes, ~Quiet(p),
         me[p].pc \notin {"poll", "look", "resume", "cache"} \/ me[p].mode = "refill",
         NEW s \in {"verify", "unlock", "idle"}, Goto(p, s),
         s = "unlock" => Looping(p),
         s = "verify" => Owns(p) /\ me[p].mode = "loop",
         UNCHANGED <<megapot, solana, round>>
  PROVE  RolloverInv'
<1>. USE DEF megapot, solana
<1>1. Busy(p) /\ Due(me[p].round)
  BY AtStage DEF RolloverInv
<1>2. Pending(round)
  BY Current DEF Ahead, RolloverInv
<1>3. s \in Stages
  BY DEF Stages
<1>4. CASE s = "idle"
  <2>1. Quiet(p)' /\ me'[p].round = 0 /\ me'[p].mode = "loop"
        /\ \A q \in Processes : q # p => me'[q] = me[q]
    BY <1>3, <1>4, Moved DEF Quiet
  <2>2. ProcOK(p)'
    BY <2>1, Numbers, TransitionConstants DEF ProcOK, Due, Looping, Drawings
  <2>. QED  BY <1>2, <2>1, <2>2, BusyFrame
<1>5. CASE s # "idle"
  <2>1. /\ me'[p].pc = s /\ me'[p].mode = me[p].mode /\ me'[p].round = me[p].round
        /\ \A q \in Processes : q # p => me'[q] = me[q]
    BY <1>3, <1>5, Moved
  <2>2. ProcOK(p)'
    BY <1>1, <1>5, <2>1 DEF ProcOK, Due, Busy, At, Looping, Owns
  <2>. QED  BY <1>2, <2>1, <2>2, BusyFrame
<1>. QED  BY <1>4, <1>5

(* A pause is sent for the cached round, heard of or not.                  *)
LEMMA PauseSent ==
  ASSUME Inv, RolloverInv, NEW p \in Processes, At(p, "pause"),
         AcceptsPause, NEW x \in Ids, pauses' = pauses \cup {x},
         me' \in [Processes -> Locals],
         \A q \in Processes : q # p => me'[q] = me[q],
         me'[p].mode = me[p].mode, me'[p].round = me[p].round, me'[p].got = me[p].got,
         \/ me'[p].pc = "verify" /\ me[p].mode = "loop"
         \/ me'[p].pc = "confirm" /\ me'[p].sent = x /\ Calm,
         UNCHANGED <<drawing, due, chain, resumes, round>>
  PROVE  RolloverInv'
<1>1. ~Quiet(p) /\ ~Ahead(p) /\ Busy(p) /\ Due(me[p].round)
      /\ (~Looping(p) => p \in Servers /\ me[p].round = 0)
  BY AtStage DEF Quiet, Ahead, RolloverInv, At
<1>2. Pending(round)
  BY <1>1, Current DEF RolloverInv
<1>3. resumes = {} /\ chain.epoch = round
  BY <1>2 DEF Pending, AcceptsPause
<1>4. Owns(p) /\ me[p].mode # "verified"
  BY <1>1 DEF Busy, At
<1>5. Due(round)
  BY <1>1, <1>3, <1>4 DEF Owns, Behind, Due
<1>6. ProcOK(p)'
  <2>1. Owns(p)'
    BY <1>4 DEF Owns, Behind, Looping
  <2>2. Busy(p)'
    <3>1. CASE me'[p].pc = "verify" /\ me[p].mode = "loop"
      BY <2>1, <3>1 DEF Busy, At
    <3>2. CASE me'[p].pc = "confirm" /\ me'[p].sent = x /\ Calm
      <4>1. pauses' \subseteq {me'[p].sent} /\ pauses' # {}
        BY <3>2 DEF Calm
      <4>2. resumes' = {}
        BY <1>3
      <4>. QED  BY <1>4, <2>1, <3>2, <4>1, <4>2 DEF Busy, At
    <3>. QED  BY <3>1, <3>2
  <2>. QED  BY <1>1, <2>2 DEF ProcOK, Due, Looping
<1>7. ProcInv' /\ Alone'
  BY <1>1, <1>6, BusyStep DEF megapot
<1>8. EpochInv' /\ FlightInv'
  BY <1>2, <1>3, <1>5
     DEF EpochInv, FlightInv, RolloverInv, Pending, PausedOnlyAround, Due, AcceptsPause
<1>. QED  BY <1>7, <1>8 DEF RolloverInv

(* Sending the pause: the preflight refuses a paused program.              *)
LEMMA SendPauseRollover ==
  ASSUME Inv, RolloverInv, Orderly, NEW p \in Processes, SendPause(p)
  PROVE  RolloverInv'
<1>1. At(p, "pause") /\ Calm /\ ~Quiet(p) /\ Busy(p)
      /\ UNCHANGED <<drawing, due, chain, resumes, round, lock>>
  BY AtStage DEF SendPause, Settled, Orderly, Calm, Quiet, At, RolloverInv, megapot, caches
<1>2. CASE AcceptsPause
  <2>1. PICK x \in Ids :
          /\ pauses' = pauses \cup {x}
          /\ me' = [me EXCEPT ![p].pc = "confirm", ![p].sent = x]
    BY <1>2 DEF SendPause
  <2>. DEFINE l == [me[p] EXCEPT !.pc = "confirm", !.sent = x]
  <2>2. me' = [me EXCEPT ![p] = l]
    BY <2>1
  <2>3. me'[p] = l /\ \A q \in Processes : q # p => me'[q] = me[q]
    BY <2>2, Placed
  <2>4. l \in Locals /\ l.pc = "confirm" /\ l.sent = x /\ l.mode = me[p].mode
        /\ l.round = me[p].round /\ l.got = me[p].got
    BY Frame DEF Locals, Stages
  <2>5. me' \in [Processes -> Locals]
    BY <2>2, <2>4, Frame
  <2>. HIDE DEF l
  <2>. QED  BY <1>1, <1>2, <2>1, <2>3, <2>4, <2>5, PauseSent
<1>3. CASE ~AcceptsPause
  <2>1. Goto(p, Catch(p)) /\ UNCHANGED <<megapot, solana, round>>
    BY <1>3 DEF SendPause, solana, caches
  <2>2. Owns(p) /\ me[p].mode = "loop"
    BY <1>1, <1>3 DEF Busy, At, AcceptsPause, Owns, Looping
  <2>3. Catch(p) = "verify"
    BY <1>1, <2>2 DEF Catch, At
  <2>. QED  BY <1>1, <2>1, <2>2, <2>3, GiveUp DEF At
<1>. QED  BY <1>2, <1>3

(* Sending the resume: refused only when the program runs again already.   *)
LEMMA SendResumeRollover ==
  ASSUME Inv, RolloverInv, NEW p \in Processes, SendResume(p)
  PROVE  RolloverInv'
<1>1. At(p, "resume") /\ ~Quiet(p) /\ Busy(p)
      /\ UNCHANGED <<drawing, due, chain, pauses, round, lock>>
  BY AtStage DEF SendResume, Quiet, At, RolloverInv, megapot, caches
<1>2. CASE AcceptsResume(me[p].got)
  BY <1>1, <1>2, ResumeSent DEF SendResume
<1>3. CASE ~AcceptsResume(me[p].got)
  <2>1. Goto(p, Catch(p)) /\ UNCHANGED <<megapot, solana, round>>
    BY <1>1, <1>3 DEF SendResume, megapot, solana
  <2>2. Looping(p)
    BY <1>1, <1>3, Numbers DEF Busy, At, Behind, Awaiting, AcceptsResume
  <2>3. Catch(p) = "poll"
    BY <1>1, <2>2 DEF Catch, At, Looping
  <2>. QED  BY <1>1, <2>1, <2>2, <2>3, PollAgain DEF At
<1>. QED  BY <1>2, <1>3

(* A call that fails, its transaction sent or not.                         *)
LEMMA ThrowRollover ==
  ASSUME Inv, RolloverInv, Orderly, NEW p \in Processes, Throw(p)
  PROVE  RolloverInv'
<1>1. UNCHANGED <<drawing, due, chain, round, lock>>
  BY DEF Throw, megapot, caches
<1>2. Goto(p, IF At(p, "backfill") THEN "idle" ELSE Catch(p))
  BY DEF Throw
<1>3. me[p].mode = "boot" => At(p, "backfill")
  BY DEF Throw, Orderly
<1>4. Quiet(p) \/ Busy(p)
  BY AtStage DEF RolloverInv
<1>5. me[p].pc \in Stages \ {"idle", "down"} /\ me[p].mode \in {"loop", "verified", "boot", "refill"}
  BY Frame DEF Throw, Locals
<1>6. CASE UNCHANGED <<pauses, resumes>>
  <2>0. UNCHANGED <<megapot, solana, round>>
    BY <1>1, <1>6 DEF megapot, solana
  <2>1. CASE Quiet(p)
    <3>1. Goto(p, "idle")
      BY <1>2, <1>5, <2>1 DEF Quiet, Catch, At
    <3>2. Quiet(p)' /\ me'[p].round = 0 /\ \A q \in Processes : q # p => me'[q] = me[q]
      BY <3>1, Moved DEF Quiet, Stages
    <3>3. Due(me'[p].round)
      BY <3>2, Numbers, TransitionConstants DEF Due, Drawings
    <3>. QED  BY <1>1, <2>0, <2>1, <3>2, <3>3, QuietStep
  <2>2. CASE ~Quiet(p) /\ ~Looping(p)
    <3>1. me[p].mode = "refill" \/ At(p, "backfill")
      BY <1>3, <1>5, <2>2 DEF Looping
    <3>2. Goto(p, "idle")
      BY <1>2, <3>1 DEF Catch
    <3>. QED  BY <2>0, <2>2, <3>1, <3>2, GiveUp DEF At
  <2>3. CASE ~Quiet(p) /\ Looping(p)
    <3>1. Busy(p)
      BY <1>4, <2>3
    <3>2. me[p].pc \notin {"boot", "backfill", "lock"}
      BY <2>3, <3>1 DEF Busy, At, Looping
    <3>3. Goto(p, Catch(p))
      BY <1>2, <3>2 DEF At
    <3>4. CASE me[p].pc \in {"poll", "look", "resume", "cache", "cacherow", "clear", "clearrow"}
      <4>1. Catch(p) = "poll"
        BY <2>3, <3>4 DEF Catch, At, Looping
      <4>. QED  BY <2>0, <2>3, <3>3, <3>4, <4>1, PollAgain
    <3>5. CASE me[p].pc \in {"pause", "confirm", "mark", "markrow", "verify"}
      <4>1. CASE me[p].mode = "verified" \/ At(p, "verify")
        <5>1. Catch(p) = "unlock"
          BY <2>3, <3>5, <4>1 DEF Catch, At, Looping
        <5>. QED  BY <2>0, <2>3, <3>3, <3>5, <5>1, GiveUp
      <4>2. CASE ~(me[p].mode = "verified" \/ At(p, "verify"))
        <5>1. Catch(p) = "verify"
          BY <2>3, <3>5, <4>2 DEF Catch, At, Looping
        <5>2. Owns(p) /\ me[p].mode = "loop"
          BY <2>3, <3>1, <3>5, <4>2 DEF Busy, At, Looping
        <5>. QED  BY <2>0, <2>3, <3>3, <3>5, <5>1, <5>2, GiveUp
      <4>. QED  BY <4>1, <4>2
    <3>6. CASE At(p, "unlock")
      <4>1. Catch(p) = "idle"
        BY <2>3, <3>6 DEF Catch, At, Looping
      <4>. QED  BY <2>0, <2>3, <3>3, <3>6, <4>1, GiveUp DEF At
    <3>. QED  BY <1>5, <3>2, <3>4, <3>5, <3>6 DEF Stages, At
  <2>. QED  BY <2>1, <2>2, <2>3
<1>7. CASE /\ At(p, "pause") /\ AcceptsPause
           /\ \E x \in Ids \ pauses : pauses' = pauses \cup {x}
           /\ UNCHANGED resumes
  <2>1. Busy(p)
    BY <1>4, <1>7 DEF Quiet, At
  <2>2. me[p].mode = "loop" /\ Catch(p) = "verify"
    <3>1. me[p].mode # "boot"
      BY <1>3, <1>7 DEF At
    <3>2. me[p].mode = "loop"
      BY <1>7, <2>1, <3>1 DEF Busy, At, Owns, Looping
    <3>. QED  BY <1>7, <3>2 DEF Catch, At
  <2>3. Goto(p, "verify")
    BY <1>2, <1>7, <2>2 DEF At
  <2>4. /\ me'[p].pc = "verify" /\ me'[p].mode = me[p].mode /\ me'[p].round = me[p].round
        /\ me'[p].got = me[p].got /\ \A q \in Processes : q # p => me'[q] = me[q]
    BY <2>3, Moved DEF Stages
  <2>5. me' \in [Processes -> Locals]
    BY <2>3, GotoType DEF Stages
  <2>. QED  BY <1>1, <1>7, <2>2, <2>4, <2>5, PauseSent
<1>8. CASE /\ At(p, "resume") /\ AcceptsResume(me[p].got)
           /\ resumes' = resumes \cup {me[p].got} /\ UNCHANGED pauses
  <2>1. me[p].mode # "boot" /\ Busy(p)
    BY <1>3, <1>4, <1>8 DEF Quiet, At
  <2>2. Looping(p)
    BY <1>8, <2>1 DEF Busy, At
  <2>3. Catch(p) = "poll"
    BY <1>8, <2>2 DEF Catch, At, Looping
  <2>4. Goto(p, "poll")
    BY <1>2, <1>8, <2>3 DEF At
  <2>. QED  BY <1>1, <1>8, <2>1, <2>4, ResumeSent
<1>. QED  BY <1>6, <1>7, <1>8 DEF Throw

-----------------------------------------------------------------------------
(* Caching the round the program runs or is about to run.                  *)
LEMMA CacheStepRollover ==
  ASSUME Inv, RolloverInv, NEW p \in Processes, Cache(p)
  PROVE  RolloverInv'
<1>1. ~Quiet(p) /\ Busy(p) /\ Due(me[p].round)
      /\ (~Looping(p) => p \in Servers /\ me[p].round = 0)
  BY AtStage DEF Cache, Quiet, At, RolloverInv
<1>2. me[p].round < drawing /\ me[p].got = drawing /\ Done
  BY <1>1 DEF Cache, Busy, At
<1>3. round' = drawing /\ UNCHANGED <<drawing, due, chain, pauses, resumes>>
  BY <1>2 DEF Cache, megapot, solana
<1>. DEFINE l == [me[p] EXCEPT !.pc = "cacherow", !.flag = key]
<1>4. me' = [me EXCEPT ![p] = l]
  BY DEF Cache
<1>5. me'[p] = l /\ \A q \in Processes : q # p => me'[q] = me[q]
  BY <1>4, Placed
<1>6. l.pc = "cacherow" /\ l.mode = me[p].mode /\ l.round = me[p].round
  BY Frame DEF Locals
<1>. HIDE DEF l
<1>7. ProcOK(p)'
  BY <1>1, <1>2, <1>3, <1>5, <1>6 DEF ProcOK, Due, Busy, At, Looping, Done, Pending
<1>8. ProcInv' /\ Alone'
  BY <1>1, <1>3, <1>5, <1>7, BusyStep DEF megapot
<1>9. EpochInv' /\ FlightInv'
  BY <1>2, <1>3, Numbers, TransitionConstants
     DEF EpochInv, FlightInv, RolloverInv, Done, Pending, PausedOnlyAround, Due, Drawings
<1>. QED  BY <1>8, <1>9 DEF RolloverInv

(* Clearing the flag and giving the lock back.                             *)
LEMMA ClearRollover ==
  ASSUME Inv, RolloverInv, NEW p \in Processes,
         CacheRow(p) \/ Clear(p) \/ ClearRow(p) \/ Unlock(p)
  PROVE  RolloverInv'
<1>0. UNCHANGED <<megapot, solana, round>>
  BY DEF CacheRow, Clear, ClearRow, Unlock, caches
<1>1. me[p].pc \in {"cacherow", "clear", "clearrow", "unlock"}
  BY DEF CacheRow, Clear, ClearRow, Unlock, At
<1>2. ~Quiet(p) /\ ~Ahead(p) /\ Busy(p) /\ Due(me[p].round)
      /\ (~Looping(p) => p \in Servers /\ me[p].round = 0)
  BY <1>1, AtStage DEF Quiet, Ahead, RolloverInv
<1>3. Pending(round)
  BY <1>2, Current DEF RolloverInv
<1>4. CASE (CacheRow(p) /\ me[p].mode = "refill") \/ (Unlock(p) /\ me[p].mode # "boot")
  <2>1. Goto(p, "idle")
    BY <1>4 DEF CacheRow, Unlock, Goto
  <2>. QED  BY <1>0, <1>1, <1>2, <2>1, GiveUp
<1>5. CASE (CacheRow(p) /\ me[p].mode # "refill") \/ Clear(p) \/ ClearRow(p)
  <2>1. me[p].mode # "refill" /\ me[p].round < drawing /\ round = drawing /\ Done
    BY <1>2, <1>5 DEF CacheRow, Clear, ClearRow, Busy, At
  <2>2. PICK s \in {"clear", "clearrow", "unlock"} : Goto(p, s)
    BY <1>5 DEF CacheRow, Clear, ClearRow
  <2>3. /\ me'[p].pc = s /\ me'[p].mode = me[p].mode /\ me'[p].round = me[p].round
        /\ \A q \in Processes : q # p => me'[q] = me[q]
    BY <2>2, Moved DEF Stages
  <2>4. ProcOK(p)'
    BY <1>0, <1>2, <2>1, <2>3
       DEF ProcOK, Due, Busy, At, Looping, Done, Pending, megapot, solana
  <2>. QED  BY <1>0, <1>2, <1>3, <2>3, <2>4, BusyFrame
<1>6. CASE Unlock(p) /\ me[p].mode = "boot"
  <2>1. round = drawing /\ Done
    BY <1>2, <1>6 DEF Unlock, Busy, At
  <2>2. Goto(p, "backfill")
    BY <1>6 DEF Unlock
  <2>3. /\ me'[p].pc = "backfill" /\ me'[p].mode = me[p].mode /\ me'[p].round = me[p].round
        /\ \A q \in Processes : q # p => me'[q] = me[q]
    BY <2>2, Moved DEF Stages
  <2>4. ProcOK(p)'
    BY <1>0, <1>2, <1>6, <2>1, <2>3
       DEF ProcOK, Due, Busy, At, Looping, Done, Pending, megapot, solana
  <2>. QED  BY <1>0, <1>2, <1>3, <2>3, <2>4, BusyFrame
<1>. QED  BY <1>4, <1>5, <1>6

-----------------------------------------------------------------------------
(* While the lock is free, only a boot can be at work.                     *)
LEMMA FreeLock ==
  ASSUME Inv, HolderInv, RolloverInv, lock = Nobody, NEW q \in Processes, ~Quiet(q)
  PROVE  ~Looping(q)
<1> SUFFICES ASSUME Looping(q) PROVE FALSE
  OBVIOUS
<1>1. Busy(q)
  BY AtStage DEF RolloverInv
<1>2. Holding(q)
  BY <1>1 DEF Busy, At, Looping, Holding
<1>. QED  BY <1>2, TransitionConstants DEF HolderInv

(* When all are quiet, one may begin.                                      *)
LEMMA Begin ==
  ASSUME Inv, RolloverInv, \A q \in Processes : Quiet(q), NEW p \in Processes,
         \A q \in Processes : q # p => me'[q] = me[q],
         UNCHANGED <<megapot, solana, round>>, ProcOK(p)'
  PROVE  RolloverInv'
<1>. USE DEF megapot, solana
<1>1. ASSUME NEW q \in Processes, q # p PROVE ProcOK(q)' /\ Quiet(q)'
  <2>1. Quiet(q) /\ Due(me[q].round)
    BY AtStage DEF RolloverInv
  <2>. QED  BY <1>1, <2>1 DEF ProcOK, Quiet, Looping, Due
<1>2. ProcInv' /\ Alone'
  BY <1>1 DEF ProcInv, Alone
<1>3. EpochInv' /\ FlightInv'
  <2>1. Pending(round)
    BY DEF RolloverInv, EpochInv, Ahead, Quiet
  <2>. QED  BY <2>1 DEF EpochInv, FlightInv, RolloverInv, Pending, PausedOnlyAround, Due
<1>. QED  BY <1>2, <1>3 DEF RolloverInv

(* Taking the lock: a loop only for the round it checked, a boot for the   *)
(* epoch it read.                                                          *)
LEMMA AcquireRollover ==
  ASSUME Inv, HolderInv, RolloverInv, Orderly, NEW p \in Processes, Acquire(p)
  PROVE  RolloverInv'
<1>0. UNCHANGED <<megapot, solana, round>>
  BY DEF Acquire, caches
<1>1. At(p, "lock") /\ Due(me[p].round) /\ (~Looping(p) => p \in Servers /\ me[p].round = 0)
  BY AtStage DEF Acquire, RolloverInv
<1>2. CASE Quiet(p) /\ (lock # Nobody \/ Overtaken(p))
  <2>1. Goto(p, "idle") /\ UNCHANGED lock
    BY <1>2 DEF Acquire, Orderly, Quiet
  <2>2. Quiet(p)' /\ me'[p].round = 0 /\ \A q \in Processes : q # p => me'[q] = me[q]
    BY <2>1, Moved DEF Quiet, Stages
  <2>3. Due(me'[p].round)
    BY <2>2, Numbers, TransitionConstants DEF Due, Drawings
  <2>. QED  BY <1>0, <1>2, <2>1, <2>2, <2>3, QuietStep
<1>3. CASE Quiet(p) /\ lock = Nobody /\ ~Overtaken(p)
  <2>1. Goto(p, "pause") /\ \A q \in Processes : Looping(q)
    BY <1>3 DEF Acquire, Orderly, Quiet, Looping
  <2>2. \A q \in Processes : Quiet(q)
    BY <1>3, <2>1, FreeLock
  <2>3. me[p].mode = "loop" /\ me[p].round = round
    BY <1>3 DEF Quiet, Overtaken
  <2>4. /\ me'[p].pc = "pause" /\ me'[p].mode = me[p].mode /\ me'[p].round = me[p].round
        /\ \A q \in Processes : q # p => me'[q] = me[q]
    BY <2>1, Moved DEF Stages
  <2>5. ProcOK(p)'
    BY <1>0, <1>1, <2>3, <2>4 DEF ProcOK, Due, Busy, At, Owns, Looping, megapot
  <2>. QED  BY <1>0, <2>2, <2>4, <2>5, Begin
<1>4. CASE ~Quiet(p)
  <2>1. Busy(p) /\ ~Ahead(p)
    BY <1>1, <1>4, AtStage DEF RolloverInv, Ahead, At
  <2>2. Pending(round)
    BY <1>4, <2>1, Current DEF RolloverInv
  <2>3. me[p].mode = "boot" /\ lock = Nobody /\ Calm /\ Behind(p) /\ me[p].flag = chain.paused
    BY <1>1, <2>1 DEF Busy, At
  <2>. DEFINE s == IF me[p].flag THEN "resume" ELSE "pause"
  <2>4. Goto(p, s)
    BY <2>3 DEF Acquire, Overtaken
  <2>5. /\ me'[p].pc = s /\ me'[p].mode = me[p].mode /\ me'[p].round = me[p].round
        /\ me'[p].got = me[p].got /\ \A q \in Processes : q # p => me'[q] = me[q]
    BY <2>4, Moved DEF Stages
  <2>6. ProcOK(p)'
    <3>1. CASE chain.paused
      <4>1. Awaiting
        BY <2>2, <2>3, <3>1 DEF Awaiting, Calm, Pending
      <4>. QED  BY <1>0, <1>1, <2>3, <2>5, <3>1, <4>1
                DEF ProcOK, Due, Busy, At, Behind, Looping, Awaiting, Calm, megapot, solana
    <3>2. CASE ~chain.paused
      BY <1>0, <1>1, <2>3, <2>5, <3>2
         DEF ProcOK, Due, Busy, At, Owns, Behind, Looping, Calm, megapot, solana
    <3>. QED  BY <3>1, <3>2
  <2>. QED  BY <1>0, <1>4, <2>2, <2>5, <2>6, BusyFrame
<1>. QED  BY <1>2, <1>3, <1>4

(* A boot reads the program, and once it has caught up it goes on to cache *)
(* the round.                                                              *)
LEMMA BootRollover ==
  ASSUME Inv, RolloverInv, Orderly, NEW p \in Processes, BootRead(p) \/ Backfill(p)
  PROVE  RolloverInv'
<1>0. UNCHANGED <<megapot, solana, round, lock>>
  BY DEF BootRead, Backfill, caches
<1>1. ~Quiet(p) /\ ~Ahead(p) /\ Busy(p)
  BY AtStage DEF BootRead, Backfill, Quiet, Ahead, At, RolloverInv
<1>2. Pending(round)
  BY <1>1, Current DEF RolloverInv
<1>3. me[p].mode = "boot" /\ p \in Servers
  <2>1. me[p].mode = "boot"
    BY <1>1 DEF BootRead, Backfill, Busy, At
  <2>. QED  BY <2>1, AtStage DEF Looping, RolloverInv
<1>4. 0 < drawing
  BY Numbers, TransitionConstants DEF Drawings
<1>5. CASE BootRead(p)
  <2>1. Calm /\ lock = Nobody /\ chain.epoch = round
    BY <1>1, <1>2, <1>5 DEF BootRead, Settled, Orderly, Calm, Busy, At, Pending
  <2>. DEFINE s == IF chain.epoch >= drawing THEN "backfill" ELSE "lock"
  <2>2. me'[p] = Start(s, "boot", 0, drawing, chain.paused)
        /\ \A q \in Processes : q # p => me'[q] = me[q]
    BY <1>5, Placed DEF BootRead
  <2>3. me'[p].pc = s /\ me'[p].mode = "boot" /\ me'[p].round = 0 /\ me'[p].got = drawing
        /\ me'[p].flag = chain.paused
    BY <2>2 DEF Start
  <2>4. ProcOK(p)'
    <3>1. CASE chain.epoch >= drawing
      <4>1. round = drawing /\ Done
        BY <2>1, <3>1, Numbers DEF Done, Calm, Pending
      <4>. QED  BY <1>0, <1>3, <1>4, <2>3, <3>1, <4>1
                DEF ProcOK, Due, Busy, At, Looping, Done, Pending, megapot, solana
    <3>2. CASE ~(chain.epoch >= drawing)
      <4>1. chain.epoch < drawing
        BY <3>2, Numbers
      <4>. QED  BY <1>0, <1>3, <1>4, <2>1, <2>3, <3>2, <4>1
                DEF ProcOK, Due, Busy, At, Looping, Behind, Calm, megapot, solana
    <3>. QED  BY <3>1, <3>2
  <2>. QED  BY <1>0, <1>1, <1>2, <2>2, <2>4, BusyFrame
<1>6. CASE Backfill(p)
  <2>1. round = drawing /\ Done
    BY <1>1, <1>6 DEF Backfill, Busy, At
  <2>2. me'[p] = Start("cache", "refill", 0, drawing, FALSE)
        /\ \A q \in Processes : q # p => me'[q] = me[q]
    BY <1>6, Placed DEF Backfill
  <2>3. me'[p].pc = "cache" /\ me'[p].mode = "refill" /\ me'[p].round = 0 /\ me'[p].got = drawing
    BY <2>2 DEF Start
  <2>4. ProcOK(p)'
    BY <1>0, <1>3, <1>4, <2>1, <2>3
       DEF ProcOK, Due, Busy, At, Looping, Done, Pending, megapot, solana
  <2>. QED  BY <1>0, <1>1, <1>2, <2>2, <2>4, BusyFrame
<1>. QED  BY <1>5, <1>6

(* The due-check, a stop outside a transition and a restart; Redis always  *)
(* has a round.                                                            *)
LEMMA EnterRollover ==
  ASSUME Inv, HolderInv, RolloverInv, Orderly, NEW p \in Processes,
         Check(p) \/ Rebuild(p) \/ Crash(p) \/ Restart(p)
  PROVE  RolloverInv'
<1>0. UNCHANGED <<megapot, solana, round, lock>>
  BY DEF Check, Rebuild, Crash, Restart, RolloverInv, EpochInv, caches
<1>1. Quiet(p) \/ Busy(p)
  BY AtStage DEF RolloverInv
<1>2. Due(0)
  BY Numbers, TransitionConstants DEF Due, Drawings
<1>3. CASE Rebuild(p)
  BY <1>3 DEF Rebuild, RolloverInv, EpochInv
<1>4. CASE Check(p)
  <2>1. me'[p] = Start("lock", "loop", round, 0, FALSE)
        /\ \A q \in Processes : q # p => me'[q] = me[q]
    BY <1>4, Placed DEF Check
  <2>2. me'[p].pc = "lock" /\ me'[p].mode = "loop" /\ me'[p].round = round
    BY <2>1 DEF Start
  <2>3. Quiet(p) /\ Due(round)
    BY <1>1, <1>4 DEF Check, Busy, At
  <2>. QED  BY <1>0, <2>1, <2>2, <2>3, QuietStep DEF Quiet
<1>5. CASE Crash(p)
  <2>1. me'[p] = Start("down", "loop", 0, 0, FALSE)
        /\ \A q \in Processes : q # p => me'[q] = me[q]
    BY <1>5, Placed DEF Crash
  <2>2. me'[p].pc = "down" /\ me'[p].mode = "loop" /\ me'[p].round = 0
    BY <2>1 DEF Start
  <2>3. CASE Quiet(p)
    BY <1>0, <1>2, <2>1, <2>2, <2>3, QuietStep DEF Quiet
  <2>4. CASE ~Quiet(p)
    <3>1. ~Holding(p)
      BY <1>5 DEF Crash, Orderly
    <3>2. ~Ahead(p)
      BY <3>1 DEF Ahead, Holding
    <3>3. Pending(round)
      BY <2>4, <3>2, Current DEF RolloverInv
    <3>4. ProcOK(p)'
      BY <1>0, <1>2, <2>2 DEF ProcOK, Due, Quiet, Looping, megapot
    <3>. QED  BY <1>0, <2>1, <2>4, <3>3, <3>4, BusyFrame
  <2>. QED  BY <2>3, <2>4
<1>6. CASE Restart(p)
  <2>1. Quiet(p) /\ lock = Nobody
    BY <1>1, <1>6 DEF Restart, Orderly, Busy, At
  <2>2. CASE p \notin Servers
    <3>1. me'[p] = Idle /\ \A q \in Processes : q # p => me'[q] = me[q]
      BY <1>6, <2>2, Placed DEF Restart
    <3>2. me'[p].pc = "idle" /\ me'[p].mode = "loop" /\ me'[p].round = 0
      BY <3>1 DEF Idle, Start
    <3>. QED  BY <1>0, <1>2, <2>1, <3>1, <3>2, QuietStep DEF Quiet
  <2>3. CASE p \in Servers
    <3>1. me'[p] = Start("boot", "boot", 0, 0, FALSE)
          /\ \A q \in Processes : q # p => me'[q] = me[q]
      BY <1>6, <2>3, Placed DEF Restart
    <3>2. me'[p].pc = "boot" /\ me'[p].mode = "boot" /\ me'[p].round = 0
      BY <3>1 DEF Start
    <3>3. ASSUME NEW q \in Processes, ~Quiet(q) PROVE FALSE
      <4>1. q \in Servers
        BY <2>1, <3>3, FreeLock, AtStage DEF RolloverInv
      <4>. QED  BY <2>1, <2>3, <3>3, <4>1 DEF Orderly
    <3>4. ProcOK(p)'
      BY <1>0, <1>2, <2>1, <2>3, <3>2 DEF ProcOK, Due, Busy, At, Looping, megapot
    <3>. QED  BY <1>0, <3>1, <3>3, <3>4, Begin
  <2>. QED  BY <2>2, <2>3
<1>. QED  BY <1>3, <1>4, <1>5, <1>6

(* Every step keeps the invariant of the rollover.                         *)
LEMMA RolloverStep ==
  Orderly /\ Inv /\ HolderInv /\ RolloverInv /\ [Next]_vars => RolloverInv'
<1> SUFFICES ASSUME Orderly, Inv, HolderInv, RolloverInv, [Next]_vars PROVE RolloverInv'
  OBVIOUS
<1>1. CASE BecomeDue \/ Rollover
  BY <1>1, MegapotRollover
<1>2. CASE Land
  BY <1>2, LandPauseRollover, LandResumeRollover DEF Land
<1>3. CASE Drop
  BY <1>3 DEF Drop, Orderly
<1>4. CASE LockExpires \/ RedisWipe \/ Sync \/ SyncFails \/ UNCHANGED vars
  BY <1>4, CacheRollover DEF Orderly
<1>5. ASSUME NEW p \in Processes, Check(p) \/ Run(p) \/ Throw(p) \/ Crash(p) PROVE RolloverInv'
  BY <1>5, PausedRollover, WaitRollover, SendPauseRollover, SendResumeRollover, ThrowRollover,
     CacheStepRollover, ClearRollover, AcquireRollover, BootRollover, EnterRollover DEF Run
<1>. QED  BY <1>1, <1>2, <1>3, <1>4, <1>5 DEF Next

(* In an orderly environment the program is paused around a rollover and   *)
(* at no other time, whatever throws and whoever else checks.              *)
THEOREM PauseIsTimely == ASSUME Orderly PROVE Spec => []PausedOnlyAround
<1>1. Init => HolderInv
  BY DEF Init, HolderInv, Holding, Idle, Start
<1>2. Inv /\ HolderInv /\ [Next]_vars => HolderInv'
  BY HolderStep DEF Orderly
<1>3. Inv /\ HolderInv /\ RolloverInv /\ [Next]_vars => RolloverInv'
  BY RolloverStep
<1>4. Inv /\ RolloverInv => PausedOnlyAround
  BY RolloverGives
<1>. QED  BY <1>1, <1>2, <1>3, <1>4, InitInv, InitRollover, StepInv, PTL DEF Spec

(* There too, a paused program is never left alone: a resume is on its     *)
(* way, a process is at it, or the cached round makes the heartbeat begin. *)
THEOREM ResumeIsComing == ASSUME Orderly PROVE Spec => []SomeoneResumes
<1>1. Init => HolderInv
  BY DEF Init, HolderInv, Holding, Idle, Start
<1>2. Inv /\ HolderInv /\ [Next]_vars => HolderInv'
  BY HolderStep DEF Orderly
<1>3. Inv /\ HolderInv /\ RolloverInv /\ [Next]_vars => RolloverInv'
  BY RolloverStep
<1>4. Inv /\ RolloverInv => SomeoneResumes
  BY RolloverGives
<1>. QED  BY <1>1, <1>2, <1>3, <1>4, InitInv, InitRollover, StepInv, PTL DEF Spec
=============================================================================
