--------------------------- MODULE EpochTransition ---------------------------
(***************************************************************************)
(* The rollover from one Megapot drawing to the next                       *)
(* (services/megapotService.ts): pause the Solana program shortly before   *)
(* the drawing ends, wait until Megapot has opened the next one, resume    *)
(* with its number, cache the new round and clear the pause flag.  The API *)
(* and the cron process both run it, one at a time by a Redis lock; the    *)
(* API also catches the program up when it boots.  The cron tick copies    *)
(* the program's pause flag into the two caches whenever they differ.      *)
(*                                                                         *)
(* FreshReads, TxSettles, CleanStops and RedisKeeps are facts about the    *)
(* environment; the code enforces none of them.                            *)
(***************************************************************************)
EXTENDS Naturals

CONSTANTS
    Processes,  \* backend processes that run transitions
    Servers,    \* those that run startSync when they boot: the API
    Nobody,     \* the lock is free
    MaxDrawing, \* bound: Megapot's drawings are 1..MaxDrawing
    Ids,        \* names of pause transactions in flight
    NoTx,       \* none was sent
    MaxFaults,  \* bound: throws, crashes, dropped transactions, Redis wipes
    FreshReads, \* environment: a due-check a newer round overtakes before the
                \* lock is taken is made again, and no catching up spans a rollover
    TxSettles,  \* environment: a transaction sent lands, and before the next
                \* pause is sent or verified or a boot reads the program
    CleanStops, \* environment: no process stops in the middle of a transition,
                \* no boot overlaps one and no boot's catch-up fails
    RedisKeeps  \* environment: Redis does not lose its data

ASSUME TransitionConstants ==
    /\ Servers \subseteq Processes /\ Nobody \notin Processes /\ NoTx \notin Ids
    /\ MaxDrawing \in Nat \ {0} /\ MaxFaults \in Nat
    /\ {FreshReads, TxSettles, CleanStops, RedisKeeps} \subseteq BOOLEAN

VARIABLES
    drawing,  \* Megapot's active round
    due,      \* its cached end is less than PRE_EMPTIVE_BUFFER_MS away
    chain,    \* LordsPotState: is_lords_pot_paused and ongoing_epoch
    pauses,   \* pause transactions in flight
    resumes,  \* epochs of the resume transactions in flight
    round,    \* CACHE_KEY in Redis: the cached round, 0 when there is none
    key,      \* PAUSE_KEY in Redis
    row,      \* ProtocolState.isPaused
    lock,     \* TRANSITION_LOCK_KEY in Redis
    me,       \* each process: where it stands, and its locals
    sync,     \* the cron tick's syncPauseStateFromChain
    faults    \* faults so far

vars == <<drawing, due, chain, pauses, resumes, round, key, row, lock, me, sync, faults>>
megapot == <<drawing, due>>
solana == <<chain, pauses, resumes>>
flags == <<key, row>>
caches == <<round, key, row>>

Drawings == 1..MaxDrawing
(* The locals of a process that starts at a stage.                         *)
Start(stage, mode, r, got, flag) ==
    [pc |-> stage, mode |-> mode, round |-> r, got |-> got, flag |-> flag, sent |-> NoTx]
Idle == Start("idle", "loop", 0, 0, FALSE)

Init ==
    /\ drawing = 1 /\ due = FALSE
    /\ chain = [paused |-> FALSE, epoch |-> 1]
    /\ pauses = {} /\ resumes = {}
    /\ round = 1 /\ key = FALSE /\ row = FALSE
    /\ lock = Nobody
    /\ me = [p \in Processes |-> Idle]
    /\ sync = [pc |-> "idle", paused |-> FALSE]
    /\ faults = 0

At(p, stage) == me[p].pc = stage

Fault == faults < MaxFaults /\ faults' = faults + 1

(* A transition is due for a cached round whose end is near or past.       *)
Due(r) == r < drawing \/ (r = drawing /\ due)

Settled == TxSettles => pauses = {} /\ resumes = {}

(* isProtocolPaused: either store says so. *)
Cached == key \/ row

(***************************************************************************)
(* Megapot and the Solana program.                                         *)
(***************************************************************************)
BecomeDue ==
    /\ ~due /\ drawing < MaxDrawing
    /\ due' = TRUE
    /\ UNCHANGED <<drawing, solana, caches, lock, me, sync, faults>>

(* A process that has seen, or is about to see, the active round.          *)
CatchingUp(p) ==
    \/ me[p].mode \in {"boot", "refill"}
    \/ /\ me[p].round < drawing
       /\ me[p].pc \in {"poll", "look", "resume", "cache", "cacherow", "clear", "clearrow"}

Rollover ==
    /\ due
    /\ FreshReads => \A p \in Processes : ~CatchingUp(p)
    /\ drawing' = drawing + 1 /\ due' = FALSE
    /\ UNCHANGED <<solana, caches, lock, me, sync, faults>>

(* pause_protocol's and resume_protocol's account constraints. *)
AcceptsPause == ~chain.paused
AcceptsResume(e) == chain.paused /\ e > chain.epoch

LandPause(x) ==
    /\ x \in pauses
    /\ pauses' = pauses \ {x}
    /\ chain' = IF AcceptsPause THEN [chain EXCEPT !.paused = TRUE] ELSE chain
    /\ UNCHANGED <<megapot, resumes, caches, lock, me, sync, faults>>

LandResume(e) ==
    /\ e \in resumes
    /\ resumes' = resumes \ {e}
    /\ chain' = IF AcceptsResume(e) THEN [paused |-> FALSE, epoch |-> e] ELSE chain
    /\ UNCHANGED <<megapot, pauses, caches, lock, me, sync, faults>>

(***************************************************************************)
(* transitionLoop: due-check, lock, pause.                                 *)
(***************************************************************************)
Rest(p) == me' = [me EXCEPT ![p] = Idle]
Goto(p, stage) == IF stage = "idle" THEN Rest(p) ELSE me' = [me EXCEPT ![p].pc = stage]

(* Mutant: a late timer starts without the due-check. *)
CheckUndue(p) ==
    /\ At(p, "idle") /\ round # 0
    /\ me' = [me EXCEPT ![p] = Start("lock", "loop", round, 0, FALSE)]
    /\ UNCHANGED <<megapot, solana, caches, lock, sync, faults>>

(* The timer or the heartbeat fires; before the round is due it does nothing. *)
Check(p) ==
    /\ At(p, "idle") /\ round # 0 /\ Due(round)
    /\ me' = [me EXCEPT ![p] = Start("lock", "loop", round, 0, FALSE)]
    /\ UNCHANGED <<megapot, solana, caches, lock, sync, faults>>

(* Redis has no round: the timer's run fetches one before it checks again. *)
Rebuild(p) ==
    /\ At(p, "idle") /\ round = 0
    /\ me' = [me EXCEPT ![p] = Start("cache", "refill", 0, drawing, FALSE)]
    /\ UNCHANGED <<megapot, solana, caches, lock, sync, faults>>

(* Another process has cached a round since the due-check. *)
Overtaken(p) == me[p].mode = "loop" /\ me[p].round # round

(* Mutant: SET without NX. *)
AcquireAlways(p) ==
    /\ At(p, "lock")
    /\ lock' = p
    /\ Goto(p, IF me[p].mode = "boot" /\ me[p].flag THEN "resume" ELSE "pause")
    /\ UNCHANGED <<megapot, solana, caches, sync, faults>>

(* SET NX; the loser leaves the work to the holder.  A boot that read a    *)
(* paused program goes straight on to the resume.                          *)
Acquire(p) ==
    /\ At(p, "lock")
    /\ CleanStops => me[p].mode = "boot" \/ \A q \in Processes : me[q].mode \in {"loop", "verified"}
    /\ IF lock # Nobody \/ (FreshReads /\ Overtaken(p))
       THEN /\ Goto(p, IF me[p].mode = "boot" THEN "backfill" ELSE "idle")
            /\ UNCHANGED lock
       ELSE /\ lock' = p
            /\ Goto(p, IF me[p].mode = "boot" /\ me[p].flag THEN "resume" ELSE "pause")
    /\ UNCHANGED <<megapot, solana, caches, sync, faults>>

(* Where an error leads: the loop verifies a failed pause, polls again     *)
(* after a failure while it waits and gives the lock back otherwise; a     *)
(* boot gives the lock back and goes on booting.                           *)
Catch(p) ==
    IF me[p].mode = "refill" THEN "idle"
    ELSE IF me[p].pc \in {"lock", "unlock", "boot"}
    THEN IF me[p].mode = "boot" THEN "backfill" ELSE "idle"
    ELSE IF me[p].mode = "boot" THEN "unlock"
    ELSE IF me[p].pc \notin {"pause", "confirm", "mark", "markrow", "verify"} THEN "poll"
    ELSE IF me[p].mode = "verified" \/ At(p, "verify") THEN "unlock"
    ELSE "verify"

Drop ==
    /\ ~TxSettles /\ Fault
    /\ \/ \E e \in resumes : resumes' = resumes \ {e} /\ UNCHANGED <<pauses, me>>
       \/ \E x \in pauses :
            /\ pauses' = pauses \ {x}
            /\ me' = [p \in Processes |->
                        IF At(p, "confirm") /\ me[p].sent = x
                        THEN [me[p] EXCEPT !.pc = Catch(p)] ELSE me[p]]
            /\ UNCHANGED resumes
    /\ UNCHANGED <<megapot, chain, caches, lock, sync>>

(* pauseProtocol: the preflight simulation refuses a paused program.       *)
SendPause(p) ==
    /\ At(p, "pause") /\ Settled
    /\ IF AcceptsPause
       THEN \E x \in Ids \ pauses :
              /\ pauses' = pauses \cup {x}
              /\ me' = [me EXCEPT ![p].pc = "confirm", ![p].sent = x]
       ELSE Goto(p, Catch(p)) /\ UNCHANGED pauses
    /\ UNCHANGED <<megapot, chain, resumes, caches, lock, sync, faults>>

ConfirmPause(p) ==
    /\ At(p, "confirm") /\ me[p].sent \notin pauses
    /\ Goto(p, "mark")
    /\ UNCHANGED <<megapot, solana, caches, lock, sync, faults>>

(* The pause failed: go on only if the program is paused all the same.     *)
Verify(p) ==
    /\ At(p, "verify") /\ Settled
    /\ me' = [me EXCEPT ![p].pc = IF chain.paused THEN "mark" ELSE "unlock",
                        ![p].mode = "verified"]
    /\ UNCHANGED <<megapot, solana, caches, lock, sync, faults>>

(* setPaused(true): first Redis, then the row. *)
Mark(p) ==
    /\ At(p, "mark")
    /\ key' = TRUE
    /\ Goto(p, "markrow")
    /\ UNCHANGED <<megapot, solana, round, row, lock, sync, faults>>

MarkRow(p) ==
    /\ At(p, "markrow")
    /\ row' = TRUE
    /\ Goto(p, IF me[p].mode = "boot" THEN "resume" ELSE "poll")
    /\ UNCHANGED <<megapot, solana, round, key, lock, sync, faults>>

(***************************************************************************)
(* Wait for the rollover, resume, cache the round, clear the flag.         *)
(***************************************************************************)
(* Mutant: the next number is computed, not waited for. *)
PollEager(p) ==
    /\ At(p, "poll")
    /\ me' = [me EXCEPT ![p].pc = "look", ![p].got = me[p].round + 1]
    /\ UNCHANGED <<megapot, solana, caches, lock, sync, faults>>

Poll(p) ==
    /\ At(p, "poll") /\ drawing > me[p].round
    /\ me' = [me EXCEPT ![p].pc = "look", ![p].got = drawing]
    /\ UNCHANGED <<megapot, solana, caches, lock, sync, faults>>

(* A program that runs already is taken for resumed: the epoch is not      *)
(* looked at.                                                              *)
Look(p) ==
    /\ At(p, "look")
    /\ Goto(p, IF chain.paused THEN "resume" ELSE "cache")
    /\ UNCHANGED <<megapot, solana, caches, lock, sync, faults>>

(* resumeAndTransitionEpoch: simulated, broadcast and not confirmed. *)
SendResume(p) ==
    /\ At(p, "resume")
    /\ IF AcceptsResume(me[p].got)
       THEN resumes' = resumes \cup {me[p].got} /\ Goto(p, "cache")
       ELSE Goto(p, Catch(p)) /\ UNCHANGED resumes
    /\ UNCHANGED <<megapot, chain, pauses, caches, lock, sync, faults>>

(* processActiveRound: the round goes to Redis, the flag read before to    *)
(* the row.                                                                *)
Cache(p) ==
    /\ At(p, "cache")
    /\ round' = me[p].got
    /\ me' = [me EXCEPT ![p].pc = "cacherow", ![p].flag = key]
    /\ UNCHANGED <<megapot, solana, flags, lock, sync, faults>>

CacheRow(p) ==
    /\ At(p, "cacherow")
    /\ row' = me[p].flag
    /\ IF me[p].mode = "refill" THEN Rest(p) ELSE Goto(p, "clear")
    /\ UNCHANGED <<megapot, solana, round, key, lock, sync, faults>>

(* setPaused(false) *)
Clear(p) ==
    /\ At(p, "clear")
    /\ key' = FALSE
    /\ Goto(p, "clearrow")
    /\ UNCHANGED <<megapot, solana, round, row, lock, sync, faults>>

ClearRow(p) ==
    /\ At(p, "clearrow")
    /\ row' = FALSE
    /\ Goto(p, "unlock")
    /\ UNCHANGED <<megapot, solana, round, key, lock, sync, faults>>

(* DEL, whoever holds it. *)
Unlock(p) ==
    /\ At(p, "unlock")
    /\ lock' = Nobody
    /\ IF me[p].mode = "boot" THEN Goto(p, "backfill") ELSE Rest(p)
    /\ UNCHANGED <<megapot, solana, caches, sync, faults>>

(***************************************************************************)
(* startSync: catch the program up, then cache the round Megapot lists.    *)
(***************************************************************************)
BootRead(p) ==
    /\ At(p, "boot") /\ Settled
    /\ me' = [me EXCEPT ![p] =
                Start(IF chain.epoch >= drawing THEN "backfill" ELSE "lock",
                      "boot", 0, drawing, chain.paused)]
    /\ UNCHANGED <<megapot, solana, caches, lock, sync, faults>>

Backfill(p) ==
    /\ At(p, "backfill")
    /\ me' = [me EXCEPT ![p] = Start("cache", "refill", 0, drawing, FALSE)]
    /\ UNCHANGED <<megapot, solana, caches, lock, sync, faults>>

(***************************************************************************)
(* Failures.                                                               *)
(***************************************************************************)
Holding(p) ==
    me[p].pc \in {"pause", "confirm", "verify", "mark", "markrow", "poll", "look",
                  "resume", "clear", "clearrow", "unlock"}
    \/ (me[p].pc \in {"cache", "cacherow"} /\ me[p].mode # "refill")

(* Mutant: a failed resume counts as sent. *)
ThrowSwallowed(p) ==
    /\ Fault
    /\ me[p].pc \notin {"idle", "down"}
    /\ Goto(p, IF At(p, "resume") THEN "cache" ELSE Catch(p))
    /\ UNCHANGED <<megapot, solana, caches, lock, sync>>

(* A call fails; a transaction may have been sent all the same.            *)
Throw(p) ==
    /\ Fault
    /\ me[p].pc \notin {"idle", "down"}
    /\ CleanStops => me[p].mode # "boot" \/ At(p, "backfill")
    /\ Goto(p, IF At(p, "backfill") THEN "idle" ELSE Catch(p))
    /\ \/ UNCHANGED <<pauses, resumes>>
       \/ /\ At(p, "pause") /\ AcceptsPause
          /\ \E x \in Ids \ pauses : pauses' = pauses \cup {x}
          /\ UNCHANGED resumes
       \/ /\ At(p, "resume") /\ AcceptsResume(me[p].got)
          /\ resumes' = resumes \cup {me[p].got} /\ UNCHANGED pauses
    /\ UNCHANGED <<megapot, chain, caches, lock, sync>>

Crash(p) ==
    /\ Fault
    /\ ~At(p, "down")
    /\ CleanStops => ~Holding(p)
    /\ me' = [me EXCEPT ![p] = Start("down", "loop", 0, 0, FALSE)]
    /\ UNCHANGED <<megapot, solana, caches, lock, sync>>

Restart(p) ==
    /\ At(p, "down")
    /\ CleanStops => lock = Nobody
    /\ me' = [me EXCEPT ![p] = IF p \in Servers
                               THEN Start("boot", "boot", 0, 0, FALSE) ELSE Idle]
    /\ UNCHANGED <<megapot, solana, caches, lock, sync, faults>>

(* Mutant: SET without EX. *)
LockNeverExpires == FALSE /\ UNCHANGED vars

(* The wait loop renews the lock; one nobody renews runs out.              *)
LockExpires ==
    /\ lock \in Processes /\ ~Holding(lock)
    /\ lock' = Nobody
    /\ UNCHANGED <<megapot, solana, caches, me, sync, faults>>

RedisWipe ==
    /\ ~RedisKeeps /\ Fault
    /\ round' = 0 /\ key' = FALSE /\ lock' = Nobody
    /\ UNCHANGED <<megapot, solana, row, me, sync>>

(***************************************************************************)
(* syncPauseStateFromChain in the cron tick.                               *)
(***************************************************************************)
SyncRead ==
    /\ sync.pc = "idle"
    /\ sync' = [pc |-> "compare", paused |-> chain.paused]
    /\ UNCHANGED <<megapot, solana, caches, lock, me, faults>>

(* Mutant: Redis alone is compared. *)
SyncCompareKey ==
    /\ sync.pc = "compare"
    /\ sync' = [sync EXCEPT !.pc = IF sync.paused = key THEN "idle" ELSE "key"]
    /\ UNCHANGED <<megapot, solana, caches, lock, me, faults>>

SyncCompare ==
    /\ sync.pc = "compare"
    /\ sync' = [sync EXCEPT !.pc = IF sync.paused = Cached THEN "idle" ELSE "key"]
    /\ UNCHANGED <<megapot, solana, caches, lock, me, faults>>

SyncKey ==
    /\ sync.pc = "key"
    /\ key' = sync.paused
    /\ sync' = [sync EXCEPT !.pc = "row"]
    /\ UNCHANGED <<megapot, solana, round, row, lock, me, faults>>

SyncRow ==
    /\ sync.pc = "row"
    /\ row' = sync.paused
    /\ sync' = [sync EXCEPT !.pc = "idle"]
    /\ UNCHANGED <<megapot, solana, round, key, lock, me, faults>>

SyncFails ==
    /\ Fault
    /\ sync.pc # "idle"
    /\ sync' = [sync EXCEPT !.pc = "idle"]
    /\ UNCHANGED <<megapot, solana, caches, lock, me>>

-----------------------------------------------------------------------------
Sync == SyncRead \/ SyncCompare \/ SyncKey \/ SyncRow

Run(p) ==
    \/ SendPause(p) \/ ConfirmPause(p) \/ Verify(p) \/ Mark(p) \/ MarkRow(p)
    \/ Poll(p) \/ Look(p) \/ SendResume(p) \/ Cache(p) \/ CacheRow(p)
    \/ Clear(p) \/ ClearRow(p) \/ Unlock(p)
    \/ Acquire(p) \/ Rebuild(p) \/ BootRead(p) \/ Backfill(p) \/ Restart(p)

Land == (\E x \in Ids : LandPause(x)) \/ (\E e \in Drawings : LandResume(e))

Next ==
    \/ BecomeDue \/ Rollover \/ Land \/ Drop \/ LockExpires \/ RedisWipe
    \/ Sync \/ SyncFails
    \/ \E p \in Processes : Check(p) \/ Run(p) \/ Throw(p) \/ Crash(p)

Spec == Init /\ [][Next]_vars

(* The heartbeat checks every two minutes, awaits return, processes are    *)
(* restarted, locks run out, transactions land and drawings end.           *)
LiveSpec ==
    /\ Spec
    /\ \A p \in Processes : WF_vars(Run(p))
    /\ WF_vars(\E p \in Processes : Check(p) /\ lock = Nobody)
    /\ WF_vars(LockExpires) /\ WF_vars(Land) /\ WF_vars(Sync)
    /\ WF_vars(BecomeDue) /\ WF_vars(Rollover)

-----------------------------------------------------------------------------
Stages == {"idle", "lock", "pause", "confirm", "verify", "mark", "markrow", "poll", "look",
           "resume", "cache", "cacherow", "clear", "clearrow", "unlock", "down", "boot", "backfill"}
Locals == [pc : Stages, mode : {"loop", "verified", "boot", "refill"},
           round : 0..MaxDrawing, got : 0..MaxDrawing, flag : BOOLEAN, sent : Ids \cup {NoTx}]

(* What every variable holds; a stage misspelt anywhere would stop a       *)
(* transition half way.                                                    *)
TypeOK ==
    /\ drawing \in Drawings /\ due \in BOOLEAN
    /\ chain \in [paused : BOOLEAN, epoch : Drawings]
    /\ pauses \subseteq Ids /\ resumes \subseteq Drawings
    /\ round \in 0..MaxDrawing /\ key \in BOOLEAN /\ row \in BOOLEAN
    /\ lock \in Processes \cup {Nobody}
    /\ me \in [Processes -> Locals]
    /\ sync \in [pc : {"idle", "compare", "key", "row"}, paused : BOOLEAN]
    /\ faults \in 0..MaxFaults

(* Buyers are never given a drawing Megapot has not opened: the program's  *)
(* epoch, and every resume on its way, is at most Megapot's.               *)
EpochNeverAhead == \A e \in resumes \cup {chain.epoch} : e <= drawing

(* The program is paused around a rollover and at no other time: a pause   *)
(* in the middle of a drawing could not be lifted before its end, since    *)
(* resume_protocol takes a larger epoch only.                              *)
PausedOnlyAround == chain.paused => Due(chain.epoch)

(* A paused program is never left alone: a resume is on its way, a process *)
(* is at it, or the cached round still makes the heartbeat start one.      *)
SomeoneResumes ==
    chain.paused =>
        resumes # {} \/ round = 0 \/ Due(round) \/ \E p \in Processes : ~At(p, "idle")

(* One process at a time is between the lock and its release.              *)
OneTransition ==
    \A p, q \in Processes : Holding(p) /\ Holding(q) => p = q

(* In the end the program sells tickets of Megapot's last drawing.         *)
EpochCatchesUp ==
    <>[](drawing = MaxDrawing /\ chain = [paused |-> FALSE, epoch |-> MaxDrawing])

(* However the writes of the two flag stores interleave, the cron tick     *)
(* makes them agree with the program again.                                *)
CacheHeals == []<>(Cached = chain.paused)
=============================================================================
