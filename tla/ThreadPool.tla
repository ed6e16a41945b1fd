----------------------------- MODULE ThreadPool -----------------------------
(***************************************************************************)
(* The thread pool (sm-thread.h, sm-thread.cpp): runners take a thread out *)
(* of the pool's bitmap, hand it a task, wait for it and give it back; the *)
(* threads idle between tasks, asleep or spinning.  Without a pool every   *)
(* runner gets a new thread and destroys it afterwards.                    *)
(*                                                                         *)
(*   threadpool  config::threadpool                                        *)
(*   bitmap      PerNodeThreadPool::bitmap, the busy threads               *)
(*   state, task, sleep_when_idle, shutdown   fields of Thread             *)
(*   tpc         where the thread is in IdleTask                           *)
(*   me, rpc, b  Runner::me, where the runner is, and the bitmap it read   *)
(*   starts, runs  history: tasks a runner has started, runs of its tasks  *)
(***************************************************************************)
EXTENDS Integers, FiniteSets

CONSTANTS Threads, Runners,
          Physical,     \* threads with is_physical; runners ask for these
          MaxStarts     \* bound: tasks a runner starts

VARIABLES threadpool, bitmap, state, task, sleep_when_idle, shutdown, tpc,
          me, rpc, b, starts, runs

thread == <<state, task, sleep_when_idle, shutdown, tpc>>
runner == <<me, rpc, b>>
history == <<threadpool, starts, runs>>
vars == <<bitmap, thread, runner, history>>

None == "none"

TypeOK ==
    /\ threadpool \in BOOLEAN
    /\ bitmap \subseteq Threads
    /\ state \in [Threads -> {"NoWork", "HasWork", "Sleep"}]
    /\ task \in [Threads -> Runners \cup {None}]
    /\ sleep_when_idle \in [Threads -> BOOLEAN]
    /\ shutdown \in [Threads -> BOOLEAN]
    /\ tpc \in [Threads -> {"top", "run", "done", "doze", "wait", "waiting", "woken", "spin",
                            "ended"}]
    /\ me \in [Runners -> Threads \cup {None}]
    /\ rpc \in [Runners -> {"idle", "cas", "got", "start", "wake", "notify", "work", "started",
                            "joined"}]
    /\ b \in [Runners -> SUBSET Threads]
    /\ starts \in [Runners -> 0..MaxStarts] /\ runs \in [Runners -> Nat]

Init ==
    /\ threadpool \in BOOLEAN
    /\ bitmap = {}
    /\ state = [t \in Threads |-> "NoWork"]
    /\ task = [t \in Threads |-> None]
    /\ sleep_when_idle = [t \in Threads |-> TRUE]
    /\ shutdown = [t \in Threads |-> FALSE]
    /\ tpc = [t \in Threads |-> "top"]
    /\ me = [r \in Runners |-> None]
    /\ rpc = [r \in Runners |-> "idle"]
    /\ b = [r \in Runners |-> {}]
    /\ starts = [r \in Runners |-> 0] /\ runs = [r \in Runners |-> 0]
-----------------------------------------------------------------------------
(* IdleTask, the life of a thread.                                         *)

TGoto(t, p) == tpc' = [tpc EXCEPT ![t] = p]
SetState(t, s) == state' = [state EXCEPT ![t] = s]

check(t) ==
    /\ tpc[t] = "top"
    /\ TGoto(t, CASE shutdown[t] -> "ended"
                  [] state[t] = "HasWork" -> "run"
                  [] OTHER -> "doze")
    /\ UNCHANGED <<bitmap, state, task, sleep_when_idle, shutdown, runner, history>>

run(t) ==
    /\ tpc[t] = "run"
    /\ runs' = [runs EXCEPT ![task[t]] = @ + 1]
    /\ TGoto(t, "done")
    /\ UNCHANGED <<bitmap, state, task, sleep_when_idle, shutdown, runner, threadpool, starts>>

done(t) ==
    /\ tpc[t] = "done"
    /\ SetState(t, "NoWork")
    /\ TGoto(t, "doze")
    /\ UNCHANGED <<bitmap, task, sleep_when_idle, shutdown, runner, history>>

doze(t) ==
    /\ tpc[t] = "doze"
    /\ IF sleep_when_idle[t] /\ state[t] = "NoWork"
       THEN SetState(t, "Sleep") /\ TGoto(t, "wait")
       ELSE TGoto(t, "top") /\ UNCHANGED state
    /\ UNCHANGED <<bitmap, task, sleep_when_idle, shutdown, runner, history>>

\* trigger.wait(lock); it may also wake up spuriously.
wait(t) ==
    /\ \/ tpc[t] = "wait" /\ TGoto(t, "waiting")
       \/ tpc[t] = "waiting" /\ TGoto(t, "woken")
    /\ UNCHANGED <<bitmap, state, task, sleep_when_idle, shutdown, runner, history>>

woken(t) ==
    /\ tpc[t] = "woken"
    /\ SetState(t, "NoWork")
    /\ TGoto(t, "spin")
    /\ UNCHANGED <<bitmap, task, sleep_when_idle, shutdown, runner, history>>

spin(t) ==
    /\ tpc[t] = "spin" /\ (state[t] = "HasWork" \/ shutdown[t])
    /\ TGoto(t, "top")
    /\ UNCHANGED <<bitmap, state, task, sleep_when_idle, shutdown, runner, history>>
-----------------------------------------------------------------------------
(* Runner: TryImpersonate, Start, Wait, Join.                              *)

RGoto(r, p) == rpc' = [rpc EXCEPT ![r] = p]
Wakes(t) == tpc' = IF tpc[t] = "waiting" THEN [tpc EXCEPT ![t] = "woken"] ELSE tpc

\* GetThread reads the bitmap, or makes a new thread.
GetThread(r) ==
    /\ rpc[r] = "idle" /\ starts[r] < MaxStarts
    /\ b' = [b EXCEPT ![r] = bitmap]
    /\ \/ threadpool /\ RGoto(r, "cas") /\ UNCHANGED <<me, bitmap>>
       \/ /\ ~threadpool
          /\ \E t \in Threads \ bitmap :
               me' = [me EXCEPT ![r] = t] /\ bitmap' = bitmap \cup {t}
          /\ RGoto(r, "got")
    /\ UNCHANGED <<thread, history>>

\* The compare-and-swap claims a free thread of the right type, or retries.
\* Which free thread is the first one depends on the machine.
Claim(r) ==
    /\ rpc[r] = "cas"
    /\ IF Physical \ b[r] = {}
       THEN RGoto(r, "idle") /\ UNCHANGED <<bitmap, me, b>>
       ELSE IF bitmap # b[r]
       THEN b' = [b EXCEPT ![r] = bitmap] /\ UNCHANGED <<rpc, bitmap, me>>
       ELSE \E t \in Physical \ b[r] :
              /\ bitmap' = bitmap \cup {t}
              /\ me' = [me EXCEPT ![r] = t]
              /\ RGoto(r, "got")
              /\ UNCHANGED b
    /\ UNCHANGED <<thread, history>>

\* TryImpersonate sets sleep_when_idle; Start stores the task ...
Start(r) ==
    /\ rpc[r] \in {"got", "joined"} /\ starts[r] < MaxStarts
    /\ \E s \in IF rpc[r] = "got" THEN BOOLEAN ELSE {sleep_when_idle[me[r]]} :
         sleep_when_idle' = [sleep_when_idle EXCEPT ![me[r]] = s]
    /\ task' = [task EXCEPT ![me[r]] = r]
    /\ starts' = [starts EXCEPT ![r] = @ + 1]
    /\ RGoto(r, "start")
    /\ UNCHANGED <<bitmap, state, shutdown, tpc, me, b, threadpool, runs>>

\* Mutant: the state of a sleeping thread is overwritten, and it overwrites
\* it when it wakes up.
StartTask_asleep(r) ==
    /\ rpc[r] = "start"
    /\ IF state[me[r]] # "HasWork"
       THEN SetState(me[r], "HasWork") /\ RGoto(r, "started")
       ELSE RGoto(r, "wake") /\ UNCHANGED state
    /\ UNCHANGED <<bitmap, task, sleep_when_idle, shutdown, tpc, me, b, history>>

\* ... and moves the thread from NoWork to HasWork, or wakes it up first.
StartTask(r) ==
    /\ rpc[r] = "start"
    /\ IF state[me[r]] = "NoWork"
       THEN SetState(me[r], "HasWork") /\ RGoto(r, "started")
       ELSE RGoto(r, "wake") /\ UNCHANGED state
    /\ UNCHANGED <<bitmap, task, sleep_when_idle, shutdown, tpc, me, b, history>>

\* Mutant: the sleeping thread is not notified.
Wake_silent(r) ==
    /\ \/ rpc[r] = "wake" /\ UNCHANGED tpc
          /\ RGoto(r, IF state[me[r]] = "NoWork" THEN "work" ELSE "notify")
       \/ rpc[r] = "notify" /\ UNCHANGED tpc /\ RGoto(r, "wake")
    /\ UNCHANGED <<bitmap, state, task, sleep_when_idle, shutdown, me, b, history>>

Wake(r) ==
    /\ \/ rpc[r] = "wake" /\ UNCHANGED tpc
          /\ RGoto(r, IF state[me[r]] = "NoWork" THEN "work" ELSE "notify")
       \/ rpc[r] = "notify" /\ Wakes(me[r]) /\ RGoto(r, "wake")
    /\ UNCHANGED <<bitmap, state, task, sleep_when_idle, shutdown, me, b, history>>

Work(r) ==
    /\ rpc[r] = "work"
    /\ SetState(me[r], "HasWork")
    /\ RGoto(r, "started")
    /\ UNCHANGED <<bitmap, task, sleep_when_idle, shutdown, tpc, me, b, history>>

\* Wait: the task is over.
Join(r) ==
    /\ rpc[r] = "started" /\ state[me[r]] # "HasWork"
    /\ RGoto(r, "joined")
    /\ UNCHANGED <<bitmap, thread, me, b, history>>

\* PutThread: back to the pool, or Destroy.
PutThread(r) ==
    /\ rpc[r] = "joined"
    /\ IF threadpool
       THEN bitmap' = bitmap \ {me[r]} /\ UNCHANGED <<shutdown, tpc>>
       ELSE shutdown' = [shutdown EXCEPT ![me[r]] = TRUE] /\ Wakes(me[r]) /\ UNCHANGED bitmap
    /\ me' = [me EXCEPT ![r] = None]
    /\ RGoto(r, "idle")
    /\ UNCHANGED <<state, task, sleep_when_idle, b, history>>

Idle(t) == check(t) \/ run(t) \/ done(t) \/ doze(t) \/ wait(t) \/ woken(t) \/ spin(t)
Runs(r) == Claim(r) \/ StartTask(r) \/ Wake(r) \/ Work(r) \/ Join(r)

Next ==
    \/ \E t \in Threads : Idle(t)
    \/ \E r \in Runners : Runs(r) \/ GetThread(r) \/ Start(r) \/ PutThread(r)

Spec == Init /\ [][Next]_vars

Awake(t) == check(t) \/ run(t) \/ done(t) \/ doze(t) \/ woken(t) \/ spin(t)
GoesToSleep(t) == wait(t) /\ tpc[t] = "wait"

\* The threads are pinned to cores of their own and run; so do the runners.
Fairness ==
    /\ \A t \in Threads : WF_vars(Awake(t)) /\ WF_vars(GoesToSleep(t))
    /\ \A r \in Runners : WF_vars(Runs(r))

FairSpec == Spec /\ Fairness
-----------------------------------------------------------------------------
\* A task runs exactly once between its Start and the end of its Join: no
\* start is lost on a thread that is falling asleep or waking up, and no stale
\* task runs again (StartTask and IdleTask, "No CC whatsoever").
TaskRunsOnce ==
    \A r \in Runners :
        /\ runs[r] <= starts[r]
        /\ rpc[r] \in {"joined", "idle", "cas", "got"} => runs[r] = starts[r]

\* A thread works for one runner at a time (GetThread, PutThread).
ThreadsNotShared ==
    \A r, s \in Runners : r # s /\ me[r] # None => me[r] # me[s]

\* StartTask's assertion: a thread that is given a task has none.
StartsIdleThread == \A r \in Runners : rpc[r] = "start" => state[me[r]] # "HasWork"

Started(r) == rpc[r] = "start"
Joined(r) == rpc[r] = "joined"

\* Every started task ends and is joined: no wake-up is lost for good.
TasksComplete == \A r \in Runners : Started(r) ~> Joined(r)

\* A task is run once, by a thread that has no other and no other runner.
PoolIsSound ==
    /\ TaskRunsOnce
    /\ ThreadsNotShared
    /\ StartsIdleThread
=============================================================================
