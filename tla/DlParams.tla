-------------------------------- MODULE DlParams --------------------------------
(***************************************************************************)
(* dl_util.c in the program: how the workers learn the budget and the        *)
(* deadline of their own reservation.  main() chooses a source in            *)
(* dl_params_init(); a worker reads it twice before the barrier, with no     *)
(* lock, and then in every rtq_pop_dl_nosync(), with the mutex of the queue; *)
(* main() closes the source after it has joined the workers.                 *)
(*                                                                         *)
(* The two numbers are abstracted to the worker they are of, if any.  The    *)
(* buffer of the /proc source is shared: it is the set of the workers whose  *)
(* text may be found in it, in whole or in parts.  Only the text of a worker *)
(* whose reservation the kernel has granted has the numbers.  The program    *)
(* pops feasible jobs.                                                       *)
(***************************************************************************)
EXTENDS Naturals, FiniteSets

CONSTANTS Worker,
          MaxReads,   \* bound: pops of a worker that read the source
          NONE,       \* -1: no type, nobody
          TORN        \* digits of several texts, which make nobody's number

\* Whose a number is that has been read.
Readable == Worker \cup {TORN}

ASSUME DlParamsAssumption == /\ MaxReads \in Nat
                             /\ TORN \notin Worker
                             /\ NONE \notin Readable \cup [deadline : Readable, guess : Worker]
                             /\ NONE \notin {"GETATTR", "KMOD", "PROC", "open", "closed"}

Types == {"AUTO", "GETATTR", "KMOD", "PROC"}

VARIABLES type,             \* the option --dl-params
          env,              \* what the system offers
          dlp_type, fd_dlparams, buf,
          dl_sync_delta_ns, \* the workers its two terms are from, or NONE
          main,             \* "init", "barrier", "join", "done" or "failed"
          pc, at,           \* the step of a worker, and the call of dl_params_get() it is in
          vals,             \* what it has read: a runtime and a deadline
          mutex, reads

dvars == <<type, env, dlp_type, fd_dlparams, buf, dl_sync_delta_ns, main,
           pc, at, vals, mutex, reads>>

source == <<type, env, dlp_type, fd_dlparams>>

Reading == {"open", "read", "runtime", "deadline", "synced"}   \* in dl_params_get()
Steps == {"boot", "barrier", "top", "exit"} \cup Reading

DlInit == /\ type \in Types
          /\ env \in [getattr : BOOLEAN, device : BOOLEAN, reserved : SUBSET Worker]
          /\ dlp_type = NONE /\ fd_dlparams = NONE /\ buf = {}
          /\ dl_sync_delta_ns = NONE /\ main = "init"
          /\ pc = [w \in Worker |-> "boot"]
          /\ at = [w \in Worker |-> "overhead"]
          /\ vals = [w \in Worker |-> [runtime |-> NONE, deadline |-> NONE]]
          /\ mutex = NONE
          /\ reads = [w \in Worker |-> 0]

Unread == UNCHANGED <<buf, dl_sync_delta_ns, pc, at, vals, mutex, reads>>

-------------------------------------------------------------------------------
(* main() *)

Selected(t, fd) == dlp_type' = t /\ fd_dlparams' = fd /\ main' = "barrier"

\* AUTO falls through the sources in order; the others take theirs or fail.  The
\* device is not used, and left open, if its descriptor is 0.
dl_params_init ==
    /\ main = "init"
    /\ \/ /\ type \in {"AUTO", "GETATTR"} /\ env.getattr
          /\ Selected("GETATTR", NONE)
       \/ /\ type = "KMOD" \/ (type = "AUTO" /\ ~env.getattr)
          /\ env.device
          /\ \/ Selected("KMOD", "open")
             \/ type = "AUTO" /\ Selected("PROC", "open")
             \/ /\ type = "KMOD"
                /\ main' = "failed" /\ fd_dlparams' = "open" /\ UNCHANGED dlp_type
       \/ /\ type = "PROC" \/ (type = "AUTO" /\ ~env.getattr /\ ~env.device)
          /\ Selected("PROC", NONE)
       \/ /\ (type = "GETATTR" /\ ~env.getattr) \/ (type = "KMOD" /\ ~env.device)
          /\ main' = "failed" /\ UNCHANGED <<dlp_type, fd_dlparams>>
    /\ UNCHANGED <<type, env>> /\ Unread

MainAtBarrier == /\ main = "barrier"
                 /\ main' = "join"
                 /\ UNCHANGED source /\ Unread

\* Faulty: the workers are not waited for.
CleanupAtOnce == /\ main = "join" /\ \A w \in Worker : at[w] = "pop"
                 /\ main' = "done"
                 /\ fd_dlparams' = IF dlp_type = "KMOD" THEN "closed" ELSE fd_dlparams
                 /\ UNCHANGED <<type, env, dlp_type>> /\ Unread

dl_params_cleanup == /\ main = "join" /\ \A w \in Worker : pc[w] = "exit"
                     /\ main' = "done"
                     /\ fd_dlparams' = IF dlp_type = "KMOD" THEN "closed" ELSE fd_dlparams
                     /\ UNCHANGED <<type, env, dlp_type>> /\ Unread

-------------------------------------------------------------------------------
(* A worker.  exit() in one thread ends them all. *)

Running == main \in {"barrier", "join", "done"}

Fails == /\ main' = "failed"
         /\ UNCHANGED source /\ Unread

\* The kernel may have refused the worker its reservation: it is told and goes on.
Boot(w) == /\ Running /\ pc[w] = "boot"
           /\ pc' = [pc EXCEPT ![w] = "open"]
           /\ UNCHANGED <<source, buf, dl_sync_delta_ns, main, at, vals, mutex, reads>>

\* dl_params_get() begins.  Two of the sources answer at once, for the caller.
\* For the third a file is opened, if it can be, and fread() begins to fill the buffer.
Open(w) ==
    /\ Running /\ pc[w] = "open"
    /\ \/ /\ dlp_type = "GETATTR" \/ (dlp_type = "KMOD" /\ fd_dlparams = "open")
          /\ vals' = [vals EXCEPT ![w] = [runtime |-> w, deadline |-> w]]
          /\ pc' = [pc EXCEPT ![w] = "synced"]
          /\ UNCHANGED <<source, buf, dl_sync_delta_ns, main, at, mutex, reads>>
       \/ /\ dlp_type = "PROC" \/ (dlp_type = "KMOD" /\ fd_dlparams # "open")
          /\ Fails
       \/ /\ dlp_type = "PROC"
          /\ buf' = buf \cup {w}
          /\ pc' = [pc EXCEPT ![w] = "read"]
          /\ UNCHANGED <<source, dl_sync_delta_ns, main, at, vals, mutex, reads>>

\* fread() ends, perhaps with nothing.  What others are still reading may be on top.
Read(w) == /\ Running /\ pc[w] = "read"
           /\ \/ Fails
              \/ /\ buf' = {w} \cup {v \in Worker : pc[v] = "read"}
                 /\ pc' = [pc EXCEPT ![w] = "runtime"]
                 /\ UNCHANGED <<source, dl_sync_delta_ns, main, at, vals, mutex, reads>>

\* Whose number may be found in the buffer.
Found == LET granted == buf \cap env.reserved
         IN  granted \cup IF granted # {} /\ Cardinality(buf) > 1 THEN {TORN} ELSE {}

\* One number is searched in the buffer.  It may be missing: in the text of a
\* task without a reservation, or where two texts are mixed.
Parse(w, field, next) ==
    \/ /\ \E v \in Found : vals' = [vals EXCEPT ![w][field] = v]
       /\ pc' = [pc EXCEPT ![w] = next]
       /\ UNCHANGED <<source, buf, dl_sync_delta_ns, main, at, mutex, reads>>
    \/ /\ ~(buf \subseteq env.reserved) \/ Cardinality(buf) > 1
       /\ Fails

ParseRuntime(w) == /\ Running /\ pc[w] = "runtime"
                   /\ Parse(w, "runtime", "deadline")

ParseDeadline(w) == /\ Running /\ pc[w] = "deadline"
                    /\ Parse(w, "deadline", "synced")

\* dl_params_get() has returned.  The first call is only timed.  The second is
\* that of dl_sync(), which compares the deadline with the worker's own clock.
\* The others are those of pops, and the pop ends by releasing the mutex.
Use(w) ==
    /\ Running /\ pc[w] = "synced"
    /\ \/ /\ at[w] = "overhead"
          /\ at' = [at EXCEPT ![w] = "sync"] /\ pc' = [pc EXCEPT ![w] = "open"]
          /\ UNCHANGED <<dl_sync_delta_ns, mutex>>
       \/ /\ at[w] = "sync"
          /\ dl_sync_delta_ns' = [deadline |-> vals[w].deadline, guess |-> w]
          /\ at' = [at EXCEPT ![w] = "pop"] /\ pc' = [pc EXCEPT ![w] = "barrier"]
          /\ UNCHANGED mutex
       \/ /\ at[w] = "pop"
          /\ mutex' = NONE /\ pc' = [pc EXCEPT ![w] = "top"]
          /\ UNCHANGED <<dl_sync_delta_ns, at>>
    /\ UNCHANGED <<source, buf, main, vals, reads>>

\* Faulty: nobody is waited for.
LeaveAtOnce(w) == /\ Running /\ pc[w] = "barrier"
                  /\ pc' = [pc EXCEPT ![w] = "top"]
                  /\ UNCHANGED <<source, buf, dl_sync_delta_ns, main, at, vals, mutex, reads>>

LeaveBarrier(w) == /\ Running /\ pc[w] = "barrier"
                   /\ main = "join" /\ \A v \in Worker : at[v] = "pop"
                   /\ pc' = [pc EXCEPT ![w] = "top"]
                   /\ UNCHANGED <<source, buf, dl_sync_delta_ns, main, at, vals, mutex, reads>>

\* Faulty: the mutex is not taken.
PopUnlocked(w) == /\ Running /\ pc[w] = "top"
                  /\ reads[w] < MaxReads /\ reads' = [reads EXCEPT ![w] = @ + 1]
                  /\ pc' = [pc EXCEPT ![w] = "open"]
                  /\ UNCHANGED <<source, buf, dl_sync_delta_ns, main, at, vals, mutex>>

\* rtq_pop() finds a job in the queue.
Pop(w) == /\ Running /\ pc[w] = "top" /\ mutex = NONE
          /\ reads[w] < MaxReads /\ reads' = [reads EXCEPT ![w] = @ + 1]
          /\ mutex' = w /\ pc' = [pc EXCEPT ![w] = "open"]
          /\ UNCHANGED <<source, buf, dl_sync_delta_ns, main, at, vals>>

\* The program ends; a worker leaves with a null pointer.
Exit(w) == /\ Running /\ pc[w] = "top" /\ mutex = NONE
           /\ pc' = [pc EXCEPT ![w] = "exit"]
           /\ UNCHANGED <<source, buf, dl_sync_delta_ns, main, at, vals, mutex, reads>>

WorkerStep(w) == \/ Boot(w) \/ Open(w) \/ Read(w) \/ ParseRuntime(w) \/ ParseDeadline(w)
                 \/ Use(w) \/ LeaveBarrier(w) \/ Pop(w) \/ Exit(w)

Ended == main \in {"done", "failed"} /\ UNCHANGED dvars

DlNext == dl_params_init \/ MainAtBarrier \/ dl_params_cleanup \/ Ended
          \/ \E w \in Worker : WorkerStep(w)

-------------------------------------------------------------------------------
DlTypeOK == /\ type \in Types
            /\ env \in [getattr : BOOLEAN, device : BOOLEAN, reserved : SUBSET Worker]
            /\ dlp_type \in {NONE, "GETATTR", "KMOD", "PROC"}
            /\ fd_dlparams \in {NONE, "open", "closed"} /\ buf \subseteq Worker
            /\ dl_sync_delta_ns \in {NONE} \cup [deadline : Readable, guess : Worker]
            /\ main \in {"init", "barrier", "join", "done", "failed"}
            /\ pc \in [Worker -> Steps]
            /\ at \in [Worker -> {"overhead", "sync", "pop"}]
            /\ vals \in [Worker -> [runtime : Readable \cup {NONE}, deadline : Readable \cup {NONE}]]
            /\ mutex \in Worker \cup {NONE}
            /\ reads \in [Worker -> 0 .. MaxReads]

\* Some worker has passed the barrier.
Past == \E w \in Worker : at[w] = "pop" /\ pc[w] # "barrier"

(* The inductive invariant behind the theorems, in named parts *)

\* Where main() is decides what is open.
SourceInv == /\ main = "init" => \A w \in Worker : pc[w] = "boot"
             /\ main = "init" => dlp_type = NONE
             /\ main \in {"barrier", "join"} /\ dlp_type = "KMOD" => fd_dlparams = "open"
             /\ main = "done" => \A w \in Worker : pc[w] = "exit"

\* The calls before the barrier and those after it do not overlap.
PhaseInv == /\ \A w \in Worker : /\ pc[w] = "boot" => at[w] = "overhead"
                                 /\ pc[w] \in {"barrier", "top", "exit"} => at[w] = "pop"
                                 /\ at[w] = "pop" => dl_sync_delta_ns # NONE
                                 /\ pc[w] \in {"read", "runtime", "deadline"} => dlp_type = "PROC"
                                 /\ pc[w] = "synced" => vals[w].deadline # NONE
            /\ Past => main # "init" /\ main # "barrier" /\ \A w \in Worker : at[w] = "pop"

\* After it, the worker that reads holds the mutex and has the buffer alone.
ReaderInv == \A w \in Worker :
                 /\ mutex = w <=> at[w] = "pop" /\ pc[w] \in Reading
                 /\ mutex = w /\ pc[w] \in {"runtime", "deadline"} => buf = {w}
                 /\ mutex = w /\ pc[w] \in {"deadline", "synced"} => vals[w].runtime = w
                 /\ mutex = w /\ pc[w] = "synced" => vals[w].deadline = w

\* A pop decides on the budget and the deadline of the worker that pops, although
\* all of them are searched in one buffer that is overwritten without a lock
\* before the barrier (dl_util.c:89-110, rtqueue.c:186-190).
PopsReadOwn ==
    \A w \in Worker : at[w] = "pop" /\ pc[w] = "synced"
                          => /\ vals[w] = [runtime |-> w, deadline |-> w]
                             /\ dl_sync_delta_ns # NONE

\* Every worker writes dl_sync_delta_ns, and the last one wins; but the pops of
\* the program all convert with the same value (dl_util.c:129, rtqueue.c:189).
DeltaSettled ==
    [][Past => dl_sync_delta_ns' = dl_sync_delta_ns]_dvars

\* What the theorems of DlStackProofs rest on.
DlInv == DlTypeOK /\ SourceInv /\ PhaseInv /\ ReaderInv

\* And no search of a text fails once the kernel has given every worker its
\* reservation: mixed texts are a matter of the time before the barrier.  What may
\* fail after it is the file of the worker that has the mutex, in fopen() or fread()
\* (dl_util.c:91-108, rtqueue.c:308, 371).
NoMixedTextAfterBarrier ==
    [][Past /\ env.reserved = Worker /\ dlp_type = "PROC" /\ main # "failed" /\ main' = "failed"
           => \E w \in Worker : mutex = w /\ pc[w] \in {"open", "read"}]_dvars
===============================================================================
