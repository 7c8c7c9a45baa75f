------------------------------ MODULE DlStackProofs ------------------------------
(***************************************************************************)
(* DlStack for any number of workers and of pops.                            *)
(*                                                                         *)
(* DlInv is about the program: once a worker has passed the barrier no       *)
(* worker is before it, so every reader holds the mutex, and so there is one *)
(* reader, who finds only its own text in the buffer it has just filled.     *)
(* DeviceInv is about the module: it has the references of the files that    *)
(* are open and were not opened too late, and none of them when its code is  *)
(* freed.  FileInv links the two.                                            *)
(***************************************************************************)
EXTENDS DlStack, FiniteSetTheorems, TLAPS

\* NONE differs from whatever it stands in for.
LEMMA Distinct ==
    /\ Worker \subseteq Readable /\ NONE \notin Readable
    /\ NONE \notin [deadline : Readable, guess : Worker]
    /\ NONE # "GETATTR" /\ NONE # "KMOD" /\ NONE # "PROC" /\ NONE # "open"
    /\ MaxReads \in Nat
BY DlParamsAssumption DEF Readable

LEMMA DlStarts == DlInit => DlInv
BY Distinct DEF DlInit, DlInv, DlTypeOK, SourceInv, PhaseInv, ReaderInv,
                Past, Types, Steps, Reading

-------------------------------------------------------------------------------
(* main() *)

LEMMA InitKeeps == ASSUME DlInv, dl_params_init PROVE DlInv'
<1> USE DEF dl_params_init, Selected, Unread, DlInv, Types
<1>1. DlTypeOK'
  BY DEF DlTypeOK
<1>2. /\ main = "init" /\ main' \in {"barrier", "failed"}
      /\ \A w \in Worker : pc'[w] = "boot"
      /\ dlp_type' = "KMOD" => fd_dlparams' = "open"
  BY Distinct DEF SourceInv
<1>3. SourceInv' /\ PhaseInv' /\ ReaderInv'
  BY <1>2 DEF SourceInv, PhaseInv, ReaderInv, Past
<1> QED BY <1>1, <1>3

LEMMA ArriveKeeps == ASSUME DlInv, MainAtBarrier PROVE DlInv'
BY DEF MainAtBarrier, Unread, source, DlInv, DlTypeOK, SourceInv, PhaseInv, ReaderInv, Past

LEMMA CleanupKeeps == ASSUME DlInv, dl_params_cleanup PROVE DlInv'
BY DEF dl_params_cleanup, Unread, DlInv, DlTypeOK, SourceInv, PhaseInv, ReaderInv, Past

-------------------------------------------------------------------------------
(* Workers *)

\* A worker that takes a step has been started, and main() has not returned.
LEMMA Started == ASSUME DlInv, NEW w \in Worker, Running, pc[w] # "exit"
                 PROVE  main \in {"barrier", "join"}
BY DEF DlInv, DlTypeOK, SourceInv, Running

\* A failure ends the program and disturbs nothing else.
LEMMA FailKeeps == ASSUME DlInv, Fails PROVE DlInv'
BY DEF Fails, Unread, source, DlInv, DlTypeOK, SourceInv, PhaseInv, ReaderInv, Past

LEMMA BootKeeps == ASSUME DlInv, NEW w \in Worker, Boot(w) PROVE DlInv'
<1>1. main \in {"barrier", "join"}
  BY Started DEF Boot
<1>2. DlTypeOK'
  BY DEF DlInv, Boot, DlTypeOK, Steps, Reading, source
<1>3. SourceInv'
  BY <1>1 DEF DlInv, Boot, SourceInv, source
<1>4. ~Past /\ ~Past' /\ PhaseInv'
  BY DEF DlInv, DlTypeOK, Boot, PhaseInv, Past, source
<1>5. ReaderInv'
  BY DEF DlInv, DlTypeOK, Boot, PhaseInv, ReaderInv, Reading, source
<1> QED BY <1>2, <1>3, <1>4, <1>5 DEF DlInv

LEMMA OpenKeeps == ASSUME DlInv, NEW w \in Worker, Open(w) PROVE DlInv'
<1>1. main \in {"barrier", "join"} /\ pc[w] = "open"
  BY Started DEF Open
<1>2. CASE Fails
  BY <1>2, FailKeeps
<1>3. CASE /\ dlp_type = "GETATTR" \/ (dlp_type = "KMOD" /\ fd_dlparams = "open")
           /\ vals' = [vals EXCEPT ![w] = [runtime |-> w, deadline |-> w]]
           /\ pc' = [pc EXCEPT ![w] = "synced"]
           /\ UNCHANGED <<source, buf, dl_sync_delta_ns, main, at, mutex, reads>>
  <2>1. DlTypeOK' /\ SourceInv'
    BY <1>1, <1>3, Distinct DEF DlInv, DlTypeOK, SourceInv, Steps, Reading, source
  <2>2. PhaseInv'
    BY <1>1, <1>3, Distinct DEF DlInv, DlTypeOK, PhaseInv, Past, source
  <2>3. ReaderInv'
    BY <1>1, <1>3 DEF DlInv, DlTypeOK, ReaderInv, Reading, source
  <2> QED BY <2>1, <2>2, <2>3 DEF DlInv
<1>4. CASE /\ dlp_type = "PROC"
           /\ buf' = buf \cup {w}
           /\ pc' = [pc EXCEPT ![w] = "read"]
           /\ UNCHANGED <<source, dl_sync_delta_ns, main, at, vals, mutex, reads>>
  <2>1. DlTypeOK' /\ SourceInv'
    BY <1>1, <1>4 DEF DlInv, DlTypeOK, SourceInv, Steps, Reading, source
  <2>2. PhaseInv'
    BY <1>1, <1>4 DEF DlInv, DlTypeOK, PhaseInv, Past, source
  <2>3. \A v \in Worker : mutex = v => v = w
    BY <1>1 DEF DlInv, PhaseInv, ReaderInv, Past, Reading
  <2>4. ReaderInv'
    BY <1>1, <1>4, <2>3 DEF DlInv, DlTypeOK, ReaderInv, Reading, source
  <2> QED BY <2>1, <2>2, <2>4 DEF DlInv
<1> QED BY <1>2, <1>3, <1>4 DEF Open

\* The reader that holds the mutex is the only one.
LEMMA ReadsAlone == ASSUME DlInv, NEW w \in Worker, pc[w] \in Reading, at[w] = "pop"
                    PROVE  \A v \in Worker : pc[v] \in Reading => v = w
BY DEF DlInv, PhaseInv, ReaderInv, Past, Reading

LEMMA ReadKeeps == ASSUME DlInv, NEW w \in Worker, Read(w) PROVE DlInv'
<1>1. main \in {"barrier", "join"} /\ pc[w] = "read"
  BY Started DEF Read
<1>2. CASE Fails
  BY <1>2, FailKeeps
<1>3. CASE /\ buf' = {w} \cup {v \in Worker : pc[v] = "read"}
           /\ pc' = [pc EXCEPT ![w] = "runtime"]
           /\ UNCHANGED <<source, dl_sync_delta_ns, main, at, vals, mutex, reads>>
  <2>1. DlTypeOK' /\ SourceInv'
    BY <1>1, <1>3 DEF DlInv, DlTypeOK, SourceInv, Steps, Reading, source
  <2>2. PhaseInv'
    BY <1>1, <1>3 DEF DlInv, DlTypeOK, PhaseInv, Past, source
  <2>3. ASSUME NEW v \in Worker, mutex = v PROVE v = w /\ buf' = {w}
    <3>1. at[v] = "pop" /\ pc[v] \in Reading
      BY <2>3 DEF DlInv, ReaderInv
    <3>2. v = w
      BY <1>1, <3>1, ReadsAlone DEF Reading
    <3>3. {u \in Worker : pc[u] = "read"} = {w}
      BY <1>1, <3>1, <3>2, ReadsAlone DEF Reading
    <3> QED BY <1>3, <3>2, <3>3
  <2>4. ReaderInv'
    BY <1>1, <1>3, <2>3 DEF DlInv, DlTypeOK, ReaderInv, Reading, source
  <2> QED BY <2>1, <2>2, <2>4 DEF DlInv
<1> QED BY <1>2, <1>3 DEF Read

\* What is found is readable, and the one text of a reader has only its own number.
LEMMA FoundInText == ASSUME DlInv, NEW v \in Found
                     PROVE  /\ v \in Readable
                            /\ \A w \in Worker : buf = {w} => v = w
<1>1. buf \subseteq Worker
  BY DEF DlInv, DlTypeOK
<1>2. \A w \in Worker : buf = {w} => Cardinality(buf) = 1
  BY FS_Singleton
<1> QED BY <1>1, <1>2 DEF Found, Readable

LEMMA RuntimeKeeps == ASSUME DlInv, NEW w \in Worker, ParseRuntime(w) PROVE DlInv'
<1>1. main \in {"barrier", "join"} /\ pc[w] = "runtime" /\ dlp_type = "PROC"
  BY Started DEF ParseRuntime, DlInv, PhaseInv
<1>2. CASE Fails
  BY <1>1, <1>2, FailKeeps
<1>3. ASSUME NEW v \in Found, vals' = [vals EXCEPT ![w]["runtime"] = v],
             pc' = [pc EXCEPT ![w] = "deadline"],
             UNCHANGED <<source, buf, dl_sync_delta_ns, main, at, mutex, reads>>
      PROVE  DlInv'
  <2>1. v \in Readable
    BY <1>3, FoundInText
  <2>2. DlTypeOK'
    BY <1>1, <1>3, <2>1 DEF DlInv, DlTypeOK, Steps, Reading, source
  <2>3. SourceInv' /\ PhaseInv'
    BY <1>1, <1>3 DEF DlInv, DlTypeOK, SourceInv, PhaseInv, Past, source
  <2>4. mutex = w => v = w
    BY <1>1, <1>3, FoundInText DEF DlInv, ReaderInv
  <2>5. ReaderInv'
    BY <1>1, <1>3, <2>4 DEF DlInv, DlTypeOK, ReaderInv, Reading, source
  <2> QED BY <2>2, <2>3, <2>5 DEF DlInv
<1> QED BY <1>2, <1>3 DEF ParseRuntime, Parse

LEMMA DeadlineKeeps == ASSUME DlInv, NEW w \in Worker, ParseDeadline(w) PROVE DlInv'
<1>1. main \in {"barrier", "join"} /\ pc[w] = "deadline" /\ dlp_type = "PROC"
  BY Started DEF ParseDeadline, DlInv, PhaseInv
<1>2. CASE Fails
  BY <1>1, <1>2, FailKeeps
<1>3. ASSUME NEW v \in Found, vals' = [vals EXCEPT ![w]["deadline"] = v],
             pc' = [pc EXCEPT ![w] = "synced"],
             UNCHANGED <<source, buf, dl_sync_delta_ns, main, at, mutex, reads>>
      PROVE  DlInv'
  <2>1. v \in Readable
    BY <1>3, FoundInText
  <2>2. DlTypeOK'
    BY <1>1, <1>3, <2>1 DEF DlInv, DlTypeOK, Steps, Reading, source
  <2>3. SourceInv' /\ PhaseInv'
    BY <1>1, <1>3, <2>1, Distinct DEF DlInv, DlTypeOK, SourceInv, PhaseInv, Past, source
  <2>4. mutex = w => v = w
    BY <1>1, <1>3, FoundInText DEF DlInv, ReaderInv
  <2>5. ReaderInv'
    BY <1>1, <1>3, <2>4 DEF DlInv, DlTypeOK, ReaderInv, Reading, source
  <2> QED BY <2>2, <2>3, <2>5 DEF DlInv
<1> QED BY <1>2, <1>3 DEF ParseDeadline, Parse

\* The second reading before the barrier sets the offset, the others do not.
LEMMA UseKeeps == ASSUME DlInv, NEW w \in Worker, Use(w) PROVE DlInv'
<1>1. main \in {"barrier", "join"} /\ pc[w] = "synced"
  BY Started DEF Use
<1>2. DlTypeOK'
  BY <1>1, Distinct DEF DlInv, Use, DlTypeOK, PhaseInv, Steps, Reading, source
<1>3. SourceInv'
  BY <1>1 DEF DlInv, Use, DlTypeOK, SourceInv, source
<1>4. PhaseInv'
  <2>1. CASE at[w] = "overhead" /\ Use(w)
    BY <1>1, <2>1 DEF DlInv, Use, DlTypeOK, PhaseInv, Past, source
  <2>2. CASE at[w] = "sync" /\ Use(w)
    <3>1. dl_sync_delta_ns' # NONE
      BY <1>1, <1>2, <2>2, Distinct DEF Use, DlInv, DlTypeOK, PhaseInv
    <3>2. ~Past /\ ~Past'
      BY <1>1, <2>2 DEF DlInv, Use, DlTypeOK, PhaseInv, Past
    <3> QED BY <1>1, <2>2, <3>1, <3>2 DEF DlInv, Use, DlTypeOK, PhaseInv, source
  <2>3. CASE at[w] = "pop" /\ Use(w)
    BY <1>1, <2>3 DEF DlInv, Use, DlTypeOK, PhaseInv, Past, source
  <2> QED BY <2>1, <2>2, <2>3 DEF Use
<1>5. ReaderInv'
  <2>1. at[w] = "pop" => \A v \in Worker : mutex = v <=> v = w
    BY <1>1, ReadsAlone DEF DlInv, ReaderInv, Reading
  <2> QED BY <1>1, <2>1, Distinct DEF DlInv, Use, DlTypeOK, ReaderInv, Reading, source
<1> QED BY <1>2, <1>3, <1>4, <1>5 DEF DlInv

LEMMA LeaveKeeps == ASSUME DlInv, NEW w \in Worker, LeaveBarrier(w) PROVE DlInv'
BY DEF DlInv, LeaveBarrier, DlTypeOK, SourceInv, PhaseInv, ReaderInv,
       Past, Steps, Reading, source

LEMMA PopKeeps == ASSUME DlInv, NEW w \in Worker, Pop(w) PROVE DlInv'
<1>1. main \in {"barrier", "join"} /\ pc[w] = "top" /\ mutex = NONE
  BY Started DEF Pop
<1>2. DlTypeOK' /\ SourceInv'
  BY <1>1, Distinct DEF DlInv, Pop, DlTypeOK, SourceInv, Steps, Reading, source
<1>3. PhaseInv'
  BY <1>1 DEF DlInv, Pop, DlTypeOK, PhaseInv, Past, source
<1>4. ReaderInv'
  BY <1>1, Distinct DEF DlInv, Pop, DlTypeOK, PhaseInv, ReaderInv, Reading, source
<1> QED BY <1>2, <1>3, <1>4 DEF DlInv

LEMMA ExitKeeps == ASSUME DlInv, NEW w \in Worker, Exit(w) PROVE DlInv'
<1>1. main \in {"barrier", "join"} /\ pc[w] = "top"
  BY Started DEF Exit
<1> QED
  BY <1>1 DEF DlInv, Exit, DlTypeOK, SourceInv, PhaseInv, ReaderInv,
              Past, Steps, Reading, source

-------------------------------------------------------------------------------
LEMMA DlKeeps == DlInv /\ [DlNext]_dvars => DlInv'
<1> SUFFICES ASSUME DlInv, [DlNext]_dvars PROVE DlInv'
  OBVIOUS
<1>1. CASE dl_params_init \/ MainAtBarrier \/ dl_params_cleanup
  BY <1>1, InitKeeps, ArriveKeeps, CleanupKeeps
<1>2. ASSUME NEW w \in Worker, WorkerStep(w) PROVE DlInv'
  BY <1>2, BootKeeps, OpenKeeps, ReadKeeps, RuntimeKeeps, DeadlineKeeps, UseKeeps,
     LeaveKeeps, PopKeeps, ExitKeeps DEF WorkerStep
<1>3. CASE UNCHANGED dvars
  BY <1>3 DEF dvars, DlInv, DlTypeOK, SourceInv, PhaseInv, ReaderInv, Past
<1> QED BY <1>1, <1>2, <1>3 DEF DlNext, Ended

-------------------------------------------------------------------------------
(* The module *)

LEMMA DeviceStarts == DeviceInit => DeviceInv
BY DEF DeviceInit, DeviceInv, DeviceTypeOK, CallsInv, RefsInv, NothingLeftBehind, Registrable

\* Loading the module, and every way that fails.
LEMMA LoadKeeps == ASSUME DeviceInv, register_chrdev \/ class_create \/ device_create
                   PROVE  DeviceInv'
<1> USE DEF DeviceInv, DeviceTypeOK, CallsInv, RefsInv, NothingLeftBehind, NoFile, Registers,
            Unregisters, Registrable
<1>1. CASE register_chrdev
  BY <1>1 DEF register_chrdev
<1>2. CASE class_create
  BY <1>2 DEF class_create
<1>3. CASE device_create
  BY <1>3 DEF device_create
<1> QED BY <1>1, <1>2, <1>3

\* Removing it, up to the freeing of its code.
LEMMA RemovalKeeps ==
    ASSUME DeviceInv, Remove \/ device_destroy \/ class_destroy \/ unregister_chrdev \/ Free
    PROVE  DeviceInv'
<1> USE DEF DeviceInv, DeviceTypeOK, CallsInv, RefsInv, NothingLeftBehind, NoFile,
            Unregisters, Registrable
<1>1. CASE Remove
  BY <1>1 DEF Remove
<1>2. CASE device_destroy
  BY <1>2 DEF device_destroy
<1>3. CASE class_destroy
  BY <1>3 DEF class_destroy
<1>4. CASE unregister_chrdev
  BY <1>4 DEF unregister_chrdev
<1>5. CASE Free
  BY <1>5 DEF Free
<1> QED BY <1>1, <1>2, <1>3, <1>4, <1>5

LEMMA FileKeeps ==
    ASSUME DeviceInv, NEW f \in File,
           Lookup(f) \/ dev_open(f) \/ dev_read(f) \/ dev_release(f) \/ Oops(f)
    PROVE  DeviceInv'
<1> USE DEF DeviceInv, DeviceTypeOK, CallsInv, RefsInv, NothingLeftBehind, SameModule, Registrable
<1>1. CASE Lookup(f)
  BY <1>1 DEF Lookup
<1>2. CASE dev_open(f)
  BY <1>2 DEF dev_open
<1>3. CASE dev_read(f) \/ Oops(f)
  BY <1>3 DEF dev_read, Oops, kvars
<1>4. CASE dev_release(f)
  BY <1>4 DEF dev_release
<1> QED BY <1>1, <1>2, <1>3, <1>4

\* Only the freeing of the code leaves a file without it, and then a late one.
LEMMA DanglingIsLate ==
    ASSUME DeviceInv, Administrator, NEW f \in File, file[f] = "open", file'[f] # "open"
    PROVE  file'[f] = "dangling" /\ f \in late /\ late' = late
<1>1. Free
  BY DEF Administrator, register_chrdev, class_create, device_create, Remove, device_destroy,
         class_destroy, unregister_chrdev, NoFile
<1> QED BY <1>1 DEF Free, DeviceInv, RefsInv

-------------------------------------------------------------------------------
(* The two together *)

LEMMA Files == prog \in File /\ other \in File /\ prog # other
BY DlStackAssumption

\* The steps of the composition are steps of the parts.
LEMMA ProgramSteps == ASSUME Program PROVE [DlNext]_dvars \/ (Killed /\ Fails)
BY DEF Program, MainLooksUp, MainInits, MainCleansUp, MainExits, Killed, WorkerOpens, WorkerSteps,
       DlNext, WorkerStep

LEMMA DeviceSteps ==
    ASSUME StackNext
    PROVE  \/ Administrator /\ UNCHANGED dvars
           \/ \E f \in File : Lookup(f) \/ dev_open(f) \/ dev_read(f) \/ dev_release(f) \/ Oops(f)
           \/ UNCHANGED kvars
BY Files DEF StackNext, Other, Program, MainLooksUp, MainInits, MainCleansUp, MainExits, Killed,
             WorkerOpens, WorkerSteps

LEMMA StackKeepsDl == ASSUME DlInv, [StackNext]_stackvars PROVE DlInv'
<1>1. [DlNext]_dvars \/ Fails
  BY ProgramSteps DEF StackNext, Other, stackvars
<1> QED BY <1>1, DlKeeps, FailKeeps

LEMMA StackKeepsDevice == ASSUME DeviceInv, [StackNext]_stackvars PROVE DeviceInv'
<1>1. CASE Administrator
  BY <1>1, LoadKeeps, RemovalKeeps DEF Administrator
<1>2. CASE \E f \in File : Lookup(f) \/ dev_open(f) \/ dev_read(f) \/ dev_release(f) \/ Oops(f)
  BY <1>2, FileKeeps
<1>3. CASE UNCHANGED kvars
  BY <1>3 DEF kvars, DeviceInv, DeviceTypeOK, CallsInv, RefsInv, NothingLeftBehind
<1> QED BY <1>1, <1>2, <1>3, DeviceSteps DEF stackvars

\* A step of the program that is not at its ends leaves its file alone.
LEMMA WorkersKeepFile ==
    ASSUME DlInv, FileInv, UNCHANGED kvars, NEW w \in Worker, WorkerStep(w) PROVE FileInv'
<1>1. UNCHANGED source /\ (main' = main \/ (main' = "failed" /\ dlp_type # "KMOD"))
  <2>1. CASE Open(w)
    <3>1. main \in {"barrier", "join"}
      BY <2>1, Started DEF Open
    <3> QED BY <2>1, <3>1 DEF Open, Fails, source, DlInv, SourceInv
  <2>2. CASE Read(w) \/ ParseRuntime(w) \/ ParseDeadline(w)
    <3>1. dlp_type = "PROC"
      BY <2>2 DEF Read, ParseRuntime, ParseDeadline, DlInv, PhaseInv
    <3> QED BY <2>2, <3>1, Distinct DEF Read, ParseRuntime, ParseDeadline, Parse, Fails, source
  <2>3. CASE Boot(w) \/ Use(w) \/ LeaveBarrier(w) \/ Pop(w) \/ Exit(w)
    BY <2>3 DEF Boot, Use, LeaveBarrier, Pop, Exit, source
  <2> QED BY <2>1, <2>2, <2>3 DEF WorkerStep
<1> QED BY <1>1 DEF FileInv, kvars, source

LEMMA StackKeepsFile == ASSUME StackInv, [StackNext]_stackvars PROVE FileInv'
<1> USE DEF StackInv
<1>1. CASE MainInits
  <2>1. CASE TriesDevice /\ env.device
    BY <1>1, <2>1, Files, Distinct DEF MainInits, dev_open, FileInv, DeviceInv, DeviceTypeOK,
           dl_params_init, Selected, TriesDevice, DlInv, SourceInv
  <2>2. CASE ~(TriesDevice /\ env.device)
    BY <1>1, <2>2, Distinct DEF MainInits, dl_params_init, Selected, TriesDevice, FileInv,
                                DlInv, SourceInv
  <2> QED BY <2>1, <2>2
<1>2. CASE MainLooksUp
  BY <1>2 DEF MainLooksUp, dvars, FileInv
<1>3. CASE MainCleansUp
  BY <1>3 DEF MainCleansUp, dl_params_cleanup, FileInv
<1>4. CASE Killed
  BY <1>4, Distinct DEF Killed, Fails, source, Oops, kvars, Running, FileInv, DlInv, SourceInv
<1>5. ASSUME NEW w \in Worker, WorkerOpens(w) \/ (WorkerSteps(w) /\ UNCHANGED kvars)
      PROVE  FileInv'
  BY <1>5, WorkersKeepFile DEF WorkerOpens, WorkerSteps, WorkerStep, dev_read
<1>6. CASE UNCHANGED kvars /\ (MainAtBarrier \/ Ended \/ UNCHANGED dvars)
  BY <1>6 DEF MainAtBarrier, Ended, source, dvars, kvars, FileInv
<1>7. CASE MainExits
  BY <1>7, Files DEF MainExits, dvars, dev_release, FileInv
<1>8. CASE Other
  BY <1>8, Files DEF Other, Lookup, dev_open, dev_read, dev_release, kvars, dvars, FileInv,
                     DeviceInv, DeviceTypeOK
<1>9. CASE Administrator /\ UNCHANGED dvars
  <2>1. file[prog] = "dangling" => file'[prog] = "dangling" /\ late' = late
    BY <1>9, Files DEF Administrator, register_chrdev, class_create, device_create, Remove,
       device_destroy, class_destroy, unregister_chrdev, NoFile, Free
  <2>2. file[prog] = "open" /\ file'[prog] # "open"
            => file'[prog] = "dangling" /\ prog \in late'
    BY <1>9, DanglingIsLate, Files
  <2> QED BY <1>9, <2>1, <2>2 DEF FileInv, dvars
<1> QED BY <1>1, <1>2, <1>3, <1>4, <1>5, <1>6, <1>7, <1>8, <1>9 DEF StackNext, Program, stackvars

LEMMA StackInvariance == StackSpec => []StackInv
<1>1. StackInit => StackInv
  BY DlStarts, DeviceStarts DEF StackInit, StackInv, FileInv, DlInit
<1>2. StackInv /\ [StackNext]_stackvars => StackInv'
  BY StackKeepsDl, StackKeepsDevice, StackKeepsFile DEF StackInv
<1> QED BY <1>1, <1>2, PTL DEF StackSpec

-------------------------------------------------------------------------------
(* The theorems *)

\* However many workers share the buffer of dl_params_get(), a pop decides on
\* the numbers of the worker that pops.
THEOREM OwnNumbersRead == StackSpec => []PopsReadOwn
<1>1. DlInv => PopsReadOwn
  <2> SUFFICES ASSUME DlInv, NEW w \in Worker, at[w] = "pop", pc[w] = "synced"
               PROVE  vals[w] = [runtime |-> w, deadline |-> w] /\ dl_sync_delta_ns # NONE
    BY DEF PopsReadOwn
  <2>1. vals[w] \in [runtime : Readable \cup {NONE}, deadline : Readable \cup {NONE}]
    BY DEF DlInv, DlTypeOK
  <2>2. vals[w].runtime = w /\ vals[w].deadline = w /\ dl_sync_delta_ns # NONE
    BY DEF DlInv, ReaderInv, PhaseInv, Reading
  <2> QED BY <2>1, <2>2
<1>2. StackInv => DlInv
  BY DEF StackInv
<1> QED BY <1>1, <1>2, StackInvariance, PTL

\* However often the module is removed and loaded, a program that did not open the
\* device during a removal reads it to its end.
THEOREM DeviceServesToTheEnd == StackSpec => []DeviceServes
<1>1. StackInv => DeviceServes
  BY DEF StackInv, FileInv, DeviceServes
<1> QED BY <1>1, StackInvariance, PTL

\* Whatever fails while the module is loaded, and whenever it is removed, it leaves
\* nothing registered and unregisters nothing but its class twice.
THEOREM ModuleLeavesNothing == StackSpec => []NothingLeftBehind
<1>1. StackInv => NothingLeftBehind
  BY DEF StackInv, DeviceInv
<1> QED BY <1>1, StackInvariance, PTL

\* A file that was opened before the removal of the module began keeps its code.
THEOREM OpenFilesKeepModule == StackSpec => OpenKeepsModule
<1>1. StackInv /\ [StackNext]_stackvars
          => [\A f \in File : file[f] = "open" /\ f \notin late => file'[f] # "dangling"]_kvars
  <2> SUFFICES ASSUME StackInv, StackNext, NEW f \in File, file[f] = "open", f \notin late,
                      file'[f] = "dangling"
               PROVE  FALSE
    BY DEF stackvars
  <2>1. CASE Administrator
    BY <2>1, DanglingIsLate DEF StackInv
  <2>2. CASE \E g \in File : Lookup(g) \/ dev_open(g) \/ dev_read(g) \/ dev_release(g) \/ Oops(g)
    BY <2>2 DEF Lookup, dev_open, dev_read, dev_release, Oops, kvars,
                StackInv, DeviceInv, DeviceTypeOK
  <2>3. CASE UNCHANGED kvars
    BY <2>3 DEF kvars
  <2> QED BY <2>1, <2>2, <2>3, DeviceSteps
<1> QED BY <1>1, StackInvariance, PTL DEF StackSpec, OpenKeepsModule

\* The offset between the clocks is settled before the first pop uses it.
THEOREM OffsetSettled == StackSpec => DeltaSettled
<1>1. StackInv /\ [StackNext]_stackvars => [Past => dl_sync_delta_ns' = dl_sync_delta_ns]_dvars
  <2> SUFFICES ASSUME DlInv, StackNext, Past, ~UNCHANGED dvars
               PROVE  dl_sync_delta_ns' = dl_sync_delta_ns
    BY DEF dvars, stackvars, StackInv
  <2>1. \A w \in Worker : at[w] = "pop"
    BY DEF DlInv, PhaseInv
  <2>2. DlNext \/ Fails
    BY ProgramSteps DEF StackNext, Other
  <2>3. CASE dl_params_init \/ MainAtBarrier \/ dl_params_cleanup \/ Ended \/ Fails
    BY <2>3 DEF dl_params_init, MainAtBarrier, dl_params_cleanup, Ended, Unread, dvars, Fails
  <2>4. ASSUME NEW w \in Worker, WorkerStep(w) PROVE dl_sync_delta_ns' = dl_sync_delta_ns
    BY <2>1, <2>4 DEF WorkerStep, Boot, Open, Read, ParseRuntime, ParseDeadline, Parse,
                      Fails, Unread, Use, LeaveBarrier, Pop, Exit
  <2> QED BY <2>2, <2>3, <2>4 DEF DlNext
<1> QED BY <1>1, StackInvariance, PTL DEF StackSpec, DeltaSettled

\* Under the mutex a text is never mixed: if every worker has its reservation, only
\* the file of the worker that pops can still end the program.
THEOREM SafeAfterBarrier == StackSpec => NoMixedTextAfterBarrier
<1>1. StackInv /\ [StackNext]_stackvars
          => [Past /\ env.reserved = Worker /\ dlp_type = "PROC" /\ main # "failed"
                  /\ main' = "failed"
                 => \E w \in Worker : mutex = w /\ pc[w] \in {"open", "read"}]_dvars
  <2> SUFFICES ASSUME StackInv, StackNext, Past, env.reserved = Worker, dlp_type = "PROC",
                      main # "failed", main' = "failed"
               PROVE  \E w \in Worker : mutex = w /\ pc[w] \in {"open", "read"}
    BY DEF dvars, stackvars
  <2>1. DlInv /\ main # "init" /\ \A w \in Worker : at[w] = "pop"
    BY DEF StackInv, DlInv, PhaseInv
  <2>2. PICK w \in Worker : WorkerStep(w)
    BY <2>1 DEF StackNext, Other, Program, MainLooksUp, MainInits, MainCleansUp, MainExits,
                Killed, WorkerOpens, WorkerSteps, WorkerStep, dl_params_init, MainAtBarrier,
                dl_params_cleanup, Ended, dvars
  <2>3. (Open(w) \/ Read(w) \/ ParseRuntime(w) \/ ParseDeadline(w)) /\ Fails
    BY <2>2 DEF WorkerStep, Boot, Open, Read, ParseRuntime, ParseDeadline, Parse,
                Use, LeaveBarrier, Pop, Exit
  <2>4. mutex = w
    BY <2>1, <2>3 DEF DlInv, ReaderInv, Reading, Open, Read, ParseRuntime, ParseDeadline
  <2>5. CASE ParseRuntime(w) \/ ParseDeadline(w)
    <3>1. buf = {w}
      BY <2>1, <2>4, <2>5 DEF DlInv, ReaderInv, ParseRuntime, ParseDeadline
    <3>2. Cardinality(buf) = 1
      BY <3>1, FS_Singleton
    <3>3. buf \subseteq env.reserved
      BY <3>1
    <3>4. UNCHANGED main
      BY <2>5, <3>2, <3>3 DEF ParseRuntime, ParseDeadline, Parse
    <3> QED BY <3>4
  <2> QED BY <2>3, <2>4, <2>5 DEF Open, Read
<1> QED BY <1>1, StackInvariance, PTL DEF StackSpec, NoMixedTextAfterBarrier
===============================================================================
