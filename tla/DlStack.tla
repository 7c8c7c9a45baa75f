-------------------------------- MODULE DlStack --------------------------------
(***************************************************************************)
(* The program that asks for its parameters (module DlParams) above the       *)
(* kernel module that may answer (module DlDevice).  The program has one file *)
(* of the device, another program opens and closes a second one, and an       *)
(* administrator loads and removes the module at any time.                    *)
(*                                                                         *)
(* What DlParams takes from env.device is here the state of the module when   *)
(* open() is called: a behaviour in which the two differ does not get on.     *)
(***************************************************************************)
EXTENDS DlParams, DlDevice

CONSTANTS prog, other

ASSUME DlStackAssumption == File = {prog, other} /\ prog # other

stackvars == <<dvars, kvars>>

StackInit == DlInit /\ DeviceInit

-------------------------------------------------------------------------------
(* The program *)

TriesDevice == type = "KMOD" \/ (type = "AUTO" /\ ~env.getattr)

\* open("/dev/dlparams") begins.
MainLooksUp == /\ main = "init" /\ TriesDevice /\ env.device
               /\ Lookup(prog)
               /\ UNCHANGED dvars

\* dl_params_init(): open() ends in dev_open(), or there is no such device.
MainInits == /\ dl_params_init
             /\ IF ~TriesDevice THEN UNCHANGED kvars
                ELSE IF env.device THEN dev_open(prog)
                ELSE "device" \notin registered /\ UNCHANGED kvars

\* dl_params_cleanup(): close() ends in dev_release().
MainCleansUp == /\ dl_params_cleanup
                /\ IF dlp_type = "KMOD" THEN dev_release(prog) ELSE UNCHANGED kvars

\* What is still open when the program ends is closed by the kernel.
MainExits == /\ main \in {"done", "failed"} /\ dev_release(prog)
             /\ UNCHANGED dvars

\* read() ends in dev_read().
WorkerOpens(w) == /\ Open(w)
                  /\ IF dlp_type = "KMOD" /\ fd_dlparams = "open" THEN dev_read(prog)
                     ELSE UNCHANGED kvars

WorkerSteps(w) == \/ Boot(w) \/ Read(w) \/ ParseRuntime(w) \/ ParseDeadline(w)
                  \/ Use(w) \/ LeaveBarrier(w) \/ Pop(w) \/ Exit(w)

\* The program opens, reads or closes a file whose code has gone.
Killed == /\ \/ main = "init"
             \/ dlp_type = "KMOD" /\ main = "join" /\ \A w \in Worker : pc[w] = "exit"
             \/ dlp_type = "KMOD" /\ Running /\ \E w \in Worker : pc[w] = "open"
          /\ Fails /\ Oops(prog)

Program == \/ MainLooksUp \/ MainInits \/ MainCleansUp \/ MainExits \/ Killed
           \/ MainAtBarrier /\ UNCHANGED kvars
           \/ Ended /\ UNCHANGED kvars
           \/ \E w \in Worker : WorkerOpens(w) \/ (WorkerSteps(w) /\ UNCHANGED kvars)

Other == /\ Lookup(other) \/ dev_open(other) \/ dev_read(other) \/ dev_release(other)
         /\ UNCHANGED dvars

StackNext == Program \/ Other \/ (Administrator /\ UNCHANGED dvars)

StackSpec == StackInit /\ [][StackNext]_stackvars

-------------------------------------------------------------------------------
(* The inductive invariant behind the theorems: what the program believes of its
   file, and what is so *)

FileInv ==
    /\ main \in {"barrier", "join"} /\ dlp_type = "KMOD"
           => file[prog] = "open" \/ (file[prog] = "dangling" /\ prog \in late)
    /\ main = "failed" /\ dlp_type = "KMOD" => prog \in late /\ file[prog] = "dangling"

-------------------------------------------------------------------------------
(* Properties *)

\* A program that reads the device fails in no call, from the first read of the
\* first worker to the close that main() makes after the last, unless the module
\* was being removed when the program opened it (dl_util.c:27, 46-48, 78-83).
DeviceServes == main = "failed" /\ dlp_type = "KMOD" => prog \in late

\* What the theorems of DlStackProofs rest on.
StackInv == DlInv /\ DeviceInv /\ FileInv
===============================================================================
