-------------------------------- MODULE DlDevice --------------------------------
(***************************************************************************)
(* kmod/dlparams.c: the kernel module behind /dev/dlparams.  An administrator *)
(* loads and removes it while programs have its device open.                  *)
(*                                                                         *)
(* A reference taken by dev_open() keeps the module.  But its file_operations *)
(* have no owner, so the kernel takes none for the time from finding the      *)
(* device to calling dev_open(), and dev_open() does not look whether it got  *)
(* one: it gets none from a module that is being removed.                     *)
(*                                                                         *)
(* External is what the kernel does: loading, the check for references, and   *)
(* freeing the code, which leaves files that are open or about to be          *)
(* "dangling": their next call finds no code.                                 *)
(***************************************************************************)
EXTENDS Naturals

CONSTANT File  \* open files of /dev/dlparams

VARIABLES kmod,        \* the state of the module
          registered,  \* what it has registered with the kernel
          twice,       \* history: what was unregistered when it was not registered
          file,        \* the state of each file
          refs,        \* the files that hold a reference to the module
          late         \* history: the files opened while the module was going

kvars == <<kmod, registered, twice, file, refs, late>>

Registrable == {"chrdev", "class", "device"}

DeviceInit == /\ kmod = "absent" /\ registered = {} /\ twice = {}
              /\ file = [f \in File |-> "closed"]
              /\ refs = {} /\ late = {}

-------------------------------------------------------------------------------
(* init_module() *)

NoFile == UNCHANGED <<file, refs, late>>

Registers(what) == registered' = registered \cup {what} /\ UNCHANGED twice

\* The calls of S in some order; those of Doubled come when they are undone already.
Unregisters(S, Doubled) == /\ registered' = registered \ S
                           /\ twice' = twice \cup Doubled \cup (S \ registered)

register_chrdev == /\ kmod = "absent"
                   /\ kmod' = "coming" /\ Registers("chrdev") /\ NoFile

\* Faulty: the error path leaves the character device.
ClassLeaks == /\ kmod = "coming" /\ registered = {"chrdev"}
              /\ \/ UNCHANGED kmod /\ Registers("class")
                 \/ kmod' = "absent" /\ UNCHANGED <<registered, twice>>
              /\ NoFile

class_create == /\ kmod = "coming" /\ registered = {"chrdev"}
                /\ \/ UNCHANGED kmod /\ Registers("class")
                   \/ kmod' = "absent" /\ Unregisters({"chrdev"}, {})
                /\ NoFile

\* class_destroy() unregisters the class, which has been unregistered already.
device_create == /\ kmod = "coming" /\ "class" \in registered
                 /\ \/ kmod' = "live" /\ Registers("device")
                    \/ kmod' = "absent" /\ Unregisters({"chrdev", "class"}, {"class"})
                 /\ NoFile

-------------------------------------------------------------------------------
(* Removal *)

\* The kernel refuses to remove a module that somebody holds.
Remove == /\ kmod = "live" /\ refs = {}
          /\ kmod' = "going"
          /\ UNCHANGED <<registered, twice>> /\ NoFile

\* cleanup_module(), in the order of its calls.
device_destroy == /\ kmod = "going" /\ "device" \in registered
                  /\ Unregisters({"device"}, {})
                  /\ UNCHANGED kmod /\ NoFile

class_destroy == /\ kmod = "going" /\ "device" \notin registered /\ "class" \in registered
                 /\ Unregisters({"class"}, {"class"})
                 /\ UNCHANGED kmod /\ NoFile

unregister_chrdev == /\ kmod = "going" /\ registered = {"chrdev"}
                     /\ Unregisters({"chrdev"}, {})
                     /\ UNCHANGED kmod /\ NoFile

\* The code is freed, whoever is about to call it.
Free == /\ kmod = "going" /\ registered = {}
        /\ kmod' = "absent"
        /\ file' = [f \in File |-> IF file[f] = "closed" THEN "closed" ELSE "dangling"]
        /\ refs' = {}
        /\ UNCHANGED <<registered, twice, late>>

Administrator == \/ register_chrdev \/ class_create \/ device_create
                 \/ Remove \/ device_destroy \/ class_destroy \/ unregister_chrdev \/ Free

-------------------------------------------------------------------------------
(* A file *)

SameModule == UNCHANGED <<kmod, registered, twice>>

\* open() has found the device by its name.
Lookup(f) == /\ file[f] = "closed" /\ "device" \in registered
             /\ file' = [file EXCEPT ![f] = "found"]
             /\ UNCHANGED <<refs, late>> /\ SameModule

\* Faulty: no reference is taken.
OpenUncounted(f) == /\ file[f] = "found"
                    /\ file' = [file EXCEPT ![f] = "open"]
                    /\ late' = IF kmod = "going" THEN late \cup {f} ELSE late
                    /\ UNCHANGED refs /\ SameModule

\* try_module_get() fails when the module is going; the open succeeds all the same.
dev_open(f) == /\ file[f] = "found"
               /\ file' = [file EXCEPT ![f] = "open"]
               /\ IF kmod = "going" THEN late' = late \cup {f} /\ UNCHANGED refs
                                    ELSE refs' = refs \cup {f} /\ UNCHANGED late
               /\ SameModule

\* The parameters of the calling thread are copied out.
dev_read(f) == file[f] = "open" /\ UNCHANGED kvars

\* module_put(): of a file that has no reference it is only warned of.
dev_release(f) == /\ file[f] = "open"
                  /\ file' = [file EXCEPT ![f] = "closed"]
                  /\ refs' = refs \ {f} /\ late' = late \ {f}
                  /\ SameModule

\* Its owner is killed when it calls code that is not there.
Oops(f) == file[f] = "dangling" /\ UNCHANGED kvars

-------------------------------------------------------------------------------
(* The inductive invariant behind the theorems, in named parts *)

DeviceTypeOK == /\ kmod \in {"absent", "coming", "live", "going"}
                /\ registered \subseteq Registrable
                /\ file \in [File -> {"closed", "found", "open", "dangling"}]
                /\ late \subseteq {f \in File : file[f] \in {"open", "dangling"}}

\* What is registered depends on how far the calls have come.
CallsInv == /\ kmod = "coming" => registered \in {{"chrdev"}, {"chrdev", "class"}}
            /\ "device" \in registered => registered = Registrable
            /\ "class" \in registered => "chrdev" \in registered

\* Whoever has the device open has a reference or has come late, and there is
\* neither without a module.
RefsInv == /\ refs = {f \in File : file[f] = "open" /\ f \notin late}
           /\ kmod = "going" => refs = {}
           /\ kmod \in {"absent", "coming"} => \A f \in File : file[f] \in {"closed", "dangling"}

-------------------------------------------------------------------------------
(* Properties *)

\* A file that was opened before the removal began is never left without the code
\* it calls, however often the module is removed and loaded again: the reference
\* is given back by dev_release() and not before.  Only a file whose open crosses
\* the removal is (kmod/dlparams.c:17-18, 57-62).
OpenKeepsModule ==
    [][\A f \in File : file[f] = "open" /\ f \notin late => file'[f] # "dangling"]_kvars

\* Whatever step of the initialisation fails, and whenever the module is removed,
\* nothing it has registered outlives it; and nothing but the class is
\* unregistered twice (kmod/dlparams.c:64-104).
NothingLeftBehind == /\ kmod = "absent" => registered = {}
                     /\ kmod = "live" => registered = Registrable
                     /\ twice \subseteq {"class"}

\* What the theorems of DlStackProofs rest on.
DeviceInv == DeviceTypeOK /\ CallsInv /\ RefsInv /\ NothingLeftBehind
===============================================================================
